------------------------- MODULE StreamManagementAcks -------------------------
(* What the module reports as acknowledged: NoFalseAck, AcksComplete,           *)
(* StoreMatchesServer, and the refinement of AckedDelivery.                     *)
(*                                                                              *)
(* An h carries no names: the module takes it for the first h of the stanzas it *)
(* has counted since the session began, so that the invariant says where they   *)
(* are, for every session and through storage and resumption.  Data(r, t, b)    *)
(* numbers the stanzas: those up to r the server has read or will never read,   *)
(* those up to t the module knows of, and the session began after b.  Then the  *)
(* i-th stanza of unackedByServer is the one the server handles as number       *)
(* lastHandledByServer + i of the session, and so is the i-th of a list in the  *)
(* storage; acks on their way, or kept for an id, name no more than the server  *)
(* has handled.  That no ack is lost silently adds Complete: the stanzas a      *)
(* count covers, in memory or in the storage, are all accounted for.            *)
EXTENDS StreamManagementProofs, MCStreamManagement

-----------------------------------------------------------------------------
(* What is supposed, with AlwaysResumes.  Without AlwaysResumes and             *)
(* KeepsResuming NoFalseAck does not hold of the code.                          *)

\* No session handles as many stanzas as h can count.
NoWrap == MaxOut < Modulus

\* No process ends at all, or what awaits the answer to a <resume/> is not lost.
KeepsResuming == MaxCrash = 0 \/ ResumeMayBreak = FALSE

-----------------------------------------------------------------------------
(* What an ack reports.                                                       *)

\* The stanzas that can be acknowledged are known, and the one after them is not.
LEMMA KnownPrefixEnds ==
    ASSUME NEW s \in Seq(OutgoingItem), NEW n \in 0..Len(s)
    PROVE  /\ KnownPrefix(s, n) \in 0..n
           /\ \A j \in 1..KnownPrefix(s, n) : ~s[j].awaiting
           /\ KnownPrefix(s, n) < n => s[KnownPrefix(s, n) + 1].awaiting
<1> DEFINE t == [i \in 1..n |-> [handled |-> ~s[i].awaiting]]
<1>1. n \in Nat /\ n \in Int /\ Len(s) \in Nat /\ n <= Len(s)
  BY LenProperties
<1>2. \A i \in 1..n : s[i] \in OutgoingItem
  BY <1>1, ElementOfSeq
<1>3. t \in Seq([handled : BOOLEAN]) /\ Len(t) = n /\ \A i \in 1..n : (t[i].handled <=> ~s[i].awaiting)
  <2>1. t \in [1..n -> [handled : BOOLEAN]]
    BY <1>2 DEF OutgoingItem
  <2>2. \A i \in 1..n : (t[i].handled <=> ~s[i].awaiting)
    OBVIOUS
  <2>3. DOMAIN t = 1..n
    OBVIOUS
  <2> HIDE DEF t
  <2>4. t \in Seq([handled : BOOLEAN])
    BY <1>1, <2>1, SeqOfFunction
  <2>5. Len(t) = n
    BY <1>1, <2>3, <2>4, LenProperties
  <2> QED  BY <2>2, <2>4, <2>5
<1> HIDE DEF t
<1>4. KnownPrefix(s, n) = HandledPrefix(t)
  <2>1. \A k \in 1..n : (\A j \in 1..k : ~s[j].awaiting) <=> (\A j \in 1..k : t[j].handled)
    <3> SUFFICES ASSUME NEW k \in 1..n
                 PROVE  (\A j \in 1..k : ~s[j].awaiting) <=> (\A j \in 1..k : t[j].handled)
      OBVIOUS
    <3>1. \A j \in 1..k : j \in 1..n
      BY <1>1
    <3> QED  BY <1>3, <3>1
  <2>2. {k \in 1..n : \A j \in 1..k : ~s[j].awaiting} = {k \in 1..Len(t) : \A j \in 1..k : t[j].handled}
    BY <1>3, <2>1
  <2> QED  BY <2>2 DEF KnownPrefix, HandledPrefix
<1>5. HandledPrefix(t) \in 0..n
  BY <1>3, HandledPrefixType
<1>6. \A j \in 1..HandledPrefix(t) : t[j].handled
  BY <1>3, PrefixHandled
<1>7. HandledPrefix(t) < n => ~t[HandledPrefix(t) + 1].handled
  BY <1>3, PrefixEnds
<1> QED  BY <1>1, <1>3, <1>4, <1>5, <1>6, <1>7

LEMMA OutgoingTypes ==
    ASSUME Inv
    PROVE  /\ unackedByServer \in Seq(OutgoingItem) /\ Len(unackedByServer) \in Nat
           /\ DOMAIN unackedByServer = 1..Len(unackedByServer)
           /\ \A i \in 1..Len(unackedByServer) : unackedByServer[i] \in OutgoingItem
           /\ lastHandledByServer \in Nat
           /\ unprocessedAcks \in Seq(Nat) /\ Len(unprocessedAcks) \in Nat
           /\ \A i \in 1..Len(unprocessedAcks) : unprocessedAcks[i] \in Nat
BY LenProperties, ElementOfSeq DEF Inv, TypeOK, OutTypeOK

\* An ack that counts no more than was sent reports the first k stanzas, up to the first
\* whose id is not known yet.
LEMMA AckProcessed ==
    ASSUME Inv, NEW h \in Nat, h < Modulus, lastHandledByServer <= h,
           h <= lastHandledByServer + Len(unackedByServer), ProcessAck(h)
    PROVE  \E k \in 0..(h - lastHandledByServer) :
              /\ k \in 0..Len(unackedByServer)
              /\ lastHandledByServer' = lastHandledByServer + k
              /\ unackedByServer' = Drop(unackedByServer, k)
              /\ reported' = reported \cup IdsOf(unackedByServer, k)
              /\ reports' = reports + Cardinality({i \in 1..k : unackedByServer[i].id # 0})
              /\ \A i \in 1..k : ~unackedByServer[i].awaiting
              /\ AckComplete(h) <=> k = h - lastHandledByServer
              /\ k < h - lastHandledByServer => unackedByServer[k + 1].awaiting
              /\ \/ k = 0 /\ store' = store
                 \/ store' = StoreOutgoing(lastHandledByServer', unackedByServer')
<1> DEFINE u == unackedByServer
           d == h - lastHandledByServer
           k == KnownPrefix(u, d)
<1>1. u \in Seq(OutgoingItem) /\ Len(u) \in Nat /\ lastHandledByServer \in Nat
  BY OutgoingTypes
<1>2. d \in 0..Len(u) /\ AckDiff(h) = d /\ Smaller(AckDiff(h), Len(u)) = d
  BY <1>1 DEF AckDiff, Smaller
<1>3. /\ k \in 0..d /\ \A j \in 1..k : ~u[j].awaiting
      /\ k < d => u[k + 1].awaiting
  BY <1>1, <1>2, KnownPrefixEnds
<1>4. AckComplete(h) <=> k = d
  BY <1>2 DEF AckComplete
<1> DEFINE newest == IF k = d THEN h ELSE (lastHandledByServer + k) % Modulus
<1>5. newest = lastHandledByServer + k
  <2>1. CASE k = d
    BY <1>1, <2>1
  <2>2. CASE k # d
    <3>1. lastHandledByServer + k \in 0..(Modulus - 1) /\ Modulus \in Nat \ {0}
      BY <1>1, <1>2, <1>3, <2>2, BoundsAssumption
    <3>2. (lastHandledByServer + k) % Modulus = lastHandledByServer + k
      BY <3>1
    <3> QED  BY <2>2, <3>2
  <2> QED  BY <2>1, <2>2
<1>6. IF d # 0 /\ (k = d \/ k > 0)
      THEN /\ u' = Drop(u, k)
           /\ lastHandledByServer' = newest
           /\ store' = StoreOutgoing(newest, Drop(u, k))
           /\ Report(u, k)
      ELSE UNCHANGED <<unackedByServer, lastHandledByServer, store, reported, reports>>
  BY <1>2 DEF ProcessAck
<1>7. k = 0 => /\ Drop(u, k) = u /\ IdsOf(u, k) = {}
               /\ {i \in 1..k : u[i].id # 0} = {}
  <2>1. Drop(u, 0) = u
    BY <1>1, SubSeqFull DEF Drop
  <2> QED  BY <2>1 DEF IdsOf
<1> HIDE DEF k, newest
<1>8. CASE d # 0 /\ (k = d \/ k > 0)
  <2>1. /\ lastHandledByServer' = lastHandledByServer + k /\ u' = Drop(u, k)
        /\ store' = StoreOutgoing(lastHandledByServer', u') /\ Report(u, k)
    BY <1>5, <1>6, <1>8
  <2>2. k \in 0..Len(u)
    BY <1>1, <1>2, <1>3
  <2> QED  BY <1>3, <1>4, <2>1, <2>2 DEF Report
<1>9. CASE ~(d # 0 /\ (k = d \/ k > 0))
  <2>1. k = 0 /\ UNCHANGED <<unackedByServer, lastHandledByServer, store, reported, reports>>
    BY <1>3, <1>6, <1>9
  <2>2. Cardinality({i \in 1..k : u[i].id # 0}) = 0
    BY <1>7, <2>1, FS_EmptySet
  <2>3. reports' = reports + 0 /\ reports \in Nat
    BY <2>1 DEF Inv, TypeOK, HistTypeOK
  <2>4. /\ lastHandledByServer' = lastHandledByServer + k /\ u' = Drop(u, k)
        /\ reported' = reported \cup IdsOf(u, k) /\ k = 0 /\ store' = store
    BY <1>1, <1>7, <2>1
  <2>5. reports' = reports + Cardinality({i \in 1..k : u[i].id # 0})
    BY <2>2, <2>3
  <2>6. k \in 0..Len(u)
    BY <1>1, <1>2, <1>3
  <2> QED  BY <1>3, <1>4, <2>4, <2>5, <2>6
<1> QED  BY <1>8, <1>9

-----------------------------------------------------------------------------
(* The stanzas of a session, in line with what the server has handled.         *)

Log(s) == sessions[s].log

\* The elements `name' of q are numbered from k + 1 to n, in this order.
InOrder(q, name, k, n) ==
    /\ k \in Nat /\ n \in Nat /\ k <= n
    /\ \A i \in 1..Len(q) : q[i].name = name => q[i].arg \in (k + 1)..n
    /\ \A i, j \in 1..Len(q) : q[i].name = name /\ q[j].name = name /\ i < j => q[i].arg < q[j].arg
    /\ \A m \in (k + 1)..n : \E i \in 1..Len(q) : q[i].name = name /\ q[i].arg = m

\* In q the elements `name' up to b stand before the mark, the others after it.
Divides(q, mark, name, b) ==
    \A i, j \in 1..Len(q) : q[i].name = mark /\ q[j].name = name =>
        IF j < i THEN q[j].arg <= b ELSE q[j].arg > b

\* r stanzas are read by the server or lost, t are known to the module, and the session that
\* is asked for or in use began after b.
Queues(r, t, b) ==
    /\ InOrder(c2s, "stanza", r, sent) /\ InOrder(moduleQ, "didSend", t, sent)
    /\ sent <= MaxOut /\ b \in 0..sent
    /\ Divides(moduleQ, "didSendEnable", "didSend", b) /\ Divides(c2s, "enable", "stanza", b)
    /\ Posting => t <= b
    /\ Asking => r <= b

Read(r) ==
    /\ \A n \in received : n \in 1..r
    /\ \A s \in 1..Len(sessions) :
          Len(Log(s)) <= r /\ \A k \in 1..Len(Log(s)) : Log(s)[k] \in received

\* The stanzas of p may be reported, in this order and after what was.
Waiting(p, t) ==
    /\ \A i \in 1..Len(p) : /\ p[i].n <= t /\ p[i].id \in {0, p[i].n}
                            /\ \A m \in reported : m < p[i].n
    /\ \A i, j \in 1..Len(p) : i < j => p[i].n < p[j].n

Reported(t) ==
    /\ reported \subseteq received
    /\ \A m \in reported : m <= t
    /\ Waiting(unackedByServer, t) /\ Waiting(prevUnacked, t) /\ Waiting(store.pending, t)

\* What the server had handled of the session when the module's counting of it began, or now.
Start == IF isStarted THEN lastHandledByServer ELSE IF Resumed THEN moduleQ[1].arg ELSE 0
Live  == isStarted \/ enableSent \/ Resumed

Lined(r, t, b) ==
    /\ Live => /\ t = b + Start + Len(unackedByServer)
               /\ \A i \in 1..Len(unackedByServer) : unackedByServer[i].n = b + Start + i
    /\ Joined => /\ attached \in 1..Len(sessions)
                 /\ r = b + Len(Log(attached)) /\ Start <= Len(Log(attached))
                 /\ \A k \in (Start + 1)..Len(Log(attached)) : Log(attached)[k] = b + k

\* An ack counts stanzas that the module will know of when it runs, and after the acks before it.
Acks(b) ==
    \A i \in 1..Len(moduleQ) : moduleQ[i].name = "a" =>
        /\ Joined /\ Start <= moduleQ[i].arg /\ moduleQ[i].arg <= Len(Log(attached))
        /\ \A j \in 1..Len(moduleQ) : i < j =>
              /\ moduleQ[j].name = "a" => moduleQ[i].arg <= moduleQ[j].arg
              /\ moduleQ[j].name = "didSend" => moduleQ[j].arg > b + moduleQ[i].arg
        /\ \A j \in 1..Len(unprocessedAcks) : unprocessedAcks[j] <= moduleQ[i].arg

\* h stanzas of the session are acknowledged truly: as far as the module knows, as far as
\* the server goes.
Acknowledges(h) ==
    /\ lastHandledByServer <= h /\ h <= lastHandledByServer + Len(unackedByServer) /\ h <= sent
    /\ \A i \in 1..(h - lastHandledByServer) : unackedByServer[i].n \in received
    /\ isStarted => h <= Len(Log(session))
    /\ ~Dead(store.id) => h <= Len(Log(store.id))

\* Acks that are kept are true, in order, and wait for an id.
Kept ==
    /\ \A j \in 1..Len(unprocessedAcks) : Acknowledges(unprocessedAcks[j])
    /\ \A i, j \in 1..Len(unprocessedAcks) : i < j => unprocessedAcks[i] <= unprocessedAcks[j]
    /\ draining = "idle" /\ unprocessedAcks # <<>> =>
          \E i \in 1..(unprocessedAcks[1] - lastHandledByServer) : unackedByServer[i].awaiting

\* From position x of the log of session s on, the first stanzas of p are those it shows up to h.
Aligned(s, x, p, h) == \A i \in 1..Len(p) : x + i <= h => Log(s)[x + i] = p[i].n

\* ... and those after the log are those it will show.
Continues(r, b, s, x, p) ==
    /\ x <= Len(Log(s)) /\ Aligned(s, x, p, Len(Log(s)))
    /\ attached = s => /\ r = b + Len(Log(s))
                       /\ \A i \in 1..Len(p) : x + i > Len(Log(s)) => p[i].n = b + x + i

Stores(r, b) ==
    /\ ~Dead(store.id) /\ ~isStarted /\ ~Resumed =>
          /\ Continues(r, b, store.id, store.hs, store.pending)
          /\ Continues(r, b, store.id, lastHandledByServer, unackedByServer)
    /\ isStarted => \A i \in 1..Len(store.pending) : store.pending[i].n = b + store.hs + i

Prior ==
    /\ Awaiting /\ ~Dead(session) => Aligned(session, store.hs, prevUnacked, Len(Log(session)))
    /\ Resumed => /\ store.hs <= moduleQ[1].arg /\ moduleQ[1].arg <= Len(Log(session))
                  /\ Aligned(session, store.hs, prevUnacked, moduleQ[1].arg)

Data(r, t, b) ==
    /\ Queues(r, t, b) /\ Read(r) /\ Reported(t) /\ Lined(r, t, b) /\ Acks(b) /\ Kept
    /\ Stores(r, b) /\ Prior

-----------------------------------------------------------------------------
(* The numbered elements of a queue that moves.                               *)

LEMMA InOrderShifted ==
    ASSUME NEW q, NEW t, NEW d, NEW more, Shifted(q, t, d, more), NEW name,
           \A e \in more : e.name # name, d = 1 => q[1].name # name,
           NEW k \in Nat, NEW n \in Nat, InOrder(q, name, k, n)
    PROVE  InOrder(t, name, k, n)
<1>1. \A i \in 1..Len(t) : t[i].name = name => i + d \in 1..Len(q) /\ t[i] = q[i + d]
  BY DEF Shifted
<1>2. d \in {0, 1} /\ Len(q) \in Nat /\ Len(t) \in Nat
  BY DEF Shifted
<1>3. \A i \in 1..Len(t) : t[i].name = name => t[i].arg \in (k + 1)..n
  BY <1>1 DEF InOrder
<1>4. \A i, j \in 1..Len(t) : t[i].name = name /\ t[j].name = name /\ i < j => t[i].arg < t[j].arg
  <2> SUFFICES ASSUME NEW i \in 1..Len(t), NEW j \in 1..Len(t), t[i].name = name, t[j].name = name, i < j
               PROVE  t[i].arg < t[j].arg
    OBVIOUS
  <2>1. i + d < j + d /\ i + d \in 1..Len(q) /\ j + d \in 1..Len(q) /\ t[i] = q[i + d] /\ t[j] = q[j + d]
    BY <1>1, <1>2
  <2> QED  BY <2>1 DEF InOrder
<1>5. ASSUME NEW m \in (k + 1)..n PROVE \E i \in 1..Len(t) : t[i].name = name /\ t[i].arg = m
  <2>1. PICK i \in 1..Len(q) : q[i].name = name /\ q[i].arg = m
    BY DEF InOrder
  <2>2. i > d
    BY <1>2, <2>1
  <2>3. i - d \in 1..Len(t) /\ t[i - d] = q[i]
    BY <2>2 DEF Shifted
  <2> QED  BY <2>1, <2>3
<1> QED  BY <1>3, <1>4, <1>5 DEF InOrder

LEMMA InOrderTaken ==
    ASSUME NEW q, NEW t, Shifted(q, t, 1, {}), 1 \in 1..Len(q), NEW name, q[1].name = name,
           NEW k \in Nat, NEW n \in Nat, InOrder(q, name, k, n)
    PROVE  q[1].arg = k + 1 /\ k + 1 <= n /\ InOrder(t, name, k + 1, n)
<1>1. \A i \in 1..Len(t) : i + 1 \in 1..Len(q) /\ t[i] = q[i + 1]
  BY DEF Shifted
<1>2. \A i \in 1..Len(q) : i > 1 => i - 1 \in 1..Len(t) /\ t[i - 1] = q[i]
  BY DEF Shifted
<1>3. Len(q) \in Nat /\ Len(t) \in Nat
  BY DEF Shifted
<1>4. q[1].arg \in (k + 1)..n
  BY DEF InOrder
<1>5. k + 1 \in (k + 1)..n
  BY <1>4
<1>6. PICK i \in 1..Len(q) : q[i].name = name /\ q[i].arg = k + 1
  BY <1>5 DEF InOrder
<1>7. q[1].arg = k + 1
  <2>1. CASE i = 1
    BY <1>6, <2>1
  <2>2. CASE i # 1
    <3>1. 1 < i
      BY <1>3, <2>2
    <3>2. q[1].arg < q[i].arg
      BY <1>6, <3>1 DEF InOrder
    <3> QED  BY <1>4, <1>6, <3>2
  <2> QED  BY <2>1, <2>2
<1>8. \A j \in 1..Len(t) : t[j].name = name => t[j].arg \in (k + 2)..n
  <2> SUFFICES ASSUME NEW j \in 1..Len(t), t[j].name = name PROVE t[j].arg \in (k + 2)..n
    OBVIOUS
  <2>1. j + 1 \in 1..Len(q) /\ t[j] = q[j + 1] /\ 1 < j + 1
    BY <1>1, <1>3
  <2>2. q[j + 1].arg \in (k + 1)..n /\ q[1].arg < q[j + 1].arg
    BY <2>1 DEF InOrder
  <2> QED  BY <1>7, <2>1, <2>2
<1>9. \A j, m \in 1..Len(t) : t[j].name = name /\ t[m].name = name /\ j < m => t[j].arg < t[m].arg
  <2> SUFFICES ASSUME NEW j \in 1..Len(t), NEW m \in 1..Len(t), t[j].name = name, t[m].name = name, j < m
               PROVE  t[j].arg < t[m].arg
    OBVIOUS
  <2>1. j + 1 < m + 1 /\ j + 1 \in 1..Len(q) /\ m + 1 \in 1..Len(q) /\ t[j] = q[j + 1] /\ t[m] = q[m + 1]
    BY <1>1, <1>3
  <2> QED  BY <2>1 DEF InOrder
<1>10. ASSUME NEW m \in (k + 2)..n PROVE \E j \in 1..Len(t) : t[j].name = name /\ t[j].arg = m
  <2>1. m \in (k + 1)..n
    OBVIOUS
  <2>2. PICK j \in 1..Len(q) : q[j].name = name /\ q[j].arg = m
    BY <2>1 DEF InOrder
  <2>3. j # 1
    BY <1>7, <2>2
  <2>4. j > 1
    BY <1>3, <2>3
  <2> QED  BY <1>2, <2>2, <2>4
<1>11. (k + 1) + 1 = k + 2 /\ k + 1 \in Nat /\ k + 1 <= n
  BY <1>5
<1> QED  BY <1>7, <1>8, <1>9, <1>10, <1>11 DEF InOrder

LEMMA InOrderAppend ==
    ASSUME NEW q, NEW t, NEW e, Shifted(q, t, 0, {e}), Len(t) = Len(q) + 1, NEW name,
           NEW k \in Nat, NEW n \in Nat, InOrder(q, name, k, n), e.name = name, e.arg = n + 1
    PROVE  InOrder(t, name, k, n + 1)
<1>1. \A i \in 1..Len(t) : \/ i \in 1..Len(q) /\ t[i] = q[i]
                           \/ i = Len(q) + 1 /\ t[i] = e
  <2> TAKE i \in 1..Len(t)
  <2>1. \/ i + 0 \in 1..Len(q) /\ t[i] = q[i + 0]
        \/ i + 0 > Len(q) /\ t[i] = e
    BY DEF Shifted
  <2>2. i \in Nat /\ Len(q) \in Nat /\ Len(t) \in Nat
    BY DEF Shifted
  <2>3. i + 0 = i
    BY <2>2
  <2> QED  BY <2>1, <2>2, <2>3
<1>2. Len(q) \in Nat /\ \A i \in 1..Len(q) : i \in 1..Len(t) /\ t[i] = q[i]
  BY DEF Shifted
<1>3. k <= n /\ t[Len(q) + 1] = e /\ Len(q) + 1 \in 1..Len(t)
  BY <1>1, <1>2 DEF InOrder
<1>4. \A i \in 1..Len(t) : t[i].name = name => t[i].arg \in (k + 1)..(n + 1)
  BY <1>1, <1>3 DEF InOrder
<1>5. \A i, j \in 1..Len(t) : t[i].name = name /\ t[j].name = name /\ i < j => t[i].arg < t[j].arg
  <2> SUFFICES ASSUME NEW i \in 1..Len(t), NEW j \in 1..Len(t), t[i].name = name, t[j].name = name, i < j
               PROVE  t[i].arg < t[j].arg
    OBVIOUS
  <2>1. i \in 1..Len(q) /\ t[i] = q[i]
    BY <1>1, <1>2
  <2>2. q[i].arg \in (k + 1)..n
    BY <2>1 DEF InOrder
  <2>3. CASE j \in 1..Len(q) /\ t[j] = q[j]
    BY <2>1, <2>3 DEF InOrder
  <2>4. CASE j = Len(q) + 1 /\ t[j] = e
    BY <2>1, <2>2, <2>4
  <2> QED  BY <1>1, <2>3, <2>4
<1>6. ASSUME NEW m \in (k + 1)..(n + 1) PROVE \E j \in 1..Len(t) : t[j].name = name /\ t[j].arg = m
  <2>1. CASE m = n + 1
    BY <1>3, <2>1
  <2>2. CASE m # n + 1
    <3>1. m \in (k + 1)..n
      BY <2>2
    <3>2. PICK j \in 1..Len(q) : q[j].name = name /\ q[j].arg = m
      BY <3>1 DEF InOrder
    <3> QED  BY <1>2, <3>2
  <2> QED  BY <2>1, <2>2
<1> QED  BY <1>3, <1>4, <1>5, <1>6 DEF InOrder

LEMMA InOrderNone ==
    ASSUME NEW q, NEW name, NEW n \in Nat, \A i \in 1..Len(q) : q[i].name # name
    PROVE  InOrder(q, name, n, n)
BY DEF InOrder

LEMMA DividesShifted ==
    ASSUME NEW q, NEW t, NEW d, NEW more, Shifted(q, t, d, more), NEW mark, NEW name, NEW b,
           Divides(q, mark, name, b),
           \A e \in more : e.name # mark /\ (e.name = name => e.arg > b)
    PROVE  Divides(t, mark, name, b)
<1> SUFFICES ASSUME NEW i \in 1..Len(t), NEW j \in 1..Len(t), t[i].name = mark, t[j].name = name
             PROVE  IF j < i THEN t[j].arg <= b ELSE t[j].arg > b
  BY DEF Divides
<1>1. d \in {0, 1} /\ Len(q) \in Nat /\ Len(t) \in Nat
  BY DEF Shifted
<1>2. i + d \in 1..Len(q) /\ t[i] = q[i + d]
  BY DEF Shifted
<1>3. CASE j + d \in 1..Len(q) /\ t[j] = q[j + d]
  <2>1. j < i <=> j + d < i + d
    BY <1>1
  <2> QED  BY <1>2, <1>3, <2>1 DEF Divides
<1>4. CASE j + d > Len(q) /\ t[j] \in more
  BY <1>1, <1>2, <1>4
<1> QED  BY <1>3, <1>4 DEF Shifted

LEMMA DividesUnmarked ==
    ASSUME NEW q, NEW mark, NEW name, NEW b, \A i \in 1..Len(q) : q[i].name # mark
    PROVE  Divides(q, mark, name, b)
BY DEF Divides

-----------------------------------------------------------------------------
(* What a step leaves of it.                                                  *)

LEMMA DataTypes ==
    ASSUME Inv
    PROVE  /\ moduleQ \in Seq(ElementSet) /\ c2s \in Seq(ElementSet)
           /\ Len(moduleQ) \in Nat /\ Len(c2s) \in Nat
           /\ \A i \in 1..Len(moduleQ) : moduleQ[i].arg \in Nat
           /\ sent \in Nat /\ received \subseteq Nat /\ reported \subseteq Nat
           /\ attached \in 0..Len(sessions) /\ store.id \in 0..Len(sessions)
           /\ store.hs \in Nat /\ store.pending \in Seq(OutgoingItem)
           /\ prevUnacked \in Seq(OutgoingItem)
           /\ Len(store.pending) \in Nat /\ Len(prevUnacked) \in Nat
           /\ \A i \in 1..Len(store.pending) : store.pending[i] \in OutgoingItem
           /\ \A i \in 1..Len(prevUnacked) : prevUnacked[i] \in OutgoingItem
           /\ \A s \in 1..Len(sessions) :
                 Log(s) \in Seq(Nat) /\ Len(Log(s)) \in Nat /\ \A k \in 1..Len(Log(s)) : Log(s)[k] \in Nat
<1>1. /\ moduleQ \in Seq(ElementSet) /\ c2s \in Seq(ElementSet)
      /\ sent \in Nat /\ received \subseteq Nat /\ reported \subseteq Nat
      /\ attached \in 0..Len(sessions) /\ store.id \in 0..Len(sessions)
      /\ store \in Storage /\ prevUnacked \in Seq(OutgoingItem)
  BY DEF Inv, TypeOK, StreamTypeOK, ServerTypeOK, OutTypeOK, HistTypeOK, SessionsKnown
<1>2. store.hs \in Nat /\ store.pending \in Seq(OutgoingItem)
  BY <1>1 DEF Storage
<1>3. Len(moduleQ) \in Nat /\ Len(c2s) \in Nat /\ \A i \in 1..Len(moduleQ) : moduleQ[i].arg \in Nat
  <2>1. Len(moduleQ) \in Nat /\ Len(c2s) \in Nat
    BY <1>1, LenProperties
  <2>2. \A i \in 1..Len(moduleQ) : moduleQ[i] \in ElementSet
    BY <1>1, ElementOfSeq
  <2> QED  BY <2>1, <2>2 DEF ElementSet
<1>4. /\ Len(store.pending) \in Nat /\ Len(prevUnacked) \in Nat
      /\ \A i \in 1..Len(store.pending) : store.pending[i] \in OutgoingItem
      /\ \A i \in 1..Len(prevUnacked) : prevUnacked[i] \in OutgoingItem
  BY <1>1, <1>2, LenProperties, ElementOfSeq
<1>5. ASSUME NEW s \in 1..Len(sessions)
      PROVE  Log(s) \in Seq(Nat) /\ Len(Log(s)) \in Nat /\ \A k \in 1..Len(Log(s)) : Log(s)[k] \in Nat
  <2>1. Log(s) \in Seq(Nat)
    BY SessionTypes DEF Log, Session
  <2> QED  BY <2>1, LenProperties, ElementOfSeq
<1> QED  BY <1>1, <1>2, <1>3, <1>4, <1>5

LEMMA PostsNoControl ==
    ASSUME Inv, Inv', QueueInv, UNCHANGED <<conn, isStarted, enableSent>>,
           NEW d, Shifted(moduleQ, moduleQ', d, Posts), d = 1 => moduleQ[1].name \notin Control
    PROVE  /\ Posting' <=> Posting
           /\ Resumed' <=> Resumed
           /\ Joined' <=> Joined
           /\ Live' <=> Live
           /\ Awaiting' => Awaiting
           /\ Resumed => moduleQ'[1] = moduleQ[1] /\ 1 \in 1..Len(moduleQ') /\ 1 \in 1..Len(moduleQ) /\ moduleQ[1].name = "resumed"
<1>1. /\ {"didSendEnable"} \subseteq Control
      /\ {"resumed"} \subseteq Control /\ {"enabled", "resumed"} \subseteq Control
  BY DEF Control
<1>2. /\ Holds(moduleQ, {"didSendEnable"})' <=> Holds(moduleQ, {"didSendEnable"})
      /\ Holds(moduleQ, {"resumed"})' <=> Holds(moduleQ, {"resumed"})
      /\ Holds(moduleQ, {"enabled", "resumed"})' <=> Holds(moduleQ, {"enabled", "resumed"})
  <2> HIDE DEF Posts, Control
  <2> QED  BY <1>1, OrdinaryHolds
<1>3. Awaiting' => Awaiting
  <2> SUFFICES ASSUME Awaiting' PROVE Awaiting
    OBVIOUS
  <2>1. conn = "resuming" /\ Len(moduleQ') = 0
    BY DEF Awaiting
  <2>2. moduleQ = <<>>
    <3> SUFFICES ASSUME moduleQ # <<>> PROVE FALSE
      OBVIOUS
    <3>1. Len(moduleQ) = 1 /\ moduleQ[1].name = "sendResume"
      BY <2>1 DEF QueueInv, ResumingIsQuiet
    <3>2. d = 1
      BY <2>1, <3>1 DEF Shifted
    <3> QED  BY <3>1, <3>2 DEF Control
  <2> QED  BY <2>1, <2>2 DEF Awaiting
<1>4. Resumed => moduleQ'[1] = moduleQ[1] /\ 1 \in 1..Len(moduleQ') /\ 1 \in 1..Len(moduleQ)
                 /\ moduleQ[1].name = "resumed"
  <2> SUFFICES ASSUME Resumed
               PROVE  moduleQ'[1] = moduleQ[1] /\ 1 \in 1..Len(moduleQ') /\ 1 \in 1..Len(moduleQ)
                      /\ moduleQ[1].name = "resumed"
    OBVIOUS
  <2>1. PICK i \in 1..Len(moduleQ) : moduleQ[i].name = "resumed"
    BY HoldsAt, QueueTypes DEF Resumed
  <2>2. i = 1
    BY <2>1, QueueTypes, LenProperties DEF QueueInv, ResumedIsFirst
  <2>3. d = 0
    BY <2>1, <2>2 DEF Shifted, Control
  <2> QED  BY <2>1, <2>2, <2>3 DEF Shifted
<1> QED  BY <1>2, <1>3, <1>4 DEF Posting, Resumed, Joined, Live

LEMMA QueuesShifted ==
    ASSUME NEW r \in Nat, NEW t \in Nat, NEW b \in Nat, Queues(r, t, b), UNCHANGED sent, sent \in Nat,
           NEW d, NEW more, Shifted(moduleQ, moduleQ', d, more),
           \A e \in more : e.name \notin {"didSend", "didSendEnable"},
           d = 1 => moduleQ[1].name # "didSend",
           NEW k, NEW written, Shifted(c2s, c2s', k, written),
           \A e \in written : e.name \notin {"stanza", "enable"},
           k = 1 => c2s[1].name # "stanza",
           Posting' => Posting, Asking' => Asking
    PROVE  Queues(r, t, b)'
<1>1. InOrder(c2s', "stanza", r, sent) /\ InOrder(moduleQ', "didSend", t, sent)
  BY InOrderShifted DEF Queues
<1>2. Divides(moduleQ', "didSendEnable", "didSend", b) /\ Divides(c2s', "enable", "stanza", b)
  BY DividesShifted DEF Queues
<1> QED  BY <1>1, <1>2 DEF Queues, InOrder, Divides

\* The logs go on, and no session comes back.
LogsGrow ==
    \A s \in 1..Len(sessions) :
        /\ s \in 1..Len(sessions') /\ (sessions'[s].alive => sessions[s].alive)
        /\ Len(Log(s)) <= Len(sessions'[s].log)
        /\ \A k \in 1..Len(Log(s)) : sessions'[s].log[k] = Log(s)[k]

LEMMA SameLogsGrow == ASSUME Inv, SameLogs PROVE LogsGrow
<1> SUFFICES ASSUME NEW s \in 1..Len(sessions)
             PROVE  /\ s \in 1..Len(sessions') /\ (sessions'[s].alive => sessions[s].alive)
                    /\ Len(Log(s)) <= Len(sessions'[s].log)
                    /\ \A k \in 1..Len(Log(s)) : sessions'[s].log[k] = Log(s)[k]
  BY DEF LogsGrow
<1>1. Len(Log(s)) \in Nat /\ Log(s) = sessions[s].log
  BY DataTypes DEF Log
<1>2. /\ Len(sessions') = Len(sessions) /\ sessions'[s].log = sessions[s].log
      /\ sessions'[s].alive => sessions[s].alive
  BY DEF SameLogs
<1> QED  BY <1>1, <1>2

LEMMA LogsAfter ==
    ASSUME Inv'
    PROVE  \A s \in 1..Len(sessions') : sessions'[s].log \in Seq(Nat) /\ Len(sessions'[s].log) \in Nat
<1> SUFFICES ASSUME NEW s \in 1..Len(sessions')
             PROVE  sessions'[s].log \in Seq(Nat) /\ Len(sessions'[s].log) \in Nat
  OBVIOUS
<1>1. sessions' \in Seq(Session)
  BY DEF Inv, TypeOK, ServerTypeOK
<1>2. sessions'[s] \in Session
  BY <1>1, ElementOfSeq
<1>3. sessions'[s].log \in Seq(Nat)
  BY <1>2 DEF Session
<1> QED  BY <1>3, LenProperties

LEMMA ReadSame ==
    ASSUME Inv, SameLogs, UNCHANGED received, NEW r \in Nat, Read(r)
    PROVE  Read(r)'
BY SessionTypes DEF SameLogs, Read, Log

LEMMA ReportedKept ==
    ASSUME Inv, Inv', NEW t \in Nat, NEW v \in Nat, t <= v, Reported(t), UNCHANGED reported, received \subseteq received',
           {unackedByServer', prevUnacked', store'.pending}
              \subseteq {<<>>, unackedByServer, prevUnacked, store.pending}
    PROVE  Reported(v)'
<1>1. \A p \in {<<>>, unackedByServer, prevUnacked, store.pending} : Waiting(p, v)
  <2>1. Waiting(<<>>, v)
    BY DEF Waiting
  <2>2. ASSUME NEW p \in Seq(OutgoingItem), Waiting(p, t) PROVE Waiting(p, v)
    <3>1. \A i \in 1..Len(p) : p[i].n \in Nat
      <4>1. \A i \in 1..Len(p) : p[i] \in OutgoingItem
        BY ElementOfSeq
      <4> QED  BY <4>1 DEF OutgoingItem
    <3> QED  BY <2>2, <3>1 DEF Waiting
  <2> QED  BY <2>1, <2>2, DataTypes, OutgoingTypes DEF Reported
<1>2. \A p : Waiting(p, v) => Waiting(p, v)'
  BY DEF Waiting
<1>3. /\ Waiting(unackedByServer', v) /\ Waiting(prevUnacked', v) /\ Waiting(store'.pending, v)
  BY <1>1
<1>4. Waiting(unackedByServer, v)' /\ Waiting(prevUnacked, v)' /\ Waiting(store.pending, v)'
  BY <1>3 DEF Waiting
<1>5. \A m \in reported : m \in Nat /\ m <= v
  BY DataTypes DEF Reported
<1>6. reported' \subseteq received'
  BY DEF Reported
<1> QED  BY <1>4, <1>5, <1>6 DEF Reported

LEMMA LinedSame ==
    ASSUME Inv, SameLogs, UNCHANGED <<isStarted, enableSent, lastHandledByServer, unackedByServer, attached>>,
           Resumed' <=> Resumed, Joined' => Joined, Live' => Live,
           Resumed => moduleQ'[1] = moduleQ[1],
           NEW r \in Nat, NEW t \in Nat, NEW b \in Nat, Lined(r, t, b)
    PROVE  Lined(r, t, b)' /\ Start' = Start
<1>1. Start' = Start
  BY DEF Start
<1>2. Joined' => attached' \in 1..Len(sessions) /\ Log(attached)' = Log(attached) /\ Len(sessions') = Len(sessions)
  BY DEF Lined, SameLogs, Log
<1> QED  BY <1>1, <1>2 DEF Lined

LEMMA AcksKept ==
    ASSUME Inv, Inv', NEW b \in Nat, Acks(b), UNCHANGED attached, LogsGrow, Joined => Joined',
           NEW d, NEW more, Shifted(moduleQ, moduleQ', d, more), \A e \in more : e.name # "a",
           \A e \in more : e.name = "didSend" =>
              e.arg \in Nat /\ (attached \in 1..Len(sessions) => e.arg > b + Len(Log(attached))),
           Joined => attached \in 1..Len(sessions),
           \A i \in 1..Len(moduleQ) : i > d /\ moduleQ[i].name = "a" =>
              Start' <= moduleQ[i].arg /\ \A j \in 1..Len(unprocessedAcks') : unprocessedAcks'[j] <= moduleQ[i].arg
    PROVE  Acks(b)'
<1> SUFFICES ASSUME NEW i \in 1..Len(moduleQ'), moduleQ'[i].name = "a"
             PROVE  /\ Joined' /\ Start' <= moduleQ'[i].arg /\ moduleQ'[i].arg <= Len(Log(attached))'
                    /\ \A j \in 1..Len(moduleQ') : i < j =>
                          /\ moduleQ'[j].name = "a" => moduleQ'[i].arg <= moduleQ'[j].arg
                          /\ moduleQ'[j].name = "didSend" => moduleQ'[j].arg > b + moduleQ'[i].arg
                    /\ \A j \in 1..Len(unprocessedAcks') : unprocessedAcks'[j] <= moduleQ'[i].arg
  BY DEF Acks
<1>1. d \in {0, 1} /\ Len(moduleQ) \in Nat /\ Len(moduleQ') \in Nat
  BY DEF Shifted
<1>2. i + d \in 1..Len(moduleQ) /\ moduleQ'[i] = moduleQ[i + d] /\ i + d > d
  BY <1>1 DEF Shifted
<1>3. /\ Joined /\ moduleQ[i + d].arg <= Len(Log(attached)) /\ moduleQ[i + d].arg \in Nat
      /\ \A j \in 1..Len(moduleQ) : i + d < j =>
            /\ moduleQ[j].name = "a" => moduleQ[i + d].arg <= moduleQ[j].arg
            /\ moduleQ[j].name = "didSend" => moduleQ[j].arg > b + moduleQ[i + d].arg
  BY <1>2, DataTypes DEF Acks
<1>4. attached \in 1..Len(sessions)
  BY <1>3
<1>5. /\ Len(Log(attached)) \in Nat /\ Len(Log(attached)') \in Nat
      /\ Len(Log(attached)) <= Len(Log(attached)')
  <2>1. Len(Log(attached)) \in Nat
    BY <1>4, DataTypes
  <2>2. attached \in 1..Len(sessions') /\ Len(Log(attached)) <= Len(sessions'[attached].log)
    BY <1>4 DEF LogsGrow
  <2>3. Len(sessions'[attached].log) \in Nat
    BY <2>2, LogsAfter
  <2> QED  BY <2>1, <2>2, <2>3 DEF Log
<1>6. ASSUME NEW j \in 1..Len(moduleQ'), i < j
      PROVE  /\ moduleQ'[j].name = "a" => moduleQ'[i].arg <= moduleQ'[j].arg
             /\ moduleQ'[j].name = "didSend" => moduleQ'[j].arg > b + moduleQ'[i].arg
  <2>1. CASE j + d \in 1..Len(moduleQ) /\ moduleQ'[j] = moduleQ[j + d]
    <3>1. i + d < j + d
      BY <1>1, <1>6
    <3> QED  BY <1>2, <1>3, <2>1, <3>1
  <2>2. CASE j + d > Len(moduleQ) /\ moduleQ'[j] \in more
    <3>1. moduleQ'[j].name # "a"
      BY <2>2
    <3>2. ASSUME moduleQ'[j].name = "didSend" PROVE moduleQ'[j].arg > b + moduleQ'[i].arg
      <4>1. moduleQ'[j].arg \in Nat /\ moduleQ'[j].arg > b + Len(Log(attached))
        BY <1>4, <2>2, <3>2
      <4>2. moduleQ'[i].arg \in Nat /\ moduleQ'[i].arg <= Len(Log(attached))
        BY <1>2, <1>3
      <4> HIDE DEF Log
      <4> QED  BY <1>5, <4>1, <4>2
    <3> QED  BY <3>1, <3>2
  <2> QED  BY <2>1, <2>2 DEF Shifted
<1> QED  BY <1>2, <1>3, <1>4, <1>5, <1>6

LEMMA KeptSame ==
    ASSUME Inv, Inv', ControlInv, Kept, LogsGrow, received \subseteq received', sent <= sent',
           store'.id \in {0, store.id}, isStarted' => isStarted /\ session' = session,
           draining' = draining \/ unprocessedAcks = <<>>,
           UNCHANGED <<unprocessedAcks, lastHandledByServer, unackedByServer>>
    PROVE  Kept'
<1>1. ASSUME NEW h \in Nat, Acknowledges(h) PROVE Acknowledges(h)'
  <2>1. ASSUME NEW s \in 1..Len(sessions)
        PROVE  /\ Len(Log(s)) \in Nat /\ Len(Log(s))' \in Nat /\ Len(Log(s)) <= Len(Log(s))'
               /\ Dead(s) => Dead(s)'
    <3>1. s \in 1..Len(sessions') /\ Len(Log(s)) <= Len(sessions'[s].log)
          /\ (sessions'[s].alive => sessions[s].alive)
      BY DEF LogsGrow
    <3>2. Len(Log(s)) \in Nat
      BY DataTypes
    <3>3. Len(sessions'[s].log) \in Nat
      BY <3>1, LogsAfter
    <3> QED  BY <3>1, <3>2, <3>3 DEF Log, Dead
  <2>2. isStarted' => h <= Len(Log(session)')
    <3> SUFFICES ASSUME isStarted' PROVE h <= Len(Log(session)')
      OBVIOUS
    <3>1. session \in 1..Len(sessions)
      BY DataTypes, SessionTypes DEF ControlInv, Storing
    <3> QED  BY <1>1, <2>1, <3>1 DEF Acknowledges, Log
  <2>3. ~Dead(store.id)' => h <= Len(Log(store.id)')
    <3> SUFFICES ASSUME ~Dead(store.id)' PROVE h <= Len(Log(store.id)')
      OBVIOUS
    <3>1. store.id \in 1..Len(sessions) /\ store'.id = store.id
      BY DataTypes, SessionTypes DEF Dead
    <3> QED  BY <1>1, <2>1, <3>1 DEF Acknowledges, Log, Dead
  <2>4. h <= sent'
    BY <1>1, DataTypes DEF Acknowledges, Inv, TypeOK, StreamTypeOK
  <2>5. \A i \in 1..(h - lastHandledByServer) : unackedByServer[i].n \in received'
    BY <1>1 DEF Acknowledges
  <2> QED  BY <1>1, <2>2, <2>3, <2>4, <2>5 DEF Acknowledges, Log
<1>2. \A j \in 1..Len(unprocessedAcks) : unprocessedAcks[j] \in Nat
  BY OutgoingTypes
<1>3. CASE unprocessedAcks = <<>>
  <2>1. Len(unprocessedAcks') = 0
    BY <1>3
  <2> QED  BY <1>3, <2>1 DEF Kept
<1>4. CASE draining' = draining
  BY <1>1, <1>2, <1>4 DEF Kept
<1> QED  BY <1>3, <1>4

\* The storage is written as it was, or with what the module has.
Rewriting ==
    /\ store'.id = store.id
    /\ \/ store'.hs = store.hs /\ store'.pending = store.pending
       \/ store'.hs = lastHandledByServer /\ store'.pending = unackedByServer

LEMMA StoresSame ==
    ASSUME Inv, SameLogs, Rewriting, NEW r \in Nat, NEW t \in Nat, NEW b \in Nat, Stores(r, b),
           Lined(r, t, b),
           UNCHANGED <<attached, isStarted, lastHandledByServer, unackedByServer>>,
           Resumed' <=> Resumed
    PROVE  Stores(r, b)'
<1>1. ASSUME ~Dead(store.id)', ~isStarted, ~Resumed
      PROVE  /\ Continues(r, b, store.id, store.hs, store.pending)'
             /\ Continues(r, b, store.id, lastHandledByServer, unackedByServer)'
  <2>1. store.id \in 1..Len(sessions) /\ store'.id = store.id
    BY <1>1, DataTypes, SessionTypes DEF Rewriting, Dead
  <2>2. sessions'[store.id].log = sessions[store.id].log /\ ~Dead(store.id)
    BY <1>1, <2>1 DEF SameLogs, Dead
  <2>4. /\ Continues(r, b, store.id, store.hs, store.pending)
        /\ Continues(r, b, store.id, lastHandledByServer, unackedByServer)
    BY <1>1, <2>2 DEF Stores
  <2>5. \/ store'.hs = store.hs /\ store'.pending = store.pending
        \/ store'.hs = lastHandledByServer /\ store'.pending = unackedByServer
    BY DEF Rewriting
  <2>6. Continues(r, b, store.id, store.hs, store.pending)'
    <3>1. \A x, p : Continues(r, b, store.id, x, p) /\ store'.hs = x /\ store'.pending = p
                    => Continues(r, b, store.id, store.hs, store.pending)'
      BY <2>1, <2>2 DEF Continues, Aligned, Log
    <3> QED  BY <2>4, <2>5, <3>1
  <2>7. Continues(r, b, store.id, lastHandledByServer, unackedByServer)'
    BY <2>1, <2>2, <2>4 DEF Continues, Aligned, Log
  <2> QED  BY <2>6, <2>7
<1>2. isStarted => \A i \in 1..Len(store'.pending) : store'.pending[i].n = b + store'.hs + i
  BY DEF Rewriting, Stores, Lined, Live, Start
<1> QED  BY <1>1, <1>2 DEF Stores

LEMMA PriorSame ==
    ASSUME Inv, ControlInv, SameLogs, Prior, UNCHANGED session, prevUnacked' \in {prevUnacked, <<>>},
           store'.hs \in {store.hs, lastHandledByServer}, Resumed' <=> Resumed, Awaiting' => Awaiting,
           Resumed => moduleQ'[1] = moduleQ[1]
    PROVE  Prior'
<1>1. Awaiting \/ Resumed => store'.hs = store.hs /\ session = store.id /\ store.id # 0
  BY DEF ControlInv, Resuming
<1>2. Awaiting \/ Resumed => session \in 1..Len(sessions) /\ sessions'[session].log = sessions[session].log
                              /\ (sessions'[session].alive => sessions[session].alive)
  BY <1>1, DataTypes, SessionTypes DEF SameLogs
<1>3. CASE prevUnacked' = prevUnacked
  <2>1. Awaiting' /\ ~Dead(session)' =>
           Aligned(session, store.hs, prevUnacked, Len(Log(session)))'
    <3> SUFFICES ASSUME Awaiting', ~Dead(session)'
                 PROVE  Aligned(session, store.hs, prevUnacked, Len(Log(session)))'
      OBVIOUS
    <3>1. Aligned(session, store.hs, prevUnacked, Len(Log(session)))
      BY <1>2 DEF Prior, Dead
    <3>2. Log(session)' = Log(session) /\ store'.hs = store.hs
      BY <1>1, <1>2 DEF Log
    <3> QED  BY <1>3, <3>1, <3>2 DEF Aligned, Log
  <2>2. Resumed' => /\ store'.hs <= moduleQ'[1].arg /\ moduleQ'[1].arg <= Len(Log(session)')
                    /\ Aligned(session, store.hs, prevUnacked, moduleQ[1].arg)'
    <3> SUFFICES ASSUME Resumed'
                 PROVE  /\ store'.hs <= moduleQ'[1].arg /\ moduleQ'[1].arg <= Len(Log(session)')
                        /\ Aligned(session, store.hs, prevUnacked, moduleQ[1].arg)'
      OBVIOUS
    <3>1. /\ store.hs <= moduleQ[1].arg /\ moduleQ[1].arg <= Len(Log(session))
          /\ Aligned(session, store.hs, prevUnacked, moduleQ[1].arg)
      BY DEF Prior
    <3>2. Log(session)' = Log(session) /\ store'.hs = store.hs
      BY <1>1, <1>2 DEF Log
    <3> QED  BY <1>3, <3>1, <3>2 DEF Aligned, Log
  <2> QED  BY <2>1, <2>2 DEF Prior
<1>4. CASE prevUnacked' = <<>>
  <2>1. \A i \in 1..Len(prevUnacked') : FALSE
    BY <1>4
  <2>2. Resumed' => store'.hs <= moduleQ'[1].arg /\ moduleQ'[1].arg <= Len(Log(session)')
    BY <1>1, <1>2 DEF Prior, Log
  <2> QED  BY <2>1, <2>2 DEF Prior, Aligned, Log
<1> QED  BY <1>3, <1>4

\* A step that moves none of the stanzas leaves their numbers.
LEMMA DataStanding ==
    ASSUME Inv, Inv', ControlInv, SameLogs, Rewriting,
           NEW r \in Nat, NEW t \in Nat, NEW b \in Nat, Data(r, t, b),
           UNCHANGED <<sent, received, reported, attached, isStarted, lastHandledByServer,
                       unackedByServer, unprocessedAcks, session>>,
           draining' = draining \/ unprocessedAcks = <<>>, prevUnacked' \in {prevUnacked, <<>>},
           NEW d, NEW more, Shifted(moduleQ, moduleQ', d, more),
           \A e \in more : e.name \notin {"didSend", "didSendEnable"},
           d = 1 => moduleQ[1].name # "didSend",
           NEW k, NEW written, Shifted(c2s, c2s', k, written),
           \A e \in written : e.name \notin {"stanza", "enable"},
           k = 1 => c2s[1].name # "stanza",
           Posting' => Posting, Asking' => Asking, Resumed' <=> Resumed, Awaiting' => Awaiting,
           Resumed => moduleQ'[1] = moduleQ[1]
    PROVE  /\ Queues(r, t, b)' /\ Read(r)' /\ Reported(t)' /\ Kept' /\ Stores(r, b)' /\ Prior'
           /\ Start' = Start /\ LogsGrow
<1>1. store'.id = store.id /\ store'.hs \in {store.hs, lastHandledByServer}
      /\ store'.pending \in {store.pending, unackedByServer}
  BY DEF Rewriting
<1>2. LogsGrow
  BY SameLogsGrow
<1>3. Queues(r, t, b)'
  BY DataTypes, QueuesShifted DEF Data
<1>4. Read(r)'
  BY ReadSame DEF Data
<1>5. Reported(t)'
  BY <1>1, ReportedKept DEF Data
<1>6. Start' = Start
  BY DEF Start
<1>7. Kept'
  BY <1>1, <1>2, KeptSame, DataTypes DEF Data
<1>8. Stores(r, b)'
  BY StoresSame DEF Data
<1>9. Prior'
  BY <1>1, PriorSame DEF Data
<1> QED  BY <1>2, <1>3, <1>4, <1>5, <1>6, <1>7, <1>8, <1>9

LEMMA DataNeutral ==
    ASSUME Inv, Inv', QueueInv, ArmedInv, ControlInv, Neutral, Chatting,
           NEW r \in Nat, NEW t \in Nat, NEW b \in Nat, Data(r, t, b)
    PROVE  Data(r, t, b)'
<1>1. PICK d : /\ Shifted(moduleQ, moduleQ', d, Chat)
               /\ d = 1 => moduleQ[1].name \in {"stanza", "filtered", "r", "closing"}
  BY DEF Chatting
<1>2. PICK k : /\ Shifted(c2s, c2s', k, Requests)
               /\ k = 1 => c2s[1].name \in {"r", "close", "resume"}
  BY DEF Chatting
<1>3. Chat \subseteq Posts /\ \A e \in Chat : e.name \in {"stanza", "filtered", "r"}
  BY DEF Chat, Posts, Control
<1>4. \A e \in Requests : e.name = "r"
  BY DEF Requests
<1> HIDE DEF Chat, Posts, Requests
<1>5. Shifted(moduleQ, moduleQ', d, Posts)
  BY <1>1, <1>3, ShiftedMore
<1>6. d = 1 => moduleQ[1].name \notin Control
  BY <1>1 DEF Control
<1>7. /\ Posting' <=> Posting
      /\ Resumed' <=> Resumed
      /\ Joined' <=> Joined
      /\ Live' <=> Live
      /\ Awaiting' => Awaiting
      /\ Resumed => moduleQ'[1] = moduleQ[1]
  BY <1>5, <1>6, PostsNoControl DEF Neutral
<1>8. Asking' => Asking
  <2>1. c2s \in Seq(ElementSet) /\ c2s' \in Seq(ElementSet)
    BY DEF Inv, TypeOK, StreamTypeOK
  <2> QED  BY <1>2, <1>4, <2>1, ShiftedHolds DEF Asking
<1>9. Rewriting /\ SameLogs /\ \A e \in Chat : e.name \notin {"didSend", "didSendEnable", "a"}
  BY <1>3 DEF Neutral, Keeping, Rewriting
<1>10. \A e \in Requests : e.name \notin {"stanza", "enable"}
  BY <1>4
<1>11. d = 1 => moduleQ[1].name # "didSend"
  BY <1>1
<1>12. k = 1 => c2s[1].name # "stanza"
  BY <1>2
<1>13. /\ Queues(r, t, b)' /\ Read(r)' /\ Reported(t)' /\ Kept' /\ Stores(r, b)' /\ Prior'
       /\ Start' = Start /\ LogsGrow
  BY <1>1, <1>2, <1>7, <1>8, <1>9, <1>10, <1>11, <1>12, DataStanding DEF Neutral
<1>14. Lined(r, t, b)' /\ Start' = Start
  BY <1>7, LinedSame DEF Data, Neutral
<1>15. Acks(b)'
  <2>1. Joined => attached \in 1..Len(sessions)
    BY DEF Data, Lined
  <2>2. \A i \in 1..Len(moduleQ) : moduleQ[i].name = "a" =>
           Start' <= moduleQ[i].arg /\ \A j \in 1..Len(unprocessedAcks') : unprocessedAcks'[j] <= moduleQ[i].arg
    BY <1>14 DEF Data, Acks, Neutral
  <2>3. \A e \in Chat : e.name # "a" /\ e.name # "didSend"
    BY <1>3
  <2> QED  BY <1>1, <1>7, <1>13, <2>1, <2>2, <2>3, AcksKept DEF Data, Neutral
<1> QED  BY <1>13, <1>14, <1>15 DEF Data

-----------------------------------------------------------------------------
(* A stanza is sent, the module hears of it, and the server reads it.          *)

LEMMA CountIsLength ==
    ASSUME Inv, NoWrap, NEW r \in Nat, NEW t \in Nat, NEW b \in Nat, Data(r, t, b),
           NEW s \in 1..Len(sessions)
    PROVE  /\ Len(Log(s)) \in Nat /\ Len(Log(s)) <= r /\ r <= sent /\ sent < Modulus /\ t <= sent
           /\ HandledCount(s) = Len(Log(s))
<1>1. Len(Log(s)) \in Nat /\ Len(Log(s)) <= r
  BY DataTypes DEF Data, Read
<1>2. r <= sent /\ t <= sent /\ sent <= MaxOut /\ sent \in Nat
  BY DataTypes DEF Data, Queues, InOrder
<1>3. sent < Modulus
  BY <1>2, BoundsAssumption DEF NoWrap
<1>4. Len(Log(s)) < Modulus
  BY <1>1, <1>2, <1>3, BoundsAssumption
<1>5. Len(Log(s)) % Modulus = Len(Log(s))
  BY <1>1, <1>4, BoundsAssumption
<1> QED  BY <1>1, <1>2, <1>3, <1>5 DEF HandledCount, Log

LEMMA SendData ==
    ASSUME Inv, Inv', QueueInv, ControlInv, SendStanza,
           NEW r \in Nat, NEW t \in Nat, NEW b \in Nat, Data(r, t, b)
    PROVE  Data(r, t, b)'
<1> DEFINE e == Element("didSend", sent + 1, 0)
           w == Element("stanza", sent + 1, 0)
<1>1. /\ conn = "bound" /\ sent < MaxOut /\ sent' = sent + 1
      /\ c2s' = Append(c2s, w) /\ moduleQ' = Append(moduleQ, e)
      /\ UNCHANGED <<conn, attached, sessions, received, reported, isStarted, enableSent,
                     lastHandledByServer, unackedByServer, prevUnacked, unprocessedAcks,
                     draining, store, session>>
  BY DEF SendStanza, serverVars, moduleVars, flagVars, outVars, histVars
<1>2. sent \in Nat /\ e \in ElementSet /\ w \in ElementSet /\ e.name = "didSend" /\ w.name = "stanza"
      /\ e.arg = sent + 1 /\ w.arg = sent + 1
  BY DataTypes DEF Element, ElementSet, ElementName
<1> HIDE DEF e, w
<1>3. /\ Shifted(moduleQ, moduleQ', 0, {e}) /\ Shifted(c2s, c2s', 0, {w})
      /\ Len(moduleQ') = Len(moduleQ) + 1 /\ Len(c2s') = Len(c2s) + 1
  BY <1>1, <1>2, DataTypes, ShiftedAppend, AppendProperties
<1>4. PICK d, k : d = 0 /\ k = 0
  OBVIOUS
<1>5. /\ Posting' <=> Posting
      /\ Resumed' <=> Resumed
      /\ Joined' <=> Joined
      /\ Live' <=> Live
      /\ Awaiting' => Awaiting
      /\ Resumed => moduleQ'[1] = moduleQ[1]
  <2>1. {e} \subseteq Posts
    BY <1>1, <1>2 DEF Posts, Control
  <2> HIDE DEF Posts
  <2>2. Shifted(moduleQ, moduleQ', d, Posts)
    BY <1>3, <1>4, <2>1, ShiftedMore
  <2> QED  BY <1>1, <1>4, <2>2, PostsNoControl
<1>6. Asking' => Asking
  <2>1. \A x \in {w} : x.name \notin {"enable"}
    BY <1>2
  <2>2. c2s \in Seq(ElementSet) /\ c2s' \in Seq(ElementSet)
    BY DEF Inv, TypeOK, StreamTypeOK
  <2> QED  BY <1>3, <2>1, <2>2, ShiftedHolds DEF Asking
<1>7. SameLogs /\ LogsGrow /\ Rewriting
  BY <1>1, SameSessions, SameLogsGrow DEF Rewriting
<1>8. r <= sent /\ b <= sent /\ t <= sent
  BY DEF Data, Queues, InOrder
<1>9. Queues(r, t, b)'
  <2>1. InOrder(c2s', "stanza", r, sent + 1) /\ InOrder(moduleQ', "didSend", t, sent + 1)
    BY <1>2, <1>3, InOrderAppend DEF Data, Queues
  <2>2. \A x \in {e} : x.name # "didSendEnable" /\ (x.name = "didSend" => x.arg > b)
    BY <1>2, <1>8
  <2>3. \A x \in {w} : x.name # "enable" /\ (x.name = "stanza" => x.arg > b)
    BY <1>2, <1>8
  <2>4. Divides(moduleQ', "didSendEnable", "didSend", b) /\ Divides(c2s', "enable", "stanza", b)
    BY <1>3, <2>2, <2>3, DividesShifted DEF Data, Queues
  <2>5. sent' <= MaxOut /\ b \in 0..sent' /\ (Posting' => t <= b) /\ (Asking' => r <= b)
    BY <1>1, <1>2, <1>5, <1>6, <1>8, BoundsAssumption DEF Data, Queues
  <2> QED  BY <1>1, <2>1, <2>4, <2>5 DEF Queues, InOrder, Divides
<1>10. Read(r)'
  BY <1>1, <1>7, ReadSame DEF Data
<1>11. Reported(t)'
  BY <1>1, ReportedKept DEF Data
<1>12. Lined(r, t, b)' /\ Start' = Start
  BY <1>1, <1>5, <1>7, LinedSame DEF Data
<1>13. Acks(b)'
  <2>1. Joined => attached \in 1..Len(sessions) /\ r = b + Len(Log(attached))
    BY DEF Data, Lined
  <2>2. attached \in 1..Len(sessions) => Joined
    BY <1>1 DEF ControlInv, Answering
  <2>3. \A i \in 1..Len(moduleQ) : moduleQ[i].name = "a" =>
           Start' <= moduleQ[i].arg /\ \A j \in 1..Len(unprocessedAcks') : unprocessedAcks'[j] <= moduleQ[i].arg
    BY <1>1, <1>12 DEF Data, Acks
  <2>4. attached \in 1..Len(sessions) => e.arg > b + Len(Log(attached))
    <3> HIDE DEF Log
    <3> QED  BY <1>2, <1>8, <2>1, <2>2
  <2>5. \A x \in {e} : x.name # "a" /\
           (x.name = "didSend" =>
              x.arg \in Nat /\ (attached \in 1..Len(sessions) => x.arg > b + Len(Log(attached))))
    BY <1>2, <2>4
  <2> QED  BY <1>1, <1>3, <1>5, <1>7, <2>1, <2>3, <2>5, AcksKept DEF Data
<1>14. Kept'
  BY <1>1, <1>2, <1>7, KeptSame DEF Data
<1>15. Stores(r, b)'
  BY <1>1, <1>5, <1>7, StoresSame DEF Data
<1>16. Prior'
  BY <1>1, <1>5, <1>7, PriorSame DEF Data
<1> QED  BY <1>9, <1>10, <1>11, <1>12, <1>13, <1>14, <1>15, <1>16 DEF Data

LEMMA WaitingMore ==
    ASSUME Inv, NEW p \in Seq(OutgoingItem), NEW t \in Nat, Waiting(p, t),
           \A m \in reported : m <= t,
           NEW x \in OutgoingItem, x.n = t + 1, x.id \in {0, x.n}
    PROVE  Waiting(Append(p, x), t + 1)
<1>1. /\ Len(p) \in Nat /\ Len(Append(p, x)) = Len(p) + 1
      /\ \A i \in 1..Len(p) : Append(p, x)[i] = p[i] /\ p[i].n \in Nat /\ p[i].n <= t
      /\ Append(p, x)[Len(p) + 1] = x
  <2>1. \A i \in 1..Len(p) : p[i] \in OutgoingItem
    BY ElementOfSeq
  <2>2. \A i \in 1..Len(p) : p[i].n \in Nat /\ p[i].n <= t
    BY <2>1 DEF OutgoingItem, Waiting
  <2> QED  BY <2>2, LenProperties, AppendProperties
<1> DEFINE q == Append(p, x)
<1>2. \A i \in 1..Len(q) : i \in 1..Len(p) \/ i = Len(p) + 1
  BY <1>1
<1> HIDE DEF q
<1>3. ASSUME NEW i \in 1..Len(q)
      PROVE  /\ q[i].n <= t + 1 /\ q[i].id \in {0, q[i].n}
             /\ \A m \in reported : m < q[i].n
  <2>1. CASE i \in 1..Len(p)
    BY <1>1, <2>1 DEF Waiting, q
  <2>2. CASE i = Len(p) + 1
    <3>1. q[i] = x
      BY <1>1, <2>2 DEF q
    <3>2. \A m \in reported : m \in Nat
      BY DataTypes
    <3> QED  BY <3>1, <3>2
  <2> QED  BY <1>2, <2>1, <2>2
<1>4. ASSUME NEW i \in 1..Len(q), NEW j \in 1..Len(q), i < j PROVE q[i].n < q[j].n
  <2>1. i \in 1..Len(p)
    BY <1>1, <1>2, <1>4
  <2>2. q[i] = p[i] /\ p[i].n \in Nat /\ p[i].n <= t
    BY <1>1, <2>1 DEF q
  <2>3. CASE j \in 1..Len(p)
    <3>1. q[j] = p[j]
      BY <1>1, <2>3 DEF q
    <3> QED  BY <1>4, <2>1, <2>2, <2>3, <3>1 DEF Waiting
  <2>4. CASE j = Len(p) + 1
    <3>1. q[j] = x
      BY <1>1, <2>4 DEF q
    <3> QED  BY <2>2, <3>1
  <2> QED  BY <1>2, <2>3, <2>4
<1>5. Waiting(q, t + 1)
  BY <1>3, <1>4 DEF Waiting
<1> QED  BY <1>5 DEF q

LEMMA DidSendData ==
    ASSUME Inv, Inv', QueueInv, ControlInv, HandleDidSend,
           NEW r \in Nat, NEW t \in Nat, NEW b \in Nat, Data(r, t, b)
    PROVE  Data(r, t + 1, b)'
<1> DEFINE n == Head(moduleQ).arg
           x == IF AsyncIds THEN Outgoing(n, 0, TRUE) ELSE Outgoing(n, StanzaId(n), FALSE)
           u == Append(unackedByServer, x)
<1>1. /\ moduleQ # <<>> /\ moduleQ' = Tail(moduleQ) /\ Head(moduleQ).name = "didSend"
      /\ UNCHANGED <<conn, sent, attached, sessions, received, reported, isStarted, enableSent,
                     lastHandledByServer, prevUnacked, unprocessedAcks, draining, session>>
      /\ \/ /\ isStarted \/ enableSent
            /\ unackedByServer' = u
            /\ store' = store \/ store' = StoreOutgoing(lastHandledByServer, u)
         \/ ~(isStarted \/ enableSent) /\ UNCHANGED <<unackedByServer, store>>
      /\ c2s' = c2s \/ c2s' = Written("r", 0)
  BY Zenon DEF HandleDidSend, MaybeRequestAck, RequestAck, AddPending, Next_is, streamVars,
               serverVars, flagVars, inVars, histVars
<1>2. /\ Shifted(moduleQ, moduleQ', 1, {}) /\ Head(moduleQ) = moduleQ[1] /\ 1 \in 1..Len(moduleQ)
      /\ \A names : moduleQ[1].name \notin names => (Holds(moduleQ', names) <=> Holds(moduleQ, names))
      /\ ~Awaiting'
  BY <1>1, ControlTaken
<1>3. n = t + 1 /\ t + 1 <= sent /\ InOrder(moduleQ', "didSend", t + 1, sent)
  BY <1>1, <1>2, DataTypes, InOrderTaken DEF Data, Queues
<1>4. x \in OutgoingItem /\ x.n = t + 1 /\ x.id \in {0, x.n}
  <2>1. StanzaId(t + 1) \in {0, t + 1}
    BY DEF StanzaId
  <2> QED  BY <1>3, <2>1, ConfigAssumption DEF Outgoing, OutgoingItem
<1> HIDE DEF n, x
<1>5. /\ Posting' <=> Posting
      /\ Resumed' <=> Resumed
      /\ Joined' <=> Joined
  <2>1. /\ Holds(moduleQ, {"didSendEnable"})' <=> Holds(moduleQ, {"didSendEnable"})
        /\ Holds(moduleQ, {"resumed"})' <=> Holds(moduleQ, {"resumed"})
        /\ Holds(moduleQ, {"enabled", "resumed"})' <=> Holds(moduleQ, {"enabled", "resumed"})
    BY <1>1, <1>2 DEF Holds
  <2> QED  BY <1>1, <2>1 DEF Posting, Resumed, Joined
<1>6. ~Resumed
  <2> SUFFICES ASSUME Resumed PROVE FALSE
    OBVIOUS
  <2>1. PICK i \in 1..Len(moduleQ) : moduleQ[i].name = "resumed"
    BY HoldsAt, QueueTypes DEF Resumed
  <2>2. i = 1
    BY <2>1, QueueTypes, LenProperties DEF QueueInv, ResumedIsFirst
  <2> QED  BY <1>1, <1>2, <2>1, <2>2
<1>7. SameLogs /\ LogsGrow /\ Start' = Start
  BY <1>1, <1>5, <1>6, SameSessions, SameLogsGrow DEF Start
<1>8. enableSent => ~isStarted /\ Dead(store.id) /\ unprocessedAcks = <<>>
  BY DEF ControlInv, AskingOnce, Told, Storing
<1>9. Shifted(c2s, c2s', 0, Requests)
  BY <1>1, DataTypes, ShiftedSame, RequestWritten
<1>10. \A e \in Requests : e.name = "r"
  BY DEF Requests
<1> HIDE DEF Requests
<1>11. Asking' => Asking
  <2>1. c2s \in Seq(ElementSet) /\ c2s' \in Seq(ElementSet)
    BY DEF Inv, TypeOK, StreamTypeOK
  <2>2. \A e \in Requests : e.name \notin {"enable"}
    BY <1>10
  <2> QED  BY <1>9, <2>1, <2>2, ShiftedHolds DEF Asking
<1>12. /\ Len(unackedByServer) \in Nat /\ unackedByServer \in Seq(OutgoingItem)
       /\ Len(u) = Len(unackedByServer) + 1 /\ u[Len(unackedByServer) + 1] = x
       /\ \A i \in 1..Len(unackedByServer) : u[i] = unackedByServer[i]
  BY <1>4, OutgoingTypes, AppendProperties
<1> HIDE DEF u
<1>13. /\ store'.id = store.id
       /\ store' = store \/ (store'.hs = lastHandledByServer /\ store'.pending = u)
  BY <1>1, StoreOutgoingParts
<1>14. Queues(r, t + 1, b)'
  <2>1. InOrder(c2s', "stanza", r, sent)
    <3>1. \A e \in Requests : e.name # "stanza"
      BY <1>10
    <3>2. PICK k : k = 0
      OBVIOUS
    <3>3. InOrder(c2s, "stanza", r, sent) /\ sent \in Nat
      BY DataTypes DEF Data, Queues
    <3>4. Shifted(c2s, c2s', k, Requests) /\ k # 1
      BY <1>9, <3>2
    <3> QED  BY <3>1, <3>3, <3>4, InOrderShifted
  <2>2. Divides(moduleQ', "didSendEnable", "didSend", b)
    BY <1>2, DividesShifted DEF Data, Queues
  <2>3. Divides(c2s', "enable", "stanza", b)
    <3>1. \A e \in Requests : e.name # "enable" /\ (e.name = "stanza" => e.arg > b)
      BY <1>10
    <3> QED  BY <1>9, <3>1, DividesShifted DEF Data, Queues
  <2>4. Posting => t + 1 <= b
    <3> SUFFICES ASSUME Posting PROVE t + 1 <= b
      OBVIOUS
    <3>1. PICK i \in 1..Len(moduleQ) : moduleQ[i].name = "didSendEnable"
      BY HoldsAt, QueueTypes DEF Posting
    <3>2. 1 < i
      BY <1>1, <1>2, <3>1
    <3>3. moduleQ[1].arg <= b
      BY <1>1, <1>2, <3>1, <3>2 DEF Data, Queues, Divides
    <3> QED  BY <1>2, <1>3, <3>3 DEF n
  <2> QED  BY <1>1, <1>3, <1>5, <1>11, <2>1, <2>2, <2>3, <2>4 DEF Data, Queues, InOrder, Divides
<1>15. Read(r)'
  BY <1>1, <1>7, ReadSame DEF Data
<1>16. Reported(t + 1)'
  <2>1. Waiting(u, t + 1)
    BY <1>4, <1>12, WaitingMore DEF Data, Reported, u
  <2>2. \A p \in {unackedByServer, prevUnacked, store.pending} : Waiting(p, t + 1)
    <3>1. ASSUME NEW p \in Seq(OutgoingItem), Waiting(p, t) PROVE Waiting(p, t + 1)
      <4>1. \A i \in 1..Len(p) : p[i] \in OutgoingItem
        BY ElementOfSeq
      <4>2. \A i \in 1..Len(p) : p[i].n \in Nat
        BY <4>1 DEF OutgoingItem
      <4>3. \A i \in 1..Len(p) : p[i].n <= t + 1
        BY <3>1, <4>2 DEF Waiting
      <4> QED  BY <3>1, <4>3 DEF Waiting
    <3> QED  BY <1>12, <3>1, DataTypes DEF Data, Reported
  <2>3. {unackedByServer', prevUnacked', store'.pending} \subseteq {u, unackedByServer, prevUnacked, store.pending}
    BY <1>1, <1>13
  <2>4. Waiting(unackedByServer', t + 1) /\ Waiting(prevUnacked', t + 1) /\ Waiting(store'.pending, t + 1)
    BY <2>1, <2>2, <2>3
  <2>5. reported \subseteq received /\ \A m \in reported : m <= t + 1
    BY DataTypes DEF Data, Reported
  <2> QED  BY <1>1, <2>4, <2>5 DEF Reported, Waiting
<1>17. Lined(r, t + 1, b)'
  <2>1. Live' => /\ t + 1 = b + Start' + Len(unackedByServer')
                 /\ \A i \in 1..Len(unackedByServer') : unackedByServer'[i].n = b + Start' + i
    <3> SUFFICES ASSUME Live'
                 PROVE  /\ t + 1 = b + Start' + Len(unackedByServer')
                        /\ \A i \in 1..Len(unackedByServer') : unackedByServer'[i].n = b + Start' + i
      OBVIOUS
    <3>1. (isStarted \/ enableSent) /\ unackedByServer' = u
      BY <1>1, <1>5, <1>6 DEF Live
    <3>2. /\ t = b + Start + Len(unackedByServer)
          /\ \A i \in 1..Len(unackedByServer) : unackedByServer[i].n = b + Start + i
      BY <3>1 DEF Data, Lined, Live
    <3>3. Start \in Nat
      BY <1>6, OutgoingTypes DEF Start
    <3>4. \A i \in 1..Len(u) : i \in 1..Len(unackedByServer) \/ i = Len(unackedByServer) + 1
      BY <1>12
    <3>5. x.n = b + Start + (Len(unackedByServer) + 1)
      BY <1>4, <1>12, <3>2, <3>3
    <3>6. \A i \in 1..Len(u) : u[i].n = b + Start + i
      BY <1>12, <3>2, <3>4, <3>5
    <3>7. t + 1 = b + Start + Len(u)
      BY <1>12, <3>2, <3>3
    <3> QED  BY <1>7, <3>1, <3>6, <3>7
  <2>2. Joined' => /\ attached' \in 1..Len(sessions')
                   /\ r = b + Len(Log(attached)') /\ Start' <= Len(Log(attached)')
                   /\ \A k \in (Start' + 1)..Len(Log(attached)') : Log(attached)'[k] = b + k
    BY <1>1, <1>5, <1>7 DEF Data, Lined, Log
  <2> QED  BY <2>1, <2>2 DEF Lined, Log
<1>18. Acks(b)'
  <2>1. Joined => attached \in 1..Len(sessions)
    BY DEF Data, Lined
  <2>2. \A i \in 1..Len(moduleQ) : moduleQ[i].name = "a" =>
           Start' <= moduleQ[i].arg /\ \A j \in 1..Len(unprocessedAcks') : unprocessedAcks'[j] <= moduleQ[i].arg
    BY <1>1, <1>7 DEF Data, Acks
  <2>3. PICK d, more : d = 1 /\ more = {}
    OBVIOUS
  <2> QED  BY <1>1, <1>2, <1>5, <1>7, <2>1, <2>2, <2>3, AcksKept DEF Data
<1>19. Kept'
  <2>1. CASE UNCHANGED <<unackedByServer, store>>
    BY <1>1, <1>7, <2>1, DataTypes, KeptSame DEF Data
  <2>2. CASE unackedByServer' = u /\ unprocessedAcks = <<>>
    <3>1. Len(unprocessedAcks') = 0
      BY <1>1, <2>2
    <3> QED  BY <1>1, <2>2, <3>1 DEF Kept
  <2>3. CASE (isStarted \/ enableSent) /\ unackedByServer' = u /\ unprocessedAcks # <<>>
    <3>1. isStarted /\ lastHandledByServer \in Nat
      BY <1>1, <1>8, <2>3, OutgoingTypes
    <3>2. ASSUME NEW h \in Nat, Acknowledges(h)
          PROVE  Acknowledges(h)' /\ (h - lastHandledByServer) \in 0..Len(unackedByServer)
      <4>1. (h - lastHandledByServer) \in 0..Len(unackedByServer) /\ h <= lastHandledByServer + Len(u)
        BY <1>12, <3>1, <3>2 DEF Acknowledges
      <4>2. \A i \in 1..(h - lastHandledByServer) : u[i].n \in received
        BY <1>12, <3>2, <4>1 DEF Acknowledges
      <4> QED  BY <1>1, <1>13, <2>3, <3>2, <4>1, <4>2 DEF Acknowledges, Log, Dead
    <3>3. \A j \in 1..Len(unprocessedAcks) : unprocessedAcks[j] \in Nat /\ Acknowledges(unprocessedAcks[j])
      BY OutgoingTypes DEF Data, Kept
    <3>4. 1 \in 1..Len(unprocessedAcks)
      BY <2>3, OutgoingTypes, EmptySeq
    <3>5. (unprocessedAcks[1] - lastHandledByServer) \in 0..Len(unackedByServer)
      <4>1. PICK h \in Nat : h = unprocessedAcks[1] /\ Acknowledges(h)
        BY <3>3, <3>4
      <4> QED  BY <3>2, <4>1
    <3>6. draining = "idle" =>
             \E i \in 1..(unprocessedAcks[1] - lastHandledByServer) : u[i].awaiting
      BY <1>12, <2>3, <3>5 DEF Data, Kept
    <3> QED  BY <1>1, <2>3, <3>2, <3>3, <3>6 DEF Data, Kept
  <2> QED  BY <1>1, <2>1, <2>2, <2>3
<1>20. Stores(r, b)'
  <2>1. CASE UNCHANGED <<unackedByServer, store>>
    <3>1. Rewriting
      BY <2>1 DEF Rewriting
    <3> QED  BY <1>1, <1>5, <1>7, <2>1, <3>1, StoresSame DEF Data
  <2>2. CASE enableSent
    BY <1>1, <1>8, <1>13, <2>2 DEF Stores, Dead
  <2>3. CASE isStarted /\ unackedByServer' = u
    <3>1. \A i \in 1..Len(u) : u[i].n = b + lastHandledByServer + i
      BY <1>1, <1>17, <2>3 DEF Lined, Live, Start
    <3> QED  BY <1>1, <1>13, <2>3, <3>1 DEF Stores, Data
  <2> QED  BY <1>1, <2>1, <2>2, <2>3
<1>21. Prior'
  BY <1>2, <1>5, <1>6 DEF Prior
<1>22. t + 1 \in Nat
  OBVIOUS
<1> QED  BY <1>14, <1>15, <1>16, <1>17, <1>18, <1>19, <1>20, <1>21 DEF Data

LEMMA StartType == ASSUME Inv PROVE Start \in Nat
<1>1. Resumed => 1 \in 1..Len(moduleQ)
  BY HoldsAt, QueueTypes, LenProperties DEF Resumed
<1> QED  BY <1>1, DataTypes, OutgoingTypes DEF Start

\* The logs after one of them has grown.
LEMMA LogAppended ==
    ASSUME Inv, attached \in 1..Len(sessions), NEW m \in Nat,
           sessions' = [sessions EXCEPT ![attached].log = Append(@, m)]
    PROVE  /\ LogsGrow /\ Len(sessions') = Len(sessions)
           /\ \A s \in 1..Len(sessions) : sessions'[s].alive = sessions[s].alive
           /\ \A s \in 1..Len(sessions) : s # attached => sessions'[s].log = sessions[s].log
           /\ sessions'[attached].log = Append(Log(attached), m)
           /\ Len(sessions'[attached].log) = Len(Log(attached)) + 1
           /\ sessions'[attached].log[Len(Log(attached)) + 1] = m
           /\ \A k \in 1..Len(Log(attached)) : sessions'[attached].log[k] = Log(attached)[k]
<1>1. /\ DOMAIN sessions = 1..Len(sessions) /\ sessions \in Seq(Session)
      /\ \A s \in 1..Len(sessions) : sessions[s] \in Session
      /\ Log(attached) \in Seq(Nat) /\ Len(Log(attached)) \in Nat
  BY SessionTypes, DataTypes
<1>2. \A s \in 1..Len(sessions) :
         sessions'[s] = IF s = attached THEN [sessions[s] EXCEPT !.log = Append(@, m)] ELSE sessions[s]
  BY <1>1
<1>3. Len(sessions') = Len(sessions)
  BY <1>1, ExceptSeq
<1>4. \A s \in 1..Len(sessions) : sessions'[s].alive = sessions[s].alive
  BY <1>1, <1>2 DEF Session
<1>5. sessions'[attached].log = Append(Log(attached), m)
  BY <1>1, <1>2 DEF Session, Log
<1>6. \A s \in 1..Len(sessions) : s # attached => sessions'[s].log = sessions[s].log
  BY <1>2
<1>7. /\ Len(sessions'[attached].log) = Len(Log(attached)) + 1
      /\ sessions'[attached].log[Len(Log(attached)) + 1] = m
      /\ \A k \in 1..Len(Log(attached)) : sessions'[attached].log[k] = Log(attached)[k]
  BY <1>1, <1>5, AppendProperties
<1>8. LogsGrow
  <2> SUFFICES ASSUME NEW s \in 1..Len(sessions)
               PROVE  /\ s \in 1..Len(sessions') /\ (sessions'[s].alive => sessions[s].alive)
                      /\ Len(Log(s)) <= Len(sessions'[s].log)
                      /\ \A k \in 1..Len(Log(s)) : sessions'[s].log[k] = Log(s)[k]
    BY DEF LogsGrow
  <2>1. Len(Log(s)) \in Nat
    BY DataTypes
  <2>2. CASE s = attached
    BY <1>3, <1>4, <1>7, <2>1, <2>2
  <2>3. CASE s # attached
    BY <1>3, <1>4, <1>6, <2>1, <2>3 DEF Log
  <2> QED  BY <2>2, <2>3
<1> QED  BY <1>3, <1>4, <1>5, <1>6, <1>7, <1>8

LEMMA ServerStanzaData ==
    ASSUME Inv, Inv', QueueInv, ControlInv, ServerHandlesStanza,
           NEW r \in Nat, NEW t \in Nat, NEW b \in Nat, Data(r, t, b)
    PROVE  Data(r + 1, t, b)'
<1>1. /\ c2s # <<>> /\ c2s' = Tail(c2s) /\ Head(c2s).name = "stanza"
      /\ received' = received \cup {Head(c2s).arg}
      /\ sessions' = IF attached = 0 THEN sessions
                     ELSE [sessions EXCEPT ![attached].log = Append(@, Head(c2s).arg)]
      /\ UNCHANGED <<conn, sent, moduleQ, attached, reported, isStarted, enableSent,
                     lastHandledByServer, unackedByServer, prevUnacked, unprocessedAcks,
                     draining, store, session>>
  BY DEF ServerHandlesStanza, Take, streamVars, moduleVars, flagVars, outVars, histVars
<1>2. Shifted(c2s, c2s', 1, {}) /\ Head(c2s) = c2s[1] /\ 1 \in 1..Len(c2s)
  BY <1>1, QueueTypes, ShiftedTail
<1>3. c2s[1].arg = r + 1 /\ r + 1 <= sent /\ InOrder(c2s', "stanza", r + 1, sent)
  BY <1>1, <1>2, DataTypes, InOrderTaken DEF Data, Queues
<1>4. /\ received' = received \cup {r + 1}
      /\ sessions' = IF attached = 0 THEN sessions
                     ELSE [sessions EXCEPT ![attached].log = Append(@, r + 1)]
  <2>1. Head(c2s).arg = r + 1
    BY <1>2, <1>3
  <2> QED  BY <1>1, <2>1, Zenon
<1> DEFINE grown(s) == IF s = attached THEN Len(Log(s)) + 1 ELSE Len(Log(s))
<1>6. /\ LogsGrow /\ Len(sessions') = Len(sessions)
      /\ \A s \in 1..Len(sessions) :
            /\ sessions'[s].alive = sessions[s].alive /\ Len(sessions'[s].log) = grown(s)
            /\ \A k \in 1..Len(Log(s)) : sessions'[s].log[k] = Log(s)[k]
            /\ s = attached => sessions'[s].log[Len(Log(s)) + 1] = r + 1
  <2>1. CASE attached = 0
    <3>1. sessions' = sessions /\ \A s \in 1..Len(sessions) : s # attached
      BY <1>4, <2>1
    <3> QED  BY <3>1, SameSessions, SameLogsGrow DEF Log
  <2>2. CASE attached # 0
    <3>1. attached \in 1..Len(sessions)
      BY <2>2, DataTypes, SessionTypes
    <3>2. sessions' = [sessions EXCEPT ![attached].log = Append(@, r + 1)]
      BY <1>4, <2>2
    <3>3. PICK m \in Nat : m = r + 1
      OBVIOUS
    <3>4. sessions' = [sessions EXCEPT ![attached].log = Append(@, m)]
      BY <3>2, <3>3
    <3>5. /\ LogsGrow /\ Len(sessions') = Len(sessions)
          /\ \A s \in 1..Len(sessions) : sessions'[s].alive = sessions[s].alive
          /\ \A s \in 1..Len(sessions) : s # attached => sessions'[s].log = sessions[s].log
          /\ Len(sessions'[attached].log) = Len(Log(attached)) + 1
          /\ sessions'[attached].log[Len(Log(attached)) + 1] = m
          /\ \A k \in 1..Len(Log(attached)) : sessions'[attached].log[k] = Log(attached)[k]
      BY <3>1, <3>4, LogAppended
    <3>6. ASSUME NEW s \in 1..Len(sessions)
          PROVE  /\ sessions'[s].alive = sessions[s].alive /\ Len(sessions'[s].log) = grown(s)
                 /\ \A k \in 1..Len(Log(s)) : sessions'[s].log[k] = Log(s)[k]
                 /\ s = attached => sessions'[s].log[Len(Log(s)) + 1] = r + 1
      <4>1. CASE s = attached
        BY <3>3, <3>5, <4>1
      <4>2. CASE s # attached
        BY <3>5, <4>2 DEF Log
      <4> QED  BY <4>1, <4>2
    <3> QED  BY <3>5, <3>6
  <2> QED  BY <2>1, <2>2
<1> HIDE DEF grown
<1>7. /\ Posting' <=> Posting
      /\ Resumed' <=> Resumed
      /\ Joined' <=> Joined
      /\ Live' <=> Live
      /\ Start' = Start
  BY <1>1 DEF Posting, Resumed, Joined, Live, Start, Holds
<1>8. Queues(r + 1, t, b)'
  <2>1. Asking' => r + 1 <= b
    <3> SUFFICES ASSUME Asking' PROVE r + 1 <= b
      OBVIOUS
    <3>1. PICK i \in 1..Len(c2s') : c2s'[i].name = "enable"
      BY HoldsAt DEF Asking, Inv, TypeOK, StreamTypeOK
    <3>2. i + 1 \in 1..Len(c2s) /\ c2s'[i] = c2s[i + 1] /\ 1 < i + 1
      BY <1>2 DEF Shifted
    <3>3. c2s[1].arg <= b
      BY <1>1, <1>2, <3>1, <3>2 DEF Data, Queues, Divides
    <3> QED  BY <1>3, <3>3
  <2>2. Divides(c2s', "enable", "stanza", b)
    BY <1>2, DividesShifted DEF Data, Queues
  <2> QED  BY <1>1, <1>3, <1>7, <2>1, <2>2 DEF Data, Queues, InOrder, Divides
<1>9. Read(r + 1)'
  <2>1. \A m \in received' : m \in 1..(r + 1)
    BY <1>4 DEF Data, Read
  <2>2. ASSUME NEW s \in 1..Len(sessions)
        PROVE  /\ Len(sessions'[s].log) <= r + 1
               /\ \A k \in 1..Len(sessions'[s].log) : sessions'[s].log[k] \in received'
    <3>1. /\ Len(Log(s)) \in Nat /\ Len(Log(s)) <= r
          /\ \A k \in 1..Len(Log(s)) : Log(s)[k] \in received
      BY DataTypes DEF Data, Read
    <3>2. Len(sessions'[s].log) \in {Len(Log(s)), Len(Log(s)) + 1}
      BY <1>6 DEF grown
    <3>3. ASSUME NEW k \in 1..Len(sessions'[s].log) PROVE sessions'[s].log[k] \in received'
      <4>1. CASE k \in 1..Len(Log(s))
        <5>1. sessions'[s].log[k] = Log(s)[k] /\ Log(s)[k] \in received
          BY <1>6, <3>1, <4>1
        <5>2. received \subseteq received'
          BY <1>4
        <5> QED  BY <5>1, <5>2
      <4>2. CASE k \notin 1..Len(Log(s))
        <5>1. k = Len(Log(s)) + 1 /\ s = attached
          BY <1>6, <3>1, <4>2 DEF grown
        <5>2. sessions'[s].log[k] = r + 1
          BY <1>6, <5>1
        <5>3. r + 1 \in received'
          BY <1>4
        <5> QED  BY <5>2, <5>3
      <4> QED  BY <4>1, <4>2
    <3> QED  BY <3>1, <3>2, <3>3
  <2> QED  BY <1>6, <2>1, <2>2 DEF Read, Log
<1>10. Reported(t)'
  BY <1>1, <1>4, ReportedKept DEF Data
<1>11. Lined(r + 1, t, b)'
  <2>1. ASSUME Joined
        PROVE  /\ attached \in 1..Len(sessions')
               /\ r + 1 = b + Len(sessions'[attached].log) /\ Start <= Len(sessions'[attached].log)
               /\ \A k \in (Start + 1)..Len(sessions'[attached].log) : sessions'[attached].log[k] = b + k
    <3>1. /\ attached \in 1..Len(sessions) /\ r = b + Len(Log(attached)) /\ Start <= Len(Log(attached))
          /\ \A k \in (Start + 1)..Len(Log(attached)) : Log(attached)[k] = b + k
      BY <2>1 DEF Data, Lined
    <3>2. Len(Log(attached)) \in Nat /\ Start \in Nat
      BY <3>1, DataTypes, StartType
    <3>3. /\ Len(sessions'[attached].log) = Len(Log(attached)) + 1
          /\ sessions'[attached].log[Len(Log(attached)) + 1] = r + 1
          /\ \A k \in 1..Len(Log(attached)) : sessions'[attached].log[k] = Log(attached)[k]
      BY <1>6, <3>1 DEF grown
    <3>4. ASSUME NEW k \in (Start + 1)..(Len(Log(attached)) + 1)
          PROVE  sessions'[attached].log[k] = b + k
      <4>1. CASE k = Len(Log(attached)) + 1
        BY <3>1, <3>2, <3>3, <4>1
      <4>2. CASE k # Len(Log(attached)) + 1
        <5>1. k \in 1..Len(Log(attached)) /\ k \in (Start + 1)..Len(Log(attached))
          BY <3>2, <4>2
        <5> QED  BY <3>1, <3>3, <5>1
      <4> QED  BY <4>1, <4>2
    <3> HIDE DEF Log
    <3> QED  BY <1>6, <3>1, <3>2, <3>3, <3>4
  <2> QED  BY <1>1, <1>7, <2>1 DEF Data, Lined, Log
<1>12. Acks(b)'
  <2>1. Joined => attached \in 1..Len(sessions)
    BY DEF Data, Lined
  <2>2. \A i \in 1..Len(moduleQ) : moduleQ[i].name = "a" =>
           Start' <= moduleQ[i].arg /\ \A j \in 1..Len(unprocessedAcks') : unprocessedAcks'[j] <= moduleQ[i].arg
    BY <1>1, <1>7 DEF Data, Acks
  <2>3. PICK d, more : d = 0 /\ more = {}
    OBVIOUS
  <2>4. Shifted(moduleQ, moduleQ', d, more)
    BY <1>1, <2>3, QueueTypes, ShiftedSame
  <2> QED  BY <1>1, <1>6, <1>7, <2>1, <2>2, <2>3, <2>4, AcksKept DEF Data
<1>13. Kept'
  BY <1>1, <1>4, <1>6, DataTypes, KeptSame DEF Data
<1>14. Stores(r + 1, b)'
  <2>1. ASSUME ~Dead(store.id)', ~isStarted, ~Resumed, NEW x \in Nat, NEW p \in Seq(OutgoingItem),
               Continues(r, b, store.id, x, p)
        PROVE  Continues(r + 1, b, store.id, x, p)'
    <3>1. store.id \in 1..Len(sessions)
      BY <1>1, <2>1, DataTypes, SessionTypes DEF Dead
    <3>2. /\ Len(Log(store.id)) \in Nat /\ x <= Len(Log(store.id))
          /\ \A i \in 1..Len(p) : x + i <= Len(Log(store.id)) => Log(store.id)[x + i] = p[i].n
          /\ store.id = attached =>
                /\ r = b + Len(Log(store.id))
                /\ \A i \in 1..Len(p) : x + i > Len(Log(store.id)) => p[i].n = b + x + i
      BY <2>1, <3>1, DataTypes DEF Continues, Aligned
    <3>3. /\ Len(sessions'[store.id].log) = grown(store.id)
          /\ \A k \in 1..Len(Log(store.id)) : sessions'[store.id].log[k] = Log(store.id)[k]
          /\ store.id = attached => sessions'[store.id].log[Len(Log(store.id)) + 1] = r + 1
      BY <1>6, <3>1
    <3>4. Len(p) \in Nat
      BY LenProperties
    <3>5. CASE store.id = attached
      <4>1. Len(sessions'[store.id].log) = Len(Log(store.id)) + 1
        BY <3>3, <3>5 DEF grown
      <4>2. ASSUME NEW i \in 1..Len(p)
            PROVE  /\ x + i <= Len(Log(store.id)) + 1 => sessions'[store.id].log[x + i] = p[i].n
                   /\ x + i > Len(Log(store.id)) + 1 => p[i].n = b + x + i
        <5>1. CASE x + i <= Len(Log(store.id))
          <6>1. x + i \in 1..Len(Log(store.id))
            BY <3>2, <3>4, <5>1
          <6> QED  BY <3>2, <3>3, <5>1, <6>1
        <5>2. CASE x + i = Len(Log(store.id)) + 1
          <6>1. p[i].n = b + x + i
            BY <3>2, <3>5, <5>2
          <6>2. b + x + i = r + 1
            <7>1. PICK n : n = Len(Log(store.id))
              OBVIOUS
            <7>2. n \in Nat /\ r = b + n /\ x + i = n + 1 /\ i \in Nat
              BY <3>2, <3>4, <3>5, <5>2, <7>1
            <7> QED  BY <7>2
          <6> QED  BY <3>3, <3>5, <5>2, <6>1, <6>2
        <5>3. CASE x + i > Len(Log(store.id)) + 1
          BY <3>2, <3>5, <5>3
        <5> QED  BY <3>2, <5>1, <5>2, <5>3
      <4>3. r + 1 = b + (Len(Log(store.id)) + 1) /\ x <= Len(Log(store.id)) + 1
        BY <3>2, <3>5
      <4> QED  BY <1>1, <3>5, <4>1, <4>2, <4>3 DEF Continues, Aligned, Log
    <3>6. CASE store.id # attached
      <4>1. Len(sessions'[store.id].log) = Len(Log(store.id))
        BY <3>3, <3>6 DEF grown
      <4>2. \A i \in 1..Len(p) : x + i <= Len(Log(store.id)) => sessions'[store.id].log[x + i] = p[i].n
        <5> SUFFICES ASSUME NEW i \in 1..Len(p), x + i <= Len(Log(store.id))
                     PROVE  sessions'[store.id].log[x + i] = p[i].n
          OBVIOUS
        <5>1. x + i \in 1..Len(Log(store.id))
          BY <3>2, <3>4
        <5> QED  BY <3>2, <3>3, <5>1
      <4> QED  BY <1>1, <3>2, <3>6, <4>1, <4>2 DEF Continues, Aligned, Log
    <3> QED  BY <3>5, <3>6
  <2>2. ~Dead(store.id)' => ~Dead(store.id)
    <3> SUFFICES ASSUME ~Dead(store.id)' PROVE ~Dead(store.id)
      OBVIOUS
    <3>1. store.id \in 1..Len(sessions)
      BY <1>1, DataTypes, SessionTypes DEF Dead
    <3> QED  BY <1>1, <1>6, <3>1 DEF Dead
  <2>3. ASSUME ~Dead(store.id)', ~isStarted, ~Resumed
        PROVE  /\ Continues(r + 1, b, store.id, store.hs, store.pending)'
               /\ Continues(r + 1, b, store.id, lastHandledByServer, unackedByServer)'
    <3>1. /\ store.hs \in Nat /\ store.pending \in Seq(OutgoingItem)
          /\ lastHandledByServer \in Nat /\ unackedByServer \in Seq(OutgoingItem)
      BY DataTypes, OutgoingTypes
    <3>2. /\ Continues(r, b, store.id, store.hs, store.pending)
          /\ Continues(r, b, store.id, lastHandledByServer, unackedByServer)
      BY <2>2, <2>3 DEF Data, Stores
    <3>3. PICK x, p : x = store.hs /\ p = store.pending
      OBVIOUS
    <3>4. PICK y, q : y = lastHandledByServer /\ q = unackedByServer
      OBVIOUS
    <3>5. Continues(r + 1, b, store.id, x, p)' /\ Continues(r + 1, b, store.id, y, q)'
      BY <2>1, <2>3, <3>1, <3>2, <3>3, <3>4
    <3>6. /\ x = store'.hs /\ p = store'.pending
          /\ y = lastHandledByServer' /\ q = unackedByServer'
      BY <1>1, <3>3, <3>4
    <3>7. Continues(r + 1, b, store.id, store.hs, store.pending)'
      BY <3>5, <3>6 DEF Continues, Aligned
    <3>8. Continues(r + 1, b, store.id, lastHandledByServer, unackedByServer)'
      BY <3>5, <3>6 DEF Continues, Aligned
    <3> QED  BY <3>7, <3>8
  <2> QED  BY <1>1, <1>7, <2>3 DEF Data, Stores
<1>15. Prior'
  <2>1. ~Awaiting'
    <3> SUFFICES ASSUME Awaiting' PROVE FALSE
      OBVIOUS
    <3>1. conn = "resuming"
      BY <1>1 DEF Awaiting
    <3>2. 1 \in DOMAIN c2s
      BY <1>2, QueueTypes
    <3> QED  BY <1>1, <1>2, <3>1, <3>2 DEF QueueInv, ResumingIsQuiet
  <2>2. ASSUME Resumed
        PROVE  /\ store.hs <= moduleQ[1].arg /\ moduleQ[1].arg <= Len(sessions'[session].log)
               /\ \A i \in 1..Len(prevUnacked) :
                     store.hs + i <= moduleQ[1].arg => sessions'[session].log[store.hs + i] = prevUnacked[i].n
    <3>1. session = store.id /\ session \in 1..Len(sessions)
      BY <2>2, DataTypes, SessionTypes DEF ControlInv, Resuming
    <3>2. /\ store.hs <= moduleQ[1].arg /\ moduleQ[1].arg <= Len(Log(session))
          /\ \A i \in 1..Len(prevUnacked) :
                store.hs + i <= moduleQ[1].arg => Log(session)[store.hs + i] = prevUnacked[i].n
      BY <2>2 DEF Data, Prior, Aligned
    <3>3. /\ Len(Log(session)) \in Nat /\ Len(sessions'[session].log) \in {Len(Log(session)), Len(Log(session)) + 1}
          /\ \A k \in 1..Len(Log(session)) : sessions'[session].log[k] = Log(session)[k]
      BY <1>6, <3>1, DataTypes DEF grown
    <3>4. moduleQ[1].arg \in Nat /\ store.hs \in Nat
      <4>1. 1 \in 1..Len(moduleQ)
        BY <2>2, HoldsAt, QueueTypes DEF Resumed
      <4> QED  BY <4>1, DataTypes
    <3>5. ASSUME NEW i \in 1..Len(prevUnacked), store.hs + i <= moduleQ[1].arg
          PROVE  sessions'[session].log[store.hs + i] = prevUnacked[i].n
      <4>1. store.hs + i \in 1..Len(Log(session))
        BY <3>2, <3>3, <3>4, <3>5
      <4> QED  BY <3>2, <3>3, <3>5, <4>1
    <3> QED  BY <3>2, <3>3, <3>4, <3>5
  <2> QED  BY <1>1, <1>7, <2>1, <2>2 DEF Prior, Aligned, Log
<1> QED  BY <1>8, <1>9, <1>10, <1>11, <1>12, <1>13, <1>14, <1>15 DEF Data

-----------------------------------------------------------------------------
(* An ack is processed.                                                       *)

\* The first k stanzas leave unackedByServer, reported.
Reporting(k) ==
    /\ k \in 0..Len(unackedByServer)
    /\ lastHandledByServer' = lastHandledByServer + k
    /\ unackedByServer' = Drop(unackedByServer, k)
    /\ reported' = reported \cup IdsOf(unackedByServer, k)
    /\ store'.id = store.id
    /\ \/ k = 0 /\ store'.hs = store.hs /\ store'.pending = store.pending
       \/ store'.hs = lastHandledByServer' /\ store'.pending = unackedByServer'

LEMMA DropParts ==
    ASSUME Inv, NEW k \in 0..Len(unackedByServer)
    PROVE  /\ Len(Drop(unackedByServer, k)) = Len(unackedByServer) - k
           /\ \A i \in 1..(Len(unackedByServer) - k) :
                 Drop(unackedByServer, k)[i] = unackedByServer[i + k] /\ i + k \in 1..Len(unackedByServer)
           /\ Drop(unackedByServer, k) \in Seq(OutgoingItem)
<1>1. unackedByServer \in Seq(OutgoingItem) /\ Len(unackedByServer) \in Nat
  BY OutgoingTypes
<1>2. PICK u : u = unackedByServer
  OBVIOUS
<1>3. Len(SubSeq(u, k + 1, Len(u))) = Len(u) - k /\ SubSeq(u, k + 1, Len(u)) \in Seq(OutgoingItem)
  BY <1>1, <1>2
<1>4. \A i \in 1..(Len(u) - k) : SubSeq(u, k + 1, Len(u))[i] = u[i + k] /\ i + k \in 1..Len(u)
  BY <1>1, <1>2
<1> QED  BY <1>2, <1>3, <1>4 DEF Drop

LEMMA AcknowledgesLater ==
    ASSUME Inv, Inv', NEW k, Reporting(k), UNCHANGED <<sent, received, sessions, isStarted, session>>,
           NEW h \in Nat, Acknowledges(h), lastHandledByServer + k <= h
    PROVE  Acknowledges(h)'
<1>1. /\ k \in 0..Len(unackedByServer) /\ Len(unackedByServer) \in Nat /\ lastHandledByServer \in Nat
      /\ lastHandledByServer' = lastHandledByServer + k
      /\ h <= lastHandledByServer + Len(unackedByServer)
  BY OutgoingTypes DEF Reporting, Acknowledges
<1>2. /\ Len(unackedByServer') = Len(unackedByServer) - k
      /\ \A i \in 1..(Len(unackedByServer) - k) : unackedByServer'[i] = unackedByServer[i + k]
  BY <1>1, DropParts DEF Reporting
<1>3. \A i \in 1..(h - (lastHandledByServer + k)) : unackedByServer'[i].n \in received
  <2> SUFFICES ASSUME NEW i \in 1..(h - (lastHandledByServer + k))
               PROVE  unackedByServer'[i].n \in received
    OBVIOUS
  <2>1. i \in 1..(Len(unackedByServer) - k) /\ i + k \in 1..(h - lastHandledByServer)
    BY <1>1
  <2> QED  BY <1>2, <2>1 DEF Acknowledges
<1>4. h <= lastHandledByServer' + Len(unackedByServer')
  BY <1>1, <1>2
<1> QED  BY <1>1, <1>3, <1>4 DEF Acknowledges, Reporting, Log, Dead

LEMMA ReportedAcked ==
    ASSUME Inv, Inv', NEW t \in Nat, Reported(t), NEW k, Reporting(k), UNCHANGED received,
           prevUnacked' = <<>>,
           \A i \in 1..k : unackedByServer[i].n \in received
    PROVE  Reported(t)'
<1> DEFINE u == unackedByServer
<1>1. /\ k \in 0..Len(u) /\ Len(u) \in Nat /\ \A i \in 1..Len(u) : u[i].n \in Nat
  <2>1. \A i \in 1..Len(u) : u[i] \in OutgoingItem
    BY OutgoingTypes
  <2> QED  BY <2>1, OutgoingTypes DEF Reporting, OutgoingItem
<1>2. /\ Len(u') = Len(u) - k
      /\ \A i \in 1..(Len(u) - k) : u'[i] = u[i + k] /\ i + k \in 1..Len(u)
  BY <1>1, DropParts DEF Reporting
<1>3. \A m \in reported' : m \in reported \/ \E i \in 1..k : m = u[i].n
  <2> SUFFICES ASSUME NEW m \in reported', m \notin reported PROVE \E i \in 1..k : m = u[i].n
    OBVIOUS
  <2>1. PICK i \in 1..k : m = u[i].id /\ m # 0
    BY DEF Reporting, IdsOf
  <2>2. i \in 1..Len(u)
    BY <1>1
  <2> QED  BY <2>1, <2>2 DEF Reported, Waiting
<1>4. reported' \subseteq received'
  BY <1>3 DEF Reported
<1>5. \A m \in reported' : m <= t
  <2> SUFFICES ASSUME NEW m \in reported' PROVE m <= t
    OBVIOUS
  <2>1. CASE m \in reported
    BY <2>1 DEF Reported
  <2>2. CASE \E i \in 1..k : m = u[i].n
    <3>1. PICK i \in 1..k : m = u[i].n
      BY <2>2
    <3>2. i \in 1..Len(u)
      BY <1>1
    <3> QED  BY <3>1, <3>2 DEF Reported, Waiting
  <2> QED  BY <1>3, <2>1, <2>2
<1>6. /\ \A i \in 1..Len(u') : /\ u'[i].n <= t /\ u'[i].id \in {0, u'[i].n}
                               /\ \A m \in reported' : m < u'[i].n
      /\ \A i, j \in 1..Len(u') : i < j => u'[i].n < u'[j].n
  <2>1. ASSUME NEW i \in 1..Len(u')
        PROVE  /\ u'[i].n <= t /\ u'[i].id \in {0, u'[i].n}
               /\ \A m \in reported' : m < u'[i].n
    <3>1. u'[i] = u[i + k] /\ i + k \in 1..Len(u) /\ i >= 1
      BY <1>2
    <3>2. \A m \in reported : m < u[i + k].n
      BY <3>1 DEF Reported, Waiting
    <3>3. \A j \in 1..k : u[j].n < u[i + k].n
      <4> TAKE j \in 1..k
      <4>1. j \in 1..Len(u) /\ j < i + k
        BY <1>1, <3>1
      <4> QED  BY <3>1, <4>1 DEF Reported, Waiting
    <3> QED  BY <1>3, <3>1, <3>2, <3>3 DEF Reported, Waiting
  <2>2. ASSUME NEW i \in 1..Len(u'), NEW j \in 1..Len(u'), i < j PROVE u'[i].n < u'[j].n
    <3>1. /\ u'[i] = u[i + k] /\ i + k \in 1..Len(u) /\ u'[j] = u[j + k] /\ j + k \in 1..Len(u)
          /\ i + k < j + k
      BY <1>1, <1>2, <2>2
    <3> QED  BY <3>1 DEF Reported, Waiting
  <2> QED  BY <2>1, <2>2
<1>7. Waiting(unackedByServer, t)'
  BY <1>6 DEF Waiting
<1>8. Waiting(prevUnacked, t)'
  <2>1. \A i \in 1..Len(prevUnacked') : FALSE
    OBVIOUS
  <2> QED  BY <2>1 DEF Waiting
<1>9. Waiting(store.pending, t)'
  <2>1. CASE store'.pending = unackedByServer'
    BY <1>6, <2>1 DEF Waiting
  <2>2. CASE k = 0 /\ store'.pending = store.pending
    <3>1. reported' = reported
      BY <1>3, <2>2 DEF Reporting
    <3> QED  BY <2>2, <3>1 DEF Reported, Waiting
  <2> QED  BY <2>1, <2>2 DEF Reporting
<1> QED  BY <1>4, <1>5, <1>7, <1>8, <1>9 DEF Reported

\* The rest of the queue, the stanzas and the storage line up again.
LEMMA AckedData ==
    ASSUME Inv, Inv', QueueInv, ControlInv,
           NEW r \in Nat, NEW t \in Nat, NEW b \in Nat, Data(r, t, b),
           NEW k, Reporting(k), Acknowledges(lastHandledByServer + k),
           UNCHANGED <<conn, sent, c2s, attached, sessions, received, isStarted, enableSent,
                       prevUnacked, session>>,
           isStarted \/ unprocessedAcks # <<>>,
           NEW d, Shifted(moduleQ, moduleQ', d, {}), d = 1 => moduleQ[1].name = "a",
           \A i \in 1..Len(moduleQ) : i > d /\ moduleQ[i].name = "a" =>
              /\ lastHandledByServer + k <= moduleQ[i].arg
              /\ \A j \in 1..Len(unprocessedAcks') : unprocessedAcks'[j] <= moduleQ[i].arg
    PROVE  /\ Queues(r, t, b)' /\ Read(r)' /\ Reported(t)' /\ Lined(r, t, b)' /\ Acks(b)'
           /\ Stores(r, b)' /\ Prior'
<1> DEFINE u == unackedByServer
<1>1. /\ k \in 0..Len(u) /\ Len(u) \in Nat /\ u \in Seq(OutgoingItem)
      /\ lastHandledByServer \in Nat /\ lastHandledByServer' = lastHandledByServer + k
      /\ unackedByServer' = Drop(u, k)
  BY OutgoingTypes DEF Reporting
<1>2. /\ Len(unackedByServer') = Len(u) - k
      /\ \A i \in 1..(Len(u) - k) : unackedByServer'[i] = u[i + k] /\ i + k \in 1..Len(u)
  BY <1>1, DropParts
<1>3. ~Resumed /\ ~Awaiting /\ prevUnacked = <<>> /\ (~isStarted => ~enableSent /\ ~enableQueued)
  BY DEF ControlInv, Resuming, Storing
<1>4. Joined => isStarted
  <2> SUFFICES ASSUME Joined, ~isStarted PROVE FALSE
    OBVIOUS
  <2>1. Holds(moduleQ, {"enabled", "resumed"})
    BY DEF Joined
  <2>2. PICK p \in 1..Len(moduleQ) : moduleQ[p].name \in {"enabled", "resumed"}
    BY <2>1, HoldsAt, QueueTypes
  <2>3. moduleQ[p].name # "resumed"
    <3> SUFFICES ASSUME moduleQ[p].name = "resumed" PROVE FALSE
      OBVIOUS
    <3>1. \E i \in 1..Len(moduleQ) : moduleQ[i].name \in {"resumed"}
      BY <2>2
    <3> QED  BY <1>3, <3>1, HoldsAt, QueueTypes DEF Resumed
  <2>4. After(p, {"didSendEnable"})
    BY <1>3, <2>2, <2>3 DEF ControlInv, Answering
  <2>5. \E i \in 1..Len(moduleQ) : moduleQ[i].name \in {"didSendEnable"}
    BY <2>4 DEF After
  <2>6. Posting
    BY <2>5, HoldsAt, QueueTypes DEF Posting
  <2> QED  BY <1>3, <2>6 DEF ControlInv, AskingOnce
<1>5. /\ Posting' <=> Posting
      /\ Resumed' <=> Resumed
      /\ Joined' <=> Joined
      /\ Live' <=> Live
      /\ Awaiting' => Awaiting
  <2>1. Shifted(moduleQ, moduleQ', d, Posts)
    <3>1. {} \subseteq Posts
      OBVIOUS
    <3> HIDE DEF Posts
    <3> QED  BY <3>1, ShiftedMore
  <2>2. d = 1 => moduleQ[1].name \notin Control
    BY DEF Control
  <2> HIDE DEF Posts
  <2> QED  BY <2>1, <2>2, PostsNoControl
<1>6. isStarted => Start = lastHandledByServer /\ Start' = lastHandledByServer + k
  BY <1>1 DEF Start
<1>7. Queues(r, t, b)'
  <2>1. PICK m, written : m = 0 /\ written = {}
    OBVIOUS
  <2>2. Shifted(c2s, c2s', m, written)
    BY <2>1, QueueTypes, ShiftedSame
  <2>3. Asking' => Asking
    BY DEF Asking, Holds
  <2>4. PICK more : more = {}
    OBVIOUS
  <2>5. /\ Shifted(moduleQ, moduleQ', d, more)
        /\ \A e \in more : e.name \notin {"didSend", "didSendEnable"}
        /\ d = 1 => moduleQ[1].name # "didSend"
        /\ \A e \in written : e.name \notin {"stanza", "enable"}
        /\ m = 1 => c2s[1].name # "stanza"
        /\ Queues(r, t, b) /\ sent \in Nat
    BY <2>1, <2>4, DataTypes DEF Data
  <2> QED  BY <1>5, <2>2, <2>3, <2>5, QueuesShifted
<1>8. SameLogs /\ LogsGrow
  BY SameSessions, SameLogsGrow
<1>9. Read(r)'
  BY <1>8, ReadSame DEF Data
<1>10. Reported(t)'
  <2>1. \A i \in 1..k : u[i].n \in received
    <3>1. (lastHandledByServer + k) - lastHandledByServer = k
      BY <1>1
    <3> QED  BY <3>1 DEF Acknowledges
  <2> QED  BY <1>3, <2>1, ReportedAcked DEF Data
<1>11. Lined(r, t, b)'
  <2>1. ASSUME isStarted
        PROVE  /\ t = b + (lastHandledByServer + k) + Len(unackedByServer')
               /\ \A i \in 1..Len(unackedByServer') :
                     unackedByServer'[i].n = b + (lastHandledByServer + k) + i
    <3>1. /\ t = b + lastHandledByServer + Len(u)
          /\ \A i \in 1..Len(u) : u[i].n = b + lastHandledByServer + i
      BY <1>6, <2>1 DEF Data, Lined, Live
    <3>2. t = b + (lastHandledByServer + k) + Len(unackedByServer')
      <4>0. Len(u) \in Nat /\ k \in 0..Len(u) /\ Len(unackedByServer') = Len(u) - k
        BY <1>1, <1>2, DataTypes, OutgoingTypes
      <4>1. PICK x, n, l \in Nat : /\ x = lastHandledByServer /\ n = Len(u)
                                    /\ l = Len(unackedByServer')
        BY <1>1, <4>0
      <4>2. l = n - k /\ t = b + x + n /\ k \in 0..n
        BY <3>1, <4>0, <4>1
      <4>3. t = b + (x + k) + l
        BY <4>2
      <4> QED  BY <4>1, <4>3
    <3>3. ASSUME NEW i \in 1..Len(unackedByServer')
          PROVE  unackedByServer'[i].n = b + (lastHandledByServer + k) + i
      <4>1. i \in 1..(Len(u) - k)
        BY <1>2
      <4>2. unackedByServer'[i] = u[i + k] /\ i + k \in 1..Len(u)
        BY <1>2, <4>1
      <4>3. u[i + k].n = b + lastHandledByServer + (i + k)
        BY <3>1, <4>2
      <4>4. b + lastHandledByServer + (i + k) = b + (lastHandledByServer + k) + i
        <5>1. PICK x \in Nat : x = lastHandledByServer
          BY <1>1
        <5>2. i \in Nat /\ k \in Nat
          BY <1>1, <4>1
        <5>3. b + x + (i + k) = b + (x + k) + i
          BY <5>2
        <5> QED  BY <5>1, <5>3
      <4> QED  BY <4>2, <4>3, <4>4
    <3> QED  BY <3>2, <3>3
  <2>2. ASSUME Joined
        PROVE  /\ attached \in 1..Len(sessions) /\ r = b + Len(Log(attached))
               /\ lastHandledByServer + k <= Len(Log(attached))
               /\ \A j \in (lastHandledByServer + k + 1)..Len(Log(attached)) : Log(attached)[j] = b + j
    <3>1. isStarted /\ attached = session
      BY <1>4, <2>2 DEF ControlInv, Storing
    <3>2. /\ attached \in 1..Len(sessions) /\ r = b + Len(Log(attached))
          /\ \A j \in (lastHandledByServer + 1)..Len(Log(attached)) : Log(attached)[j] = b + j
      BY <1>6, <2>2, <3>1 DEF Data, Lined
    <3>3. lastHandledByServer + k <= Len(Log(attached))
      BY <3>1 DEF Acknowledges
    <3>4. \A j \in (lastHandledByServer + k + 1)..Len(Log(attached)) :
             j \in (lastHandledByServer + 1)..Len(Log(attached))
      BY <1>1
    <3> QED  BY <3>2, <3>3, <3>4
  <2>3. Live' => isStarted
    BY <1>3, <1>5 DEF Live
  <2> QED  BY <1>4, <1>5, <1>6, <2>1, <2>2, <2>3 DEF Lined, Log
<1>12. Acks(b)'
  <2>1. Joined => attached \in 1..Len(sessions)
    BY DEF Data, Lined
  <2>2. ASSUME NEW i \in 1..Len(moduleQ), i > d, moduleQ[i].name = "a"
        PROVE  /\ Start' <= moduleQ[i].arg
               /\ \A j \in 1..Len(unprocessedAcks') : unprocessedAcks'[j] <= moduleQ[i].arg
    <3>1. isStarted
      BY <1>4, <2>2 DEF Data, Acks
    <3> QED  BY <1>6, <2>2, <3>1
  <2>3. PICK more : more = {}
    OBVIOUS
  <2> QED  BY <1>5, <1>8, <2>1, <2>2, <2>3, AcksKept DEF Data
<1>13. Stores(r, b)'
  <2>1. CASE isStarted
    <3>1. \A i \in 1..Len(unackedByServer') : unackedByServer'[i].n = b + (lastHandledByServer + k) + i
      BY <1>6, <1>11, <2>1 DEF Lined, Live
    <3> QED  BY <1>1, <2>1, <3>1 DEF Data, Stores, Reporting
  <2>2. CASE ~isStarted
    <3>1. SUFFICES ASSUME ~Dead(store.id)'
                   PROVE  /\ Continues(r, b, store.id, store.hs, store.pending)'
                          /\ Continues(r, b, store.id, lastHandledByServer, unackedByServer)'
      BY <2>2 DEF Stores
    <3>2. ~Dead(store.id) /\ store'.id = store.id /\ store.id \in 1..Len(sessions)
      BY <3>1, DataTypes, SessionTypes DEF Dead, Reporting
    <3>3. /\ Continues(r, b, store.id, store.hs, store.pending)
          /\ Continues(r, b, store.id, lastHandledByServer, unackedByServer)
      BY <1>3, <2>2, <3>2 DEF Data, Stores
    <3>4. lastHandledByServer + k <= Len(Log(store.id)) /\ Len(Log(store.id)) \in Nat
      BY <3>2, DataTypes DEF Acknowledges
    <3>5. Continues(r, b, store.id, lastHandledByServer + k, Drop(u, k))
      <4> DEFINE L == Len(Log(store.id))
      <4>1. ASSUME NEW i \in 1..(Len(u) - k)
            PROVE  /\ (lastHandledByServer + k) + i <= L =>
                         Log(store.id)[(lastHandledByServer + k) + i] = u[i + k].n
                   /\ attached = store.id /\ (lastHandledByServer + k) + i > L =>
                         u[i + k].n = b + (lastHandledByServer + k) + i
        <5>1. /\ (lastHandledByServer + k) + i = lastHandledByServer + (i + k)
              /\ b + (lastHandledByServer + k) + i = b + lastHandledByServer + (i + k)
              /\ i + k \in 1..Len(u)
          BY <1>1
        <5> QED  BY <3>3, <5>1 DEF Continues, Aligned
      <4>2. attached = store.id => r = b + L
        BY <3>3 DEF Continues
      <4> HIDE DEF u
      <4>3. \A i \in 1..Len(Drop(u, k)) : Drop(u, k)[i] = u[i + k] /\ i \in 1..(Len(u) - k)
        BY <1>1, <1>2
      <4> QED  BY <3>4, <4>1, <4>2, <4>3 DEF Continues, Aligned
    <3>6. Continues(r, b, store.id, lastHandledByServer, unackedByServer)'
      BY <1>1, <3>2, <3>5 DEF Continues, Aligned, Log
    <3>7. CASE k = 0 /\ store'.hs = store.hs /\ store'.pending = store.pending
      BY <3>2, <3>3, <3>6, <3>7 DEF Continues, Aligned, Log
    <3>8. CASE store'.hs = lastHandledByServer' /\ store'.pending = unackedByServer'
      BY <3>6, <3>8 DEF Continues, Aligned, Log
    <3> QED  BY <3>6, <3>7, <3>8 DEF Reporting
  <2> QED  BY <2>1, <2>2
<1>14. Prior'
  BY <1>3, <1>5 DEF Prior
<1> QED  BY <1>7, <1>9, <1>10, <1>11, <1>12, <1>13, <1>14

-----------------------------------------------------------------------------
(* An ack arrives and is processed, now or once the ids it waits for are known. *)

LEMMA JoinedAfresh ==
    ASSUME Inv, ControlInv, Joined, ~isStarted
    PROVE  unprocessedAcks = <<>> /\ (enableSent \/ enableQueued \/ Resumed)
<1>1. Holds(moduleQ, {"enabled", "resumed"})
  BY DEF Joined
<1>2. PICK p \in 1..Len(moduleQ) : moduleQ[p].name \in {"enabled", "resumed"}
  BY <1>1, HoldsAt, QueueTypes
<1>3. CASE moduleQ[p].name = "resumed"
  <2>1. \E i \in 1..Len(moduleQ) : moduleQ[i].name \in {"resumed"}
    BY <1>3
  <2>2. Resumed
    BY <2>1, HoldsAt, QueueTypes DEF Resumed
  <2> QED  BY <2>2 DEF ControlInv, Resuming
<1>4. CASE moduleQ[p].name = "enabled"
  <2>1. enableSent \/ After(p, {"didSendEnable"})
    BY <1>4 DEF ControlInv, Answering
  <2>2. ASSUME After(p, {"didSendEnable"}) PROVE enableQueued
    <3>1. \E i \in 1..Len(moduleQ) : moduleQ[i].name \in {"didSendEnable"}
      BY <2>2 DEF After
    <3>2. Posting
      BY <3>1, HoldsAt, QueueTypes DEF Posting
    <3> QED  BY <3>2 DEF ControlInv, AskingOnce
  <2> QED  BY <2>1, <2>2 DEF ControlInv, Storing
<1> QED  BY <1>2, <1>3, <1>4

LEMMA AckArrivesData ==
    ASSUME Inv, Inv', QueueInv, ControlInv, NoWrap, attached # 0, conn # "closed",
           ServerHandlesRequest \/ ServerSendsAck,
           NEW r \in Nat, NEW t \in Nat, NEW b \in Nat, Data(r, t, b)
    PROVE  Data(r, t, b)'
<1> DEFINE e == Element("a", HandledCount(attached), 0)
<1>1. /\ conn = "bound" /\ attached \in 1..Len(sessions)
      /\ moduleQ' = Append(moduleQ, e) /\ e \in ElementSet
      /\ c2s' = c2s \/ (c2s # <<>> /\ c2s' = Tail(c2s) /\ c2s[1].name = "r")
      /\ UNCHANGED <<conn, sent, attached, sessions, received, reported, isStarted, enableSent,
                     lastHandledByServer, unackedByServer, prevUnacked, unprocessedAcks,
                     draining, store, session>>
  BY ServerAckArrives DEF serverVars, moduleVars, flagVars, outVars, histVars
<1>2. e.name = "a" /\ e.arg = Len(Log(attached)) /\ Len(Log(attached)) \in Nat
  BY <1>1, CountIsLength DEF Element
<1> HIDE DEF e
<1>3. Shifted(moduleQ, moduleQ', 0, {e})
  BY <1>1, QueueTypes, ShiftedAppend
<1>4. PICK d, more : d = 0 /\ more = {e}
  OBVIOUS
<1>5. PICK k, written : written = {} /\ Shifted(c2s, c2s', k, written) /\ (k = 1 => c2s[1].name = "r")
  <2>1. PICK none : none = {}
    OBVIOUS
  <2>2. CASE c2s' = c2s
    <3>1. PICK k : k = 0
      OBVIOUS
    <3>2. Shifted(c2s, c2s', k, none)
      BY <2>2, <3>1, QueueTypes, ShiftedSame
    <3> QED  BY <2>1, <3>1, <3>2
  <2>3. CASE c2s # <<>> /\ c2s' = Tail(c2s) /\ c2s[1].name = "r"
    <3>1. Shifted(c2s, c2s', 1, none)
      BY <2>3, QueueTypes, ShiftedTail
    <3> QED  BY <2>1, <2>3, <3>1
  <2> QED  BY <1>1, <2>2, <2>3
<1>6. Shifted(moduleQ, moduleQ', d, more) /\ d # 1
  BY <1>3, <1>4
<1>7. /\ Posting' <=> Posting
      /\ Resumed' <=> Resumed
      /\ Joined' <=> Joined
      /\ Live' <=> Live
      /\ Awaiting' => Awaiting
      /\ Resumed => moduleQ'[1] = moduleQ[1]
  <2>1. more \subseteq Posts
    BY <1>1, <1>2, <1>4 DEF Posts, Control
  <2> HIDE DEF Posts
  <2>2. Shifted(moduleQ, moduleQ', d, Posts)
    BY <1>6, <2>1, ShiftedMore
  <2> QED  BY <1>1, <1>4, <2>2, PostsNoControl
<1>8. Asking' => Asking
  <2>1. c2s \in Seq(ElementSet) /\ c2s' \in Seq(ElementSet)
    BY DEF Inv, TypeOK, StreamTypeOK
  <2>2. \A x \in written : x.name \notin {"enable"}
    BY <1>5
  <2> QED  BY <1>5, <2>1, <2>2, ShiftedHolds DEF Asking
<1>9. SameLogs /\ Rewriting
  BY <1>1, SameSessions DEF Rewriting
<1>10. /\ Queues(r, t, b)' /\ Read(r)' /\ Reported(t)' /\ Kept' /\ Stores(r, b)' /\ Prior'
       /\ Start' = Start /\ LogsGrow
  <2>1. \A x \in more : x.name \notin {"didSend", "didSendEnable"}
    BY <1>2, <1>4
  <2>2. \A x \in written : x.name \notin {"stanza", "enable"}
    BY <1>5
  <2>3. (d = 1 => moduleQ[1].name # "didSend") /\ (k = 1 => c2s[1].name # "stanza")
    BY <1>4, <1>5
  <2> QED  BY <1>1, <1>5, <1>6, <1>7, <1>8, <1>9, <2>1, <2>2, <2>3, DataStanding
<1>11. Lined(r, t, b)'
  BY <1>1, <1>7, <1>9, LinedSame DEF Data
<1>12. Joined /\ Start <= Len(Log(attached)) /\ Start \in Nat
  <2>1. Joined
    BY <1>1 DEF ControlInv, Answering
  <2> QED  BY <2>1, StartType DEF Data, Lined
<1>13. \A j \in 1..Len(unprocessedAcks) : unprocessedAcks[j] <= Len(Log(attached))
  <2>1. CASE isStarted
    BY <2>1 DEF ControlInv, Storing, Data, Kept, Acknowledges
  <2>2. CASE ~isStarted
    <3>1. Len(unprocessedAcks) = 0
      BY <1>12, <2>2, JoinedAfresh
    <3> QED  BY <3>1
  <2> QED  BY <2>1, <2>2
<1>14. Len(moduleQ) \in Nat /\ \A i \in 1..Len(moduleQ') : \/ i \in 1..Len(moduleQ) /\ moduleQ'[i] = moduleQ[i]
                                                           \/ i = Len(moduleQ) + 1 /\ moduleQ'[i] = e
  BY <1>1, QueueTypes, AppendProperties
<1>15. Acks(b)'
  <2> SUFFICES ASSUME NEW i \in 1..Len(moduleQ'), moduleQ'[i].name = "a"
               PROVE  /\ Joined /\ Start <= moduleQ'[i].arg /\ moduleQ'[i].arg <= Len(Log(attached))
                      /\ \A j \in 1..Len(moduleQ') : i < j =>
                            /\ moduleQ'[j].name = "a" => moduleQ'[i].arg <= moduleQ'[j].arg
                            /\ moduleQ'[j].name = "didSend" => moduleQ'[j].arg > b + moduleQ'[i].arg
                      /\ \A j \in 1..Len(unprocessedAcks) : unprocessedAcks[j] <= moduleQ'[i].arg
    BY <1>1, <1>7, <1>10 DEF Acks, Log
  <2>1. CASE i \in 1..Len(moduleQ) /\ moduleQ'[i] = moduleQ[i]
    <3>1. /\ Start <= moduleQ[i].arg /\ moduleQ[i].arg <= Len(Log(attached))
          /\ \A j \in 1..Len(moduleQ) : i < j =>
                /\ moduleQ[j].name = "a" => moduleQ[i].arg <= moduleQ[j].arg
                /\ moduleQ[j].name = "didSend" => moduleQ[j].arg > b + moduleQ[i].arg
          /\ \A j \in 1..Len(unprocessedAcks) : unprocessedAcks[j] <= moduleQ[i].arg
      BY <2>1 DEF Data, Acks
    <3>2. \A j \in 1..Len(moduleQ') : i < j =>
             /\ moduleQ'[j].name = "a" => moduleQ[i].arg <= moduleQ'[j].arg
             /\ moduleQ'[j].name = "didSend" => moduleQ'[j].arg > b + moduleQ[i].arg
      BY <1>2, <1>14, <3>1
    <3> QED  BY <1>12, <2>1, <3>1, <3>2
  <2>2. CASE i = Len(moduleQ) + 1 /\ moduleQ'[i] = e
    <3>1. \A j \in 1..Len(moduleQ') : ~(i < j)
      BY <1>14, <2>2
    <3> QED  BY <1>2, <1>12, <1>13, <2>2, <3>1
  <2> QED  BY <1>14, <2>1, <2>2
<1> QED  BY <1>10, <1>11, <1>15 DEF Data

LEMMA AcknowledgesLess ==
    ASSUME Inv, NEW h \in Nat, Acknowledges(h), NEW g \in Nat, lastHandledByServer <= g, g <= h
    PROVE  Acknowledges(g)
<1>1. lastHandledByServer \in Nat /\ Len(unackedByServer) \in Nat /\ sent \in Nat
  BY OutgoingTypes, DataTypes
<1>2. /\ g <= lastHandledByServer + Len(unackedByServer) /\ g <= sent
      /\ \A i \in 1..(g - lastHandledByServer) : i \in 1..(h - lastHandledByServer)
  BY <1>1 DEF Acknowledges
<1>3. \A s \in 1..Len(sessions) : Len(Log(s)) \in Nat
  BY DataTypes
<1>4. \A n : n \in Nat /\ h <= n => g <= n
  OBVIOUS
<1>5. isStarted => Len(Log(session)) \in Nat \/ h <= Len(Log(session))
  BY DEF Acknowledges
<1>6. \A i \in 1..(g - lastHandledByServer) : unackedByServer[i].n \in received
  BY <1>2 DEF Acknowledges
<1>7. ~Dead(store.id) => store.id \in 1..Len(sessions)
  BY DataTypes, SessionTypes DEF Dead
<1>8. ~Dead(store.id) => g <= Len(Log(store.id))
  BY <1>3, <1>4, <1>7 DEF Acknowledges
<1> QED  BY <1>2, <1>6, <1>8 DEF Acknowledges

\* An <a/> counts stanzas that the module knows of, and that the server has handled.
LEMMA AckIsTrue ==
    ASSUME Inv, ControlInv, NoWrap, isStarted, 1 \in 1..Len(moduleQ), moduleQ[1].name = "a",
           NEW r \in Nat, NEW t \in Nat, NEW b \in Nat, Data(r, t, b)
    PROVE  /\ moduleQ[1].arg \in Nat /\ moduleQ[1].arg < Modulus /\ Acknowledges(moduleQ[1].arg)
           /\ \A i \in 1..Len(moduleQ) : moduleQ[i].name = "a" => moduleQ[1].arg <= moduleQ[i].arg
           /\ \A j \in 1..Len(unprocessedAcks) : unprocessedAcks[j] <= moduleQ[1].arg
<1>1. PICK h \in Nat : h = moduleQ[1].arg
  BY DataTypes
<1>2. /\ Start = lastHandledByServer /\ lastHandledByServer \in Nat
      /\ Len(unackedByServer) \in Nat /\ sent \in Nat
  BY OutgoingTypes, DataTypes DEF Start
<1>3. /\ Joined /\ lastHandledByServer <= h /\ h <= Len(Log(attached))
      /\ \A j \in 1..Len(moduleQ) : 1 < j =>
            /\ moduleQ[j].name = "a" => h <= moduleQ[j].arg
            /\ moduleQ[j].name = "didSend" => moduleQ[j].arg > b + h
      /\ \A j \in 1..Len(unprocessedAcks) : unprocessedAcks[j] <= h
  BY <1>1, <1>2 DEF Data, Acks
<1>4. /\ attached \in 1..Len(sessions) /\ r = b + Len(Log(attached))
      /\ \A k \in (lastHandledByServer + 1)..Len(Log(attached)) : Log(attached)[k] = b + k
      /\ t = b + lastHandledByServer + Len(unackedByServer)
      /\ \A i \in 1..Len(unackedByServer) : unackedByServer[i].n = b + lastHandledByServer + i
  BY <1>2, <1>3 DEF Data, Lined, Live
<1>5. attached = session /\ store.id \in {0, session}
  BY DEF ControlInv, Storing
<1>6. PICK n \in Nat : n = Len(Log(attached))
  BY <1>4, DataTypes
<1>7. n < Modulus /\ r <= sent /\ h < Modulus
  <2>1. n <= r /\ r <= sent /\ sent < Modulus
    BY <1>4, <1>6, CountIsLength
  <2> QED  BY <1>2, <1>3, <1>6, <2>1, BoundsAssumption
<1>8. b + h <= t
  <2> SUFFICES ASSUME ~(b + h <= t) PROVE FALSE
    OBVIOUS
  <2>0. h <= n /\ r = b + n /\ r <= sent /\ sent \in Nat
    BY <1>2, <1>3, <1>4, <1>6, <1>7
  <2>1. t + 1 <= b + h /\ t + 1 \in (t + 1)..sent
    BY <2>0
  <2>2. PICK i \in 1..Len(moduleQ) : moduleQ[i].name = "didSend" /\ moduleQ[i].arg = t + 1
    BY <2>1 DEF Data, Queues, InOrder
  <2>3. i # 1 /\ Len(moduleQ) \in Nat
    BY <2>2, DataTypes
  <2>4. 1 < i
    BY <2>3
  <2>5. moduleQ[i].arg > b + h
    BY <1>3, <2>2, <2>4
  <2> QED  BY <2>1, <2>2, <2>5
<1>9. h <= lastHandledByServer + Len(unackedByServer) /\ h <= sent
  <2>1. PICK x, l, s \in Nat : x = lastHandledByServer /\ l = Len(unackedByServer) /\ s = sent
    BY DataTypes, OutgoingTypes
  <2>2. t = b + x + l /\ h <= n /\ r = b + n /\ r <= s
    BY <1>2, <1>3, <1>4, <1>6, <1>7, <2>1
  <2>3. h <= x + l /\ h <= s
    BY <1>8, <2>2
  <2> QED  BY <2>1, <2>3
<1>10. \A i \in 1..(h - lastHandledByServer) : unackedByServer[i].n \in received
  <2> TAKE i \in 1..(h - lastHandledByServer)
  <2>1. i \in 1..Len(unackedByServer) /\ lastHandledByServer + i \in (lastHandledByServer + 1)..n
        /\ lastHandledByServer + i \in 1..n /\ b + lastHandledByServer + i = b + (lastHandledByServer + i)
    BY <1>2, <1>3, <1>6, <1>9
  <2>2. Log(attached)[lastHandledByServer + i] = unackedByServer[i].n
    BY <1>4, <1>6, <2>1
  <2>3. Log(attached)[lastHandledByServer + i] \in received
    BY <1>4, <1>6, <2>1 DEF Data, Read
  <2> QED  BY <2>2, <2>3
<1>11. ~Dead(store.id) => h <= Len(Log(store.id))
  BY <1>3, <1>5 DEF Dead
<1>12. Acknowledges(h)
  BY <1>3, <1>5, <1>9, <1>10, <1>11 DEF Acknowledges
<1>13. \A i \in 1..Len(moduleQ) : moduleQ[i].name = "a" => h <= moduleQ[i].arg
  <2> TAKE i \in 1..Len(moduleQ)
  <2>1. i = 1 \/ 1 < i
    BY DataTypes
  <2> QED  BY <1>1, <1>3, <2>1
<1>14. \A j \in 1..Len(unprocessedAcks) : unprocessedAcks[j] <= h
  BY <1>3
<1>15. Acknowledges(moduleQ[1].arg)
  BY <1>1, <1>12
<1> QED  BY <1>1, <1>7, <1>13, <1>14, <1>15

\* What a processed ack does, as AckedData takes it.
LEMMA AckReports ==
    ASSUME Inv, NEW h \in Nat, h < Modulus, Acknowledges(h), ProcessAck(h)
    PROVE  \E k \in 0..(h - lastHandledByServer) :
              /\ Reporting(k) /\ Acknowledges(lastHandledByServer + k)
              /\ reports' = reports + Cardinality({i \in 1..k : unackedByServer[i].id # 0})
              /\ \A i \in 1..k : ~unackedByServer[i].awaiting
              /\ AckComplete(h) <=> k = h - lastHandledByServer
              /\ k < h - lastHandledByServer => unackedByServer[k + 1].awaiting
<1>1. /\ lastHandledByServer \in Nat /\ Len(unackedByServer) \in Nat
      /\ lastHandledByServer <= h /\ h <= lastHandledByServer + Len(unackedByServer)
  BY OutgoingTypes DEF Acknowledges
<1>2. PICK k \in 0..(h - lastHandledByServer) :
         /\ k \in 0..Len(unackedByServer)
         /\ lastHandledByServer' = lastHandledByServer + k
         /\ unackedByServer' = Drop(unackedByServer, k)
         /\ reported' = reported \cup IdsOf(unackedByServer, k)
         /\ reports' = reports + Cardinality({i \in 1..k : unackedByServer[i].id # 0})
         /\ \A i \in 1..k : ~unackedByServer[i].awaiting
         /\ AckComplete(h) <=> k = h - lastHandledByServer
         /\ k < h - lastHandledByServer => unackedByServer[k + 1].awaiting
         /\ \/ k = 0 /\ store' = store
            \/ store' = StoreOutgoing(lastHandledByServer', unackedByServer')
  BY <1>1, AckProcessed
<1>3. /\ store'.id = store.id
      /\ \/ k = 0 /\ store'.hs = store.hs /\ store'.pending = store.pending
         \/ store'.hs = lastHandledByServer' /\ store'.pending = unackedByServer'
  BY <1>2, StoreOutgoingParts
<1>4. Reporting(k)
  BY <1>2, <1>3 DEF Reporting
<1>5. Acknowledges(lastHandledByServer + k)
  <2>1. PICK g \in Nat : g = lastHandledByServer + k
    BY <1>1
  <2>2. lastHandledByServer <= g /\ g <= h
    BY <1>1, <2>1
  <2>3. Acknowledges(g)
    BY <2>2, AcknowledgesLess
  <2> QED  BY <2>1, <2>3
<1>6. /\ k \in 0..(h - lastHandledByServer)
      /\ reports' = reports + Cardinality({i \in 1..k : unackedByServer[i].id # 0})
      /\ \A i \in 1..k : ~unackedByServer[i].awaiting
      /\ AckComplete(h) <=> k = h - lastHandledByServer
      /\ k < h - lastHandledByServer => unackedByServer[k + 1].awaiting
  BY <1>2
<1> QED  BY <1>4, <1>5, <1>6

\* The kept acks: they are still true.
LEMMA KeptLater ==
    ASSUME Inv, Inv', NEW k, Reporting(k), UNCHANGED <<sent, received, sessions, isStarted, session>>,
           NEW w \in Seq(Nat), \A j \in 1..Len(w) : Acknowledges(w[j]) /\ lastHandledByServer + k <= w[j]
    PROVE  \A j \in 1..Len(w) : Acknowledges(w[j])'
<1> TAKE j \in 1..Len(w)
<1>1. PICK h \in Nat : h = w[j]
  BY ElementOfSeq
<1>2. Acknowledges(h) /\ lastHandledByServer + k <= h
  BY <1>1
<1>3. Acknowledges(h)'
  BY <1>2, AcknowledgesLater
<1> QED  BY <1>1, <1>3

LEMMA HandleAckData ==
    ASSUME Inv, Inv', QueueInv, ArmedInv, ControlInv, NoWrap, HandleAck,
           NEW r \in Nat, NEW t \in Nat, NEW b \in Nat, Data(r, t, b)
    PROVE  Data(r, t, b)'
<1>1. isStarted /\ moduleQ[1].name = "a" /\ 1 \in 1..Len(moduleQ)
  BY AckControl
<1>2. PICK h \in Nat : h = moduleQ[1].arg
  BY <1>1, DataTypes
<1>3. /\ moduleQ # <<>> /\ moduleQ' = Tail(moduleQ) /\ Head(moduleQ).arg = h /\ draining = "idle"
      /\ ProcessAck(h)
      /\ unprocessedAcks' = IF AckComplete(h) THEN unprocessedAcks ELSE Append(unprocessedAcks, h)
      /\ UNCHANGED <<conn, sent, c2s, attached, sessions, received, isStarted, enableSent,
                     prevUnacked, session, draining>>
  <2>1. Head(moduleQ) = moduleQ[1]
    BY <1>1, QueueTypes, ShiftedTail DEF HandleAck, Next_is
  <2> QED  BY <1>2, <2>1, Zenon DEF HandleAck, Next_is, QueueFree, streamVars, serverVars, flagVars
<1>4. /\ h < Modulus /\ Acknowledges(h)
      /\ \A i \in 1..Len(moduleQ) : moduleQ[i].name = "a" => h <= moduleQ[i].arg
      /\ \A j \in 1..Len(unprocessedAcks) : unprocessedAcks[j] <= h
  BY <1>1, <1>2, AckIsTrue
<1>5. PICK k \in 0..(h - lastHandledByServer) :
         /\ Reporting(k) /\ Acknowledges(lastHandledByServer + k)
         /\ \A i \in 1..k : ~unackedByServer[i].awaiting
         /\ AckComplete(h) <=> k = h - lastHandledByServer
         /\ k < h - lastHandledByServer => unackedByServer[k + 1].awaiting
  BY <1>3, <1>4, AckReports
<1>6. /\ lastHandledByServer \in Nat /\ Len(unackedByServer) \in Nat
      /\ lastHandledByServer <= h /\ h <= lastHandledByServer + Len(unackedByServer)
      /\ unprocessedAcks \in Seq(Nat) /\ Len(unprocessedAcks) \in Nat
      /\ \A j \in 1..Len(unprocessedAcks) : unprocessedAcks[j] \in Nat
  BY <1>4, OutgoingTypes DEF Acknowledges
<1>7. lastHandledByServer + k <= h /\ k \in Nat
  BY <1>6
<1>8. PICK d : d = 1 /\ Shifted(moduleQ, moduleQ', d, {})
  <2>1. Shifted(moduleQ, moduleQ', 1, {})
    BY <1>3, QueueTypes, ShiftedTail
  <2> QED  BY <2>1
<1>9. \/ unprocessedAcks' = unprocessedAcks /\ k = h - lastHandledByServer
      \/ /\ k < h - lastHandledByServer
         /\ Len(unprocessedAcks') = Len(unprocessedAcks) + 1
         /\ \A j \in 1..Len(unprocessedAcks) : unprocessedAcks'[j] = unprocessedAcks[j]
         /\ unprocessedAcks'[Len(unprocessedAcks) + 1] = h
  <2>1. k = h - lastHandledByServer \/ k < h - lastHandledByServer
    BY <1>6
  <2>2. CASE AckComplete(h)
    BY <1>3, <1>5, <2>2
  <2>3. CASE ~AckComplete(h)
    <3>1. k < h - lastHandledByServer /\ unprocessedAcks' = Append(unprocessedAcks, h)
      BY <1>3, <1>5, <2>1, <2>3
    <3> QED  BY <1>6, <3>1, AppendProperties
  <2> QED  BY <2>2, <2>3
<1>10. \A j \in 1..Len(unprocessedAcks') : \/ j \in 1..Len(unprocessedAcks) /\ unprocessedAcks'[j] = unprocessedAcks[j]
                                           \/ /\ j = Len(unprocessedAcks) + 1 /\ unprocessedAcks'[j] = h
                                              /\ k < h - lastHandledByServer
  BY <1>6, <1>9
<1>11. /\ Queues(r, t, b)' /\ Read(r)' /\ Reported(t)' /\ Lined(r, t, b)' /\ Acks(b)'
       /\ Stores(r, b)' /\ Prior'
  <2>1. ASSUME NEW i \in 1..Len(moduleQ), moduleQ[i].name = "a"
        PROVE  /\ lastHandledByServer + k <= moduleQ[i].arg
               /\ \A j \in 1..Len(unprocessedAcks') : unprocessedAcks'[j] <= moduleQ[i].arg
    <3>1. h <= moduleQ[i].arg /\ moduleQ[i].arg \in Nat
      BY <1>4, <2>1, DataTypes
    <3>2. ASSUME NEW j \in 1..Len(unprocessedAcks')
          PROVE  unprocessedAcks'[j] \in Nat /\ unprocessedAcks'[j] <= h
      <4>1. CASE j \in 1..Len(unprocessedAcks) /\ unprocessedAcks'[j] = unprocessedAcks[j]
        BY <1>4, <1>6, <4>1
      <4>2. CASE unprocessedAcks'[j] = h
        BY <4>2
      <4> QED  BY <1>10, <4>1, <4>2
    <3>3. lastHandledByServer + k <= moduleQ[i].arg
      BY <1>6, <1>7, <3>1
    <3>4. ASSUME NEW j \in 1..Len(unprocessedAcks') PROVE unprocessedAcks'[j] <= moduleQ[i].arg
      BY <3>1, <3>2
    <3> QED  BY <3>3, <3>4
  <2> QED  BY <1>1, <1>3, <1>5, <1>8, <2>1, AckedData
\* No ack that was kept is for less.
<1>12. unprocessedAcks # <<>> =>
          /\ 1 \in 1..Len(unprocessedAcks)
          /\ \E i \in (k + 1)..(unprocessedAcks[1] - lastHandledByServer) : unackedByServer[i].awaiting
  <2> SUFFICES ASSUME unprocessedAcks # <<>>
               PROVE  /\ 1 \in 1..Len(unprocessedAcks)
                      /\ \E i \in (k + 1)..(unprocessedAcks[1] - lastHandledByServer) :
                            unackedByServer[i].awaiting
    OBVIOUS
  <2>1. 1 \in 1..Len(unprocessedAcks)
    BY <1>6, EmptySeq
  <2>2. PICK i \in 1..(unprocessedAcks[1] - lastHandledByServer) : unackedByServer[i].awaiting
    BY <1>3 DEF Data, Kept
  <2>3. i \notin 1..k /\ unprocessedAcks[1] \in Nat
    BY <1>5, <1>6, <2>1, <2>2
  <2>4. i \in (k + 1)..(unprocessedAcks[1] - lastHandledByServer)
    BY <1>6, <1>7, <2>3
  <2> QED  BY <2>1, <2>2, <2>4
<1>13. \A j \in 1..Len(unprocessedAcks') :
          Acknowledges(unprocessedAcks'[j]) /\ lastHandledByServer + k <= unprocessedAcks'[j]
  <2> TAKE j \in 1..Len(unprocessedAcks')
  <2>1. CASE j \in 1..Len(unprocessedAcks) /\ unprocessedAcks'[j] = unprocessedAcks[j]
    <3>1. unprocessedAcks # <<>>
      BY <2>1
    <3>2. k + 1 <= unprocessedAcks[1] - lastHandledByServer
      <4>1. PICK x \in Nat, n \in Nat : x = unprocessedAcks[1] /\ n = lastHandledByServer
        BY <1>6, <1>12, <3>1
      <4>2. \E i : i \in (k + 1)..(x - n)
        BY <1>12, <3>1, <4>1
      <4>3. k + 1 <= x - n
        BY <1>7, <4>2
      <4> QED  BY <4>1, <4>3
    <3>3. unprocessedAcks[1] <= unprocessedAcks[j]
      <4>1. j = 1 \/ 1 < j
        BY <1>6, <2>1
      <4>2. \A i, l \in 1..Len(unprocessedAcks) : i < l => unprocessedAcks[i] <= unprocessedAcks[l]
        BY DEF Data, Kept
      <4>3. 1 \in 1..Len(unprocessedAcks) /\ unprocessedAcks[1] \in Nat
        BY <1>6, <1>12, <3>1
      <4> QED  BY <2>1, <4>1, <4>2, <4>3
    <3>4. lastHandledByServer + k <= unprocessedAcks[j]
      <4>1. PICK x, y : x = unprocessedAcks[1] /\ y = unprocessedAcks[j]
        OBVIOUS
      <4>2. x \in Nat /\ y \in Nat /\ x <= y /\ k + 1 <= x - lastHandledByServer
        BY <1>6, <1>12, <2>1, <3>1, <3>2, <3>3, <4>1
      <4>3. lastHandledByServer + k <= y
        BY <1>6, <1>7, <4>2
      <4> QED  BY <4>1, <4>3
    <3>5. Acknowledges(unprocessedAcks[j])
      BY <2>1 DEF Data, Kept
    <3> QED  BY <2>1, <3>4, <3>5
  <2>2. CASE unprocessedAcks'[j] = h
    BY <1>4, <1>7, <2>2
  <2> QED  BY <1>10, <2>1, <2>2
<1>14. Kept'
  <2>1. \A j \in 1..Len(unprocessedAcks') : Acknowledges(unprocessedAcks[j])'
    <3>1. PICK w \in Seq(Nat) : w = unprocessedAcks'
      BY DEF Inv, TypeOK, OutTypeOK
    <3>2. \A j \in 1..Len(w) : Acknowledges(w[j]) /\ lastHandledByServer + k <= w[j]
      BY <1>13, <3>1
    <3>3. \A j \in 1..Len(w) : Acknowledges(w[j])'
      BY <1>3, <1>5, <3>2, KeptLater
    <3> QED  BY <3>1, <3>3 DEF Acknowledges
  <2>2. \A i, j \in 1..Len(unprocessedAcks') : i < j => unprocessedAcks'[i] <= unprocessedAcks'[j]
    <3> SUFFICES ASSUME NEW i \in 1..Len(unprocessedAcks'), NEW j \in 1..Len(unprocessedAcks'), i < j
                 PROVE  unprocessedAcks'[i] <= unprocessedAcks'[j]
      OBVIOUS
    <3>1. i \in 1..Len(unprocessedAcks) /\ unprocessedAcks'[i] = unprocessedAcks[i]
      BY <1>6, <1>10
    <3>2. CASE j \in 1..Len(unprocessedAcks) /\ unprocessedAcks'[j] = unprocessedAcks[j]
      BY <3>1, <3>2 DEF Data, Kept
    <3>3. CASE unprocessedAcks'[j] = h
      BY <1>4, <3>1, <3>3
    <3> QED  BY <1>10, <3>2, <3>3
  <2>3. ASSUME unprocessedAcks' # <<>>
        PROVE  \E i \in 1..(unprocessedAcks'[1] - lastHandledByServer') : unackedByServer'[i].awaiting
    <3>1. /\ lastHandledByServer' = lastHandledByServer + k
          /\ k \in 0..Len(unackedByServer)
          /\ \A i \in 1..(Len(unackedByServer) - k) : unackedByServer'[i] = unackedByServer[i + k]
      BY DropParts, <1>5 DEF Reporting
    <3>2. 1 \in 1..Len(unprocessedAcks') /\ unprocessedAcks'[1] \in Nat
      <4>1. unprocessedAcks' \in Seq(Nat)
        BY DEF Inv, TypeOK, OutTypeOK
      <4>2. 1 \in 1..Len(unprocessedAcks')
        BY <2>3, <4>1, EmptySeq
      <4> QED  BY <4>1, <4>2, ElementOfSeq
    <3>3. /\ Acknowledges(unprocessedAcks'[1])
          /\ \E i \in (k + 1)..(unprocessedAcks'[1] - lastHandledByServer) : unackedByServer[i].awaiting
      <4>1. CASE unprocessedAcks = <<>>
        <5>1. unprocessedAcks'[1] = h /\ k < h - lastHandledByServer
          BY <1>10, <3>2, <4>1
        <5>2. k + 1 \in (k + 1)..(h - lastHandledByServer)
          BY <1>6, <1>7, <5>1
        <5> QED  BY <1>4, <1>5, <5>1, <5>2
      <4>2. CASE unprocessedAcks # <<>>
        <5>1. unprocessedAcks'[1] = unprocessedAcks[1]
          BY <1>6, <1>10, <1>12, <3>2, <4>2
        <5> QED  BY <1>12, <1>13, <3>2, <4>2, <5>1
      <4> QED  BY <4>1, <4>2
    <3>4. PICK i \in (k + 1)..(unprocessedAcks'[1] - lastHandledByServer) : unackedByServer[i].awaiting
      BY <3>3
    <3>5. unprocessedAcks'[1] - lastHandledByServer <= Len(unackedByServer)
      BY <1>6, <3>2, <3>3 DEF Acknowledges
    <3>6. /\ i - k \in 1..(Len(unackedByServer) - k) /\ (i - k) + k = i
          /\ i - k \in 1..(unprocessedAcks'[1] - lastHandledByServer')
      <4>1. PICK x \in Nat : x = unprocessedAcks'[1]
        BY <3>2
      <4>2. i \in (k + 1)..(x - lastHandledByServer) /\ x - lastHandledByServer <= Len(unackedByServer)
        BY <3>4, <3>5, <4>1
      <4>3. /\ i - k \in 1..(Len(unackedByServer) - k) /\ (i - k) + k = i
            /\ i - k \in 1..(x - (lastHandledByServer + k))
        BY <1>6, <1>7, <4>2
      <4> QED  BY <3>1, <4>1, <4>3
    <3> QED  BY <3>1, <3>4, <3>6
  <2> QED  BY <2>1, <2>2, <2>3 DEF Kept
<1> QED  BY <1>11, <1>14 DEF Data

\* A kept ack is true.
LEMMA KeptIsTrue ==
    ASSUME Inv, NoWrap, NEW r \in Nat, NEW t \in Nat, NEW b \in Nat, Data(r, t, b), unprocessedAcks # <<>>
    PROVE  /\ 1 \in 1..Len(unprocessedAcks)
           /\ unprocessedAcks[1] \in Nat /\ unprocessedAcks[1] < Modulus /\ Acknowledges(unprocessedAcks[1])
           /\ \A j \in 1..Len(unprocessedAcks) : /\ Acknowledges(unprocessedAcks[j])
                                                 /\ unprocessedAcks[1] <= unprocessedAcks[j]
           /\ \A i \in 1..Len(moduleQ) : moduleQ[i].name = "a" =>
                 \A j \in 1..Len(unprocessedAcks) : unprocessedAcks[j] <= moduleQ[i].arg
<1>1. 1 \in 1..Len(unprocessedAcks) /\ \A j \in 1..Len(unprocessedAcks) : unprocessedAcks[j] \in Nat
  BY OutgoingTypes, EmptySeq
<1>2. \A j \in 1..Len(unprocessedAcks) : Acknowledges(unprocessedAcks[j])
  BY DEF Data, Kept
<1>3. unprocessedAcks[1] < Modulus
  <2>1. PICK h \in Nat : h = unprocessedAcks[1]
    BY <1>1
  <2>2. h <= sent /\ sent <= MaxOut /\ sent \in Nat
    BY <1>1, <1>2, <2>1, DataTypes DEF Acknowledges, Data, Queues
  <2>3. h < Modulus
    BY <2>2, BoundsAssumption DEF NoWrap
  <2> QED  BY <2>1, <2>3
<1>4. \A j \in 1..Len(unprocessedAcks) : unprocessedAcks[1] <= unprocessedAcks[j]
  <2> TAKE j \in 1..Len(unprocessedAcks)
  <2>1. j = 1 \/ 1 < j
    BY OutgoingTypes
  <2> QED  BY <1>1, <2>1 DEF Data, Kept
<1>5. \A i \in 1..Len(moduleQ) : moduleQ[i].name = "a" =>
         \A j \in 1..Len(unprocessedAcks) : unprocessedAcks[j] <= moduleQ[i].arg
  BY DEF Data, Acks
<1> QED  BY <1>1, <1>2, <1>3, <1>4, <1>5

LEMMA DrainAckData ==
    ASSUME Inv, Inv', QueueInv, ControlInv, NoWrap, DrainAck,
           NEW r \in Nat, NEW t \in Nat, NEW b \in Nat, Data(r, t, b)
    PROVE  Data(r, t, b)'
<1>1. unprocessedAcks # <<>>
  BY DEF DrainAck
<1>2. PICK h \in Nat : h = unprocessedAcks[1]
  BY <1>1, KeptIsTrue
<1>3. /\ AckComplete(h) /\ ProcessAck(h) /\ unprocessedAcks' = Tail(unprocessedAcks)
      /\ draining' = "again"
      /\ UNCHANGED <<conn, sent, c2s, moduleQ, attached, sessions, received, isStarted, enableSent,
                     prevUnacked, session>>
  <2>1. Head(unprocessedAcks) = unprocessedAcks[1]
    BY <1>1, OutgoingTypes, ShiftedTail
  <2> QED  BY <1>2, <2>1 DEF DrainAck, streamVars, serverVars, flagVars
<1>4. /\ h < Modulus /\ Acknowledges(h)
      /\ \A j \in 1..Len(unprocessedAcks) : /\ Acknowledges(unprocessedAcks[j]) /\ unprocessedAcks[j] \in Nat
                                            /\ h <= unprocessedAcks[j]
      /\ \A i \in 1..Len(moduleQ) : moduleQ[i].name = "a" =>
            \A j \in 1..Len(unprocessedAcks) : unprocessedAcks[j] <= moduleQ[i].arg
  BY <1>1, <1>2, KeptIsTrue, OutgoingTypes
<1>5. PICK k \in 0..(h - lastHandledByServer) :
         /\ Reporting(k) /\ Acknowledges(lastHandledByServer + k)
         /\ AckComplete(h) <=> k = h - lastHandledByServer
  BY <1>3, <1>4, AckReports
<1>6. lastHandledByServer + k = h
  BY <1>3, <1>5, OutgoingTypes
<1>7. /\ Len(unprocessedAcks') \in Nat
      /\ \A j \in 1..Len(unprocessedAcks') : /\ unprocessedAcks'[j] = unprocessedAcks[j + 1]
                                             /\ j + 1 \in 1..Len(unprocessedAcks)
  <2>1. Shifted(unprocessedAcks, Tail(unprocessedAcks), 1, {})
    BY <1>1, OutgoingTypes, ShiftedTail
  <2> QED  BY <1>3, <2>1 DEF Shifted
<1>8. /\ Queues(r, t, b)' /\ Read(r)' /\ Reported(t)' /\ Lined(r, t, b)' /\ Acks(b)'
      /\ Stores(r, b)' /\ Prior'
  <2>1. PICK d : d = 0
    OBVIOUS
  <2>2. Shifted(moduleQ, moduleQ', d, {})
    BY <1>3, <2>1, QueueTypes, ShiftedSame
  <2>3. ASSUME NEW i \in 1..Len(moduleQ), moduleQ[i].name = "a"
        PROVE  /\ lastHandledByServer + k <= moduleQ[i].arg
               /\ \A j \in 1..Len(unprocessedAcks') : unprocessedAcks'[j] <= moduleQ[i].arg
    BY <1>1, <1>2, <1>4, <1>6, <1>7, <2>3, KeptIsTrue
  <2>4. /\ d = 1 => moduleQ[1].name = "a"
        /\ \A i \in 1..Len(moduleQ) : i > d /\ moduleQ[i].name = "a" =>
              /\ lastHandledByServer + k <= moduleQ[i].arg
              /\ \A j \in 1..Len(unprocessedAcks') : unprocessedAcks'[j] <= moduleQ[i].arg
    BY <2>1, <2>3
  <2>5. /\ d = 1 => moduleQ[1].name = "a"
        /\ \A i \in 1..Len(moduleQ) : i > d /\ moduleQ[i].name = "a" =>
              /\ lastHandledByServer + k <= moduleQ[i].arg
              /\ \A j \in 1..Len(unprocessedAcks') : unprocessedAcks'[j] <= moduleQ[i].arg
        /\ isStarted \/ unprocessedAcks # <<>>
        /\ UNCHANGED <<conn, sent, c2s, attached, sessions, received, isStarted, enableSent,
                       prevUnacked, session>>
        /\ Reporting(k) /\ Acknowledges(lastHandledByServer + k)
    BY <1>1, <1>3, <1>5, <2>4
  <2> QED  BY <2>2, <2>5, AckedData
<1>9. Kept'
  <2>1. PICK w \in Seq(Nat) : w = unprocessedAcks'
    BY DEF Inv, TypeOK, OutTypeOK
  <2>2. \A j \in 1..Len(w) : Acknowledges(w[j]) /\ lastHandledByServer + k <= w[j]
    BY <1>4, <1>6, <1>7, <2>1
  <2>3. \A j \in 1..Len(w) : Acknowledges(w[j])'
    BY <1>3, <1>5, <2>2, KeptLater
  <2>4. \A j \in 1..Len(unprocessedAcks') : Acknowledges(unprocessedAcks[j])'
    BY <2>1, <2>3 DEF Acknowledges
  <2>5. \A i, j \in 1..Len(unprocessedAcks') : i < j => unprocessedAcks'[i] <= unprocessedAcks'[j]
    <3> SUFFICES ASSUME NEW i \in 1..Len(unprocessedAcks'), NEW j \in 1..Len(unprocessedAcks'), i < j
                 PROVE  unprocessedAcks'[i] <= unprocessedAcks'[j]
      OBVIOUS
    <3>1. i + 1 < j + 1
      BY <1>7
    <3> QED  BY <1>7, <3>1 DEF Data, Kept
  <2> QED  BY <1>3, <2>4, <2>5 DEF Kept
<1> QED  BY <1>8, <1>9 DEF Data

\* What an ack reports that still waits for an id.
LEMMA BlockedReports ==
    ASSUME Inv, NoWrap, DrainBlocked, NEW r \in Nat, NEW t \in Nat, NEW b \in Nat, Data(r, t, b),
           NEW h, h = unprocessedAcks[1]
    PROVE  \E k \in 0..(h - lastHandledByServer) :
              /\ Reporting(k) /\ Acknowledges(lastHandledByServer + k)
              /\ k < h - lastHandledByServer /\ unackedByServer[k + 1].awaiting
              /\ \A i \in 1..k : ~unackedByServer[i].awaiting
<1>1. unprocessedAcks # <<>>
  BY DEF DrainBlocked
<1>2. Head(unprocessedAcks) = h
  BY <1>1, OutgoingTypes, ShiftedTail
<1>3. h \in Nat /\ h < Modulus /\ Acknowledges(h)
  BY <1>1, KeptIsTrue
<1>4. /\ lastHandledByServer \in Nat /\ Len(unackedByServer) \in Nat /\ unackedByServer \in Seq(OutgoingItem)
      /\ lastHandledByServer <= h /\ h <= lastHandledByServer + Len(unackedByServer)
  BY <1>3, OutgoingTypes DEF Acknowledges
<1>5. CASE ProcessAck(h)
  <2>1. ~AckComplete(h)
    BY <1>2 DEF DrainBlocked
  <2>2. PICK k \in 0..(h - lastHandledByServer) :
           /\ Reporting(k) /\ Acknowledges(lastHandledByServer + k)
           /\ \A i \in 1..k : ~unackedByServer[i].awaiting
           /\ AckComplete(h) <=> k = h - lastHandledByServer
           /\ k < h - lastHandledByServer => unackedByServer[k + 1].awaiting
    BY <1>3, <1>5, AckReports
  <2>3. k < h - lastHandledByServer
    BY <1>3, <1>4, <2>1, <2>2
  <2> QED  BY <2>2, <2>3
<1>6. CASE ~ProcessAck(h)
  <2> DEFINE n == h - lastHandledByServer
  <2>1. n \in 0..Len(unackedByServer) /\ Smaller(AckDiff(h), Len(unackedByServer)) = n
    BY <1>3, <1>4 DEF AckDiff, Smaller
  <2>2. /\ ~AckComplete(h) /\ KnownPrefix(unackedByServer, n) = 0
        /\ store' = StoreOutgoing(lastHandledByServer, unackedByServer)
        /\ UNCHANGED <<unackedByServer, lastHandledByServer, reported, reports>>
    BY <1>2, <1>6, <2>1 DEF DrainBlocked
  <2>3. 0 < n
    BY <2>1, <2>2 DEF AckComplete
  <2>4. unackedByServer[1].awaiting
    <3>1. KnownPrefix(unackedByServer, n) < n => unackedByServer[KnownPrefix(unackedByServer, n) + 1].awaiting
      BY <1>4, <2>1, KnownPrefixEnds
    <3> QED  BY <2>2, <2>3, <3>1
  <2>5. store'.id = store.id /\ store'.hs = lastHandledByServer /\ store'.pending = unackedByServer
    BY <2>2, StoreOutgoingParts
  <2>6. PICK k : k = 0
    OBVIOUS
  <2>7. Drop(unackedByServer, k) = unackedByServer /\ IdsOf(unackedByServer, k) = {}
    BY <1>4, <2>6, SubSeqFull DEF Drop, IdsOf
  <2>8. lastHandledByServer + k = lastHandledByServer /\ k \in 0..Len(unackedByServer)
        /\ k \in 0..(h - lastHandledByServer)
    BY <1>3, <1>4, <2>6
  <2>9. Reporting(k)
    BY <2>2, <2>5, <2>7, <2>8 DEF Reporting
  <2>10. Acknowledges(lastHandledByServer + k)
    <3>1. PICK g \in Nat : g = lastHandledByServer
      BY <1>4
    <3>2. Acknowledges(g)
      BY <1>3, <1>4, <3>1, AcknowledgesLess
    <3> QED  BY <2>8, <3>1, <3>2
  <2>11. /\ k < h - lastHandledByServer /\ unackedByServer[k + 1].awaiting
         /\ \A i \in 1..k : ~unackedByServer[i].awaiting
    BY <2>3, <2>4, <2>6
  <2> QED  BY <2>8, <2>9, <2>10, <2>11
<1> QED  BY <1>5, <1>6

LEMMA DrainBlockedData ==
    ASSUME Inv, Inv', QueueInv, ControlInv, NoWrap, DrainBlocked,
           NEW r \in Nat, NEW t \in Nat, NEW b \in Nat, Data(r, t, b)
    PROVE  Data(r, t, b)'
<1>1. unprocessedAcks # <<>>
  BY DEF DrainBlocked
<1>2. PICK h \in Nat : h = unprocessedAcks[1]
  BY <1>1, KeptIsTrue
<1>3. Head(unprocessedAcks) = h
  BY <1>1, <1>2, OutgoingTypes, ShiftedTail
<1>4. UNCHANGED <<conn, sent, c2s, moduleQ, attached, sessions, received, isStarted, enableSent,
                  prevUnacked, session, unprocessedAcks>>
  BY DEF DrainBlocked, streamVars, serverVars, flagVars
<1>5. /\ h < Modulus /\ Acknowledges(h) /\ 1 \in 1..Len(unprocessedAcks)
      /\ \A j \in 1..Len(unprocessedAcks) : /\ Acknowledges(unprocessedAcks[j]) /\ unprocessedAcks[j] \in Nat
                                            /\ h <= unprocessedAcks[j]
      /\ \A i \in 1..Len(moduleQ) : moduleQ[i].name = "a" =>
            \A j \in 1..Len(unprocessedAcks) : unprocessedAcks[j] <= moduleQ[i].arg
  BY <1>1, <1>2, KeptIsTrue, OutgoingTypes
<1>6. /\ lastHandledByServer \in Nat /\ Len(unackedByServer) \in Nat /\ unackedByServer \in Seq(OutgoingItem)
      /\ lastHandledByServer <= h /\ h <= lastHandledByServer + Len(unackedByServer)
  BY <1>5, OutgoingTypes DEF Acknowledges
<1>7. PICK k \in 0..(h - lastHandledByServer) :
         /\ Reporting(k) /\ Acknowledges(lastHandledByServer + k)
         /\ k < h - lastHandledByServer /\ unackedByServer[k + 1].awaiting
  BY <1>2, BlockedReports
<1>8. /\ lastHandledByServer + k <= h /\ lastHandledByServer' = lastHandledByServer + k
      /\ k \in Nat /\ k \in 0..Len(unackedByServer)
      /\ \A i \in 1..(Len(unackedByServer) - k) : unackedByServer'[i] = unackedByServer[i + k]
  <2>1. /\ lastHandledByServer' = lastHandledByServer + k /\ k \in 0..Len(unackedByServer)
        /\ unackedByServer' = Drop(unackedByServer, k)
    BY <1>7 DEF Reporting
  <2>2. \A i \in 1..(Len(unackedByServer) - k) : unackedByServer'[i] = unackedByServer[i + k]
    BY <2>1, DropParts
  <2> QED  BY <1>6, <1>7, <2>1, <2>2
<1>9. \A j \in 1..Len(unprocessedAcks) : lastHandledByServer + k <= unprocessedAcks[j]
  <2> TAKE j \in 1..Len(unprocessedAcks)
  <2>1. h <= unprocessedAcks[j] /\ unprocessedAcks[j] \in Nat
    BY <1>5
  <2> QED  BY <1>6, <1>8, <2>1
<1>10. /\ Queues(r, t, b)' /\ Read(r)' /\ Reported(t)' /\ Lined(r, t, b)' /\ Acks(b)'
       /\ Stores(r, b)' /\ Prior'
  <2>1. PICK d : d = 0
    OBVIOUS
  <2>2. Shifted(moduleQ, moduleQ', d, {})
    BY <1>4, <2>1, QueueTypes, ShiftedSame
  <2>3. ASSUME NEW i \in 1..Len(moduleQ), moduleQ[i].name = "a"
        PROVE  /\ lastHandledByServer + k <= moduleQ[i].arg
               /\ \A j \in 1..Len(unprocessedAcks') : unprocessedAcks'[j] <= moduleQ[i].arg
    <3>1. h <= moduleQ[i].arg /\ moduleQ[i].arg \in Nat
      BY <1>2, <1>5, <2>3, DataTypes
    <3>2. lastHandledByServer + k <= moduleQ[i].arg
      BY <1>6, <1>8, <3>1
    <3>3. \A j \in 1..Len(unprocessedAcks) : unprocessedAcks[j] <= moduleQ[i].arg
      BY <1>5, <2>3
    <3> QED  BY <1>4, <3>2, <3>3
  <2>4. /\ d = 1 => moduleQ[1].name = "a"
        /\ \A i \in 1..Len(moduleQ) : i > d /\ moduleQ[i].name = "a" =>
              /\ lastHandledByServer + k <= moduleQ[i].arg
              /\ \A j \in 1..Len(unprocessedAcks') : unprocessedAcks'[j] <= moduleQ[i].arg
        /\ isStarted \/ unprocessedAcks # <<>>
        /\ Reporting(k) /\ Acknowledges(lastHandledByServer + k)
    BY <1>1, <1>7, <2>1, <2>3
  <2> QED  BY <1>4, <2>2, <2>4, AckedData
<1>11. Kept'
  <2>1. PICK w \in Seq(Nat) : w = unprocessedAcks
    BY OutgoingTypes
  <2>2. \A j \in 1..Len(w) : Acknowledges(w[j]) /\ lastHandledByServer + k <= w[j]
    BY <1>5, <1>9, <2>1
  <2>3. \A j \in 1..Len(w) : Acknowledges(w[j])'
    BY <1>4, <1>7, <2>2, KeptLater
  <2>4. \A j \in 1..Len(unprocessedAcks') : Acknowledges(unprocessedAcks[j])'
    BY <1>4, <2>1, <2>3 DEF Acknowledges
  <2>5. \A i, j \in 1..Len(unprocessedAcks') : i < j => unprocessedAcks'[i] <= unprocessedAcks'[j]
    BY <1>4 DEF Data, Kept
  <2>6. \E i \in 1..(unprocessedAcks'[1] - lastHandledByServer') : unackedByServer'[i].awaiting
    <3>1. 1 \in 1..(h - (lastHandledByServer + k)) /\ 1 \in 1..(Len(unackedByServer) - k)
      BY <1>6, <1>7, <1>8
    <3>2. unackedByServer'[1].awaiting
      <4>1. unackedByServer'[1] = unackedByServer[1 + k] /\ 1 + k = k + 1
        BY <1>8, <3>1
      <4> QED  BY <1>7, <4>1
    <3> QED  BY <1>2, <1>4, <1>8, <3>1, <3>2
  <2> QED  BY <2>4, <2>5, <2>6 DEF Kept
<1> QED  BY <1>10, <1>11 DEF Data

-----------------------------------------------------------------------------
(* Steps that leave the counters alone.                                       *)

LEMMA DataShifted ==
    ASSUME Inv, Inv', QueueInv, ControlInv, SameLogs, Rewriting,
           NEW r \in Nat, NEW t \in Nat, NEW b \in Nat, Data(r, t, b),
           UNCHANGED <<sent, received, reported, attached, isStarted, enableSent,
                       lastHandledByServer, unackedByServer, unprocessedAcks, session>>,
           draining' = draining \/ unprocessedAcks = <<>>, prevUnacked' \in {prevUnacked, <<>>},
           NEW d, NEW more, Shifted(moduleQ, moduleQ', d, more),
           \A e \in more : e.name \notin {"didSend", "didSendEnable", "a", "enabled", "resumed"},
           d = 1 => moduleQ[1].name \notin {"didSend", "didSendEnable", "enabled", "resumed"},
           NEW k, NEW written, Shifted(c2s, c2s', k, written),
           \A e \in written : e.name \notin {"stanza", "enable"},
           k = 1 => c2s[1].name # "stanza",
           Awaiting' => Awaiting
    PROVE  Data(r, t, b)'
<1>1. /\ moduleQ \in Seq(ElementSet) /\ c2s \in Seq(ElementSet)
      /\ moduleQ' \in Seq(ElementSet) /\ c2s' \in Seq(ElementSet)
  BY DEF Inv, TypeOK, StreamTypeOK
<1>2. /\ Posting' => Posting
      /\ Resumed' <=> Resumed
      /\ Holds(moduleQ', {"enabled", "resumed"}) <=> Holds(moduleQ, {"enabled", "resumed"})
  <2>1. \A names \in {{"didSendEnable"}, {"resumed"}, {"enabled", "resumed"}} :
           (\A e \in more : e.name \notin names) /\ (d = 1 => moduleQ[1].name \notin names)
    OBVIOUS
  <2>2. \A names \in {{"didSendEnable"}, {"resumed"}, {"enabled", "resumed"}} :
           Holds(moduleQ', names) <=> Holds(moduleQ, names)
    <3> TAKE names \in {{"didSendEnable"}, {"resumed"}, {"enabled", "resumed"}}
    <3>1. PICK q, w \in Seq(ElementSet) : q = moduleQ /\ w = moduleQ'
      BY <1>1
    <3>2. /\ Shifted(q, w, d, more) /\ \A e \in more : e.name \notin names
          /\ d = 1 => q[1].name \notin names
      BY <2>1, <3>1
    <3>3. Holds(w, names) <=> Holds(q, names)
      BY <3>2, ShiftedHolds
    <3> QED  BY <3>1, <3>3
  <2>3. /\ Posting' <=> Holds(moduleQ', {"didSendEnable"})
        /\ Resumed' <=> Holds(moduleQ', {"resumed"})
    BY DEF Posting, Resumed, Holds
  <2> QED  BY <2>2, <2>3 DEF Posting, Resumed
<1>3. /\ Joined' <=> Joined
      /\ Live' <=> Live
  <2>1. Holds(moduleQ, {"enabled", "resumed"})' <=> Holds(moduleQ', {"enabled", "resumed"})
    BY DEF Holds
  <2> QED  BY <1>2, <2>1 DEF Joined, Live
<1>4. Asking' => Asking
  <2>1. \A e \in written : e.name \notin {"enable"}
    OBVIOUS
  <2>2. Holds(c2s', {"enable"}) => Holds(c2s, {"enable"})
    BY <1>1, <2>1, ShiftedHolds
  <2> QED  BY <2>2 DEF Asking, Holds
<1>5. Resumed => moduleQ'[1] = moduleQ[1]
  <2> SUFFICES ASSUME Resumed PROVE moduleQ'[1] = moduleQ[1]
    OBVIOUS
  <2>1. PICK i \in 1..Len(moduleQ) : moduleQ[i].name = "resumed"
    BY <1>1, HoldsAt DEF Resumed
  <2>2. i = 1 /\ Len(moduleQ) \in Nat
    BY <1>1, <2>1 DEF QueueInv, ResumedIsFirst
  <2>3. d = 0
    BY <2>1, <2>2 DEF Shifted
  <2> QED  BY <2>2, <2>3 DEF Shifted
<1>6. \A e \in more : e.name \notin {"didSend", "didSendEnable"}
  OBVIOUS
<1>7. d = 1 => moduleQ[1].name # "didSend"
  OBVIOUS
<1>8. /\ Queues(r, t, b)' /\ Read(r)' /\ Reported(t)' /\ Kept' /\ Stores(r, b)' /\ Prior'
      /\ Start' = Start /\ LogsGrow
  BY <1>2, <1>4, <1>5, <1>6, <1>7, DataStanding
<1>9. Lined(r, t, b)'
  BY <1>2, <1>3, <1>5, LinedSame DEF Data
<1>10. Acks(b)'
  <2>1. Joined => attached \in 1..Len(sessions)
    BY DEF Data, Lined
  <2>2. \A i \in 1..Len(moduleQ) : moduleQ[i].name = "a" =>
           Start' <= moduleQ[i].arg /\ \A j \in 1..Len(unprocessedAcks') : unprocessedAcks'[j] <= moduleQ[i].arg
    BY <1>8 DEF Data, Acks
  <2>3. \A e \in more : e.name # "a" /\ e.name # "didSend"
    OBVIOUS
  <2> QED  BY <1>3, <1>8, <2>1, <2>2, <2>3, AcksKept DEF Data
<1> QED  BY <1>8, <1>9, <1>10 DEF Data

LEMMA DrainDoneData ==
    ASSUME Inv, Inv', QueueInv, ControlInv, DrainDone,
           NEW r \in Nat, NEW t \in Nat, NEW b \in Nat, Data(r, t, b)
    PROVE  Data(r, t, b)'
<1>1. PICK d, k, more, written : d = 0 /\ k = 0 /\ more = {} /\ written = {}
  OBVIOUS
<1>2. /\ UNCHANGED <<conn, sent, received, reported, attached, isStarted, enableSent,
                     lastHandledByServer, unackedByServer, unprocessedAcks, session, moduleQ, c2s,
                     sessions, prevUnacked>>
      /\ unprocessedAcks = <<>>
  BY DEF DrainDone, streamVars, serverVars, flagVars, histVars
<1>3. Shifted(moduleQ, moduleQ', d, more) /\ Shifted(c2s, c2s', k, written)
  BY <1>1, <1>2, QueueTypes, ShiftedSame
<1>4. Rewriting
  BY StoreOutgoingParts DEF DrainDone, Rewriting
<1>5. SameLogs /\ (Awaiting' => Awaiting)
  BY <1>2, SameSessions DEF Awaiting
<1>6. /\ \A e \in more : e.name \notin {"didSend", "didSendEnable", "a", "enabled", "resumed"}
      /\ d = 1 => moduleQ[1].name \notin {"didSend", "didSendEnable", "enabled", "resumed"}
      /\ \A e \in written : e.name \notin {"stanza", "enable"}
      /\ k = 1 => c2s[1].name # "stanza"
  BY <1>1
<1> QED  BY <1>2, <1>3, <1>4, <1>5, <1>6, DataShifted

LEMMA BindingData ==
    ASSUME Inv, Inv', QueueInv, ControlInv, StartCustomBinding \/ StartStandardBinding,
           NEW r \in Nat, NEW t \in Nat, NEW b \in Nat, Data(r, t, b)
    PROVE  Data(r, t, b)'
<1>1. PICK d, k, written : d = 0 /\ k = 0 /\ written = {}
  OBVIOUS
<1>2. UNCHANGED <<sent, received, reported, attached, isStarted, enableSent,
                  lastHandledByServer, unackedByServer, unprocessedAcks, session, c2s,
                  sessions, prevUnacked, draining, store>>
  BY DEF StartCustomBinding, StartStandardBinding, serverVars, moduleVars, flagVars, outVars, histVars
<1>3. PICK more : /\ Shifted(moduleQ, moduleQ', d, more)
                  /\ \A e \in more : e.name \notin {"didSend", "didSendEnable", "a", "enabled", "resumed"}
  <2>1. CASE StartStandardBinding
    <3>1. PICK more : more = {}
      OBVIOUS
    <3>2. Shifted(moduleQ, moduleQ', d, more)
      BY <1>1, <2>1, QueueTypes, ShiftedSame DEF StartStandardBinding
    <3> QED  BY <3>1, <3>2
  <2>2. CASE StartCustomBinding
    <3>1. PICK e : e = Element("sendResume", 0, store.id)
      OBVIOUS
    <3>2. PICK more : more = {e}
      OBVIOUS
    <3>3. e \in ElementSet /\ e.name = "sendResume" /\ e \in more
      BY <3>1, <3>2, DataTypes DEF Element, ElementSet, ElementName
    <3>4. moduleQ' = Append(moduleQ, e)
      BY <2>2, <3>1 DEF StartCustomBinding
    <3>5. Shifted(moduleQ, moduleQ', d, more)
      BY <1>1, <3>3, <3>4, QueueTypes, ShiftedAppend
    <3> QED  BY <3>2, <3>3, <3>5
  <2> QED  BY <2>1, <2>2
<1>4. Shifted(c2s, c2s', k, written)
  BY <1>1, <1>2, QueueTypes, ShiftedSame
<1>5. Rewriting /\ SameLogs
  BY <1>2, SameSessions DEF Rewriting
<1>6. ~Awaiting'
  <2>1. CASE StartStandardBinding
    BY <2>1 DEF StartStandardBinding, Awaiting
  <2>2. CASE StartCustomBinding
    <3>1. moduleQ' # <<>>
      BY <2>2, QueueTypes DEF StartCustomBinding
    <3> QED  BY <3>1 DEF Awaiting
  <2> QED  BY <2>1, <2>2
<1>7. /\ d = 1 => moduleQ[1].name \notin {"didSend", "didSendEnable", "enabled", "resumed"}
      /\ \A e \in written : e.name \notin {"stanza", "enable"}
      /\ k = 1 => c2s[1].name # "stanza"
  BY <1>1
<1> QED  BY <1>2, <1>3, <1>4, <1>5, <1>6, <1>7, DataShifted

LEMMA ResumeFailedData ==
    ASSUME Inv, Inv', QueueInv, ControlInv, HandleResumeFailed,
           NEW r \in Nat, NEW t \in Nat, NEW b \in Nat, Data(r, t, b)
    PROVE  Data(r, t, b)'
<1>1. PICK d, k, more, written : d = 1 /\ k = 0 /\ more = {} /\ written = {}
  OBVIOUS
<1>2. /\ UNCHANGED <<conn, sent, received, reported, attached, isStarted, enableSent,
                     lastHandledByServer, unackedByServer, unprocessedAcks, session, c2s,
                     sessions, draining, store>>
      /\ prevUnacked' = <<>> /\ moduleQ # <<>> /\ moduleQ' = Tail(moduleQ)
      /\ Head(moduleQ).name = "resumeFailed"
  BY DEF HandleResumeFailed, Next_is, streamVars, serverVars, histVars
<1>3. Shifted(moduleQ, moduleQ', d, more) /\ Head(moduleQ) = moduleQ[1]
  BY <1>1, <1>2, QueueTypes, ShiftedTail
<1>4. Shifted(c2s, c2s', k, written)
  BY <1>1, <1>2, QueueTypes, ShiftedSame
<1>5. Rewriting /\ SameLogs
  BY <1>2, SameSessions DEF Rewriting
<1>6. ~Awaiting'
  BY <1>2, <1>3, ControlTaken
<1>7. /\ \A e \in more : e.name \notin {"didSend", "didSendEnable", "a", "enabled", "resumed"}
      /\ d = 1 => moduleQ[1].name \notin {"didSend", "didSendEnable", "enabled", "resumed"}
      /\ \A e \in written : e.name \notin {"stanza", "enable"}
      /\ k = 1 => c2s[1].name # "stanza"
  BY <1>1, <1>2, <1>3
<1> QED  BY <1>2, <1>3, <1>4, <1>5, <1>6, <1>7, DataShifted

LEMMA DisconnectData ==
    ASSUME Inv, Inv', QueueInv, ControlInv, Disconnect,
           NEW r \in Nat, NEW t \in Nat, NEW b \in Nat, Data(r, t, b)
    PROVE  Data(r, t, b)'
<1>1. PICK d, k, more, written : d = 0 /\ k = 0 /\ more = Ends /\ written = Closes
  OBVIOUS
<1>2. UNCHANGED <<sent, received, reported, attached, isStarted, enableSent,
                  lastHandledByServer, unackedByServer, unprocessedAcks, session,
                  sessions, prevUnacked, draining, store>>
  BY DEF Disconnect, serverVars, moduleVars, flagVars, outVars, histVars
<1>3. Shifted(moduleQ, moduleQ', d, more) /\ Shifted(c2s, c2s', k, written)
  BY <1>1, DisconnectPosts
<1>4. Rewriting /\ SameLogs
  BY <1>2, SameSessions DEF Rewriting
<1>5. ~Awaiting'
  BY DEF Awaiting, Disconnect
<1>6. /\ \A e \in more : e.name \notin {"didSend", "didSendEnable", "a", "enabled", "resumed"}
      /\ d = 1 => moduleQ[1].name \notin {"didSend", "didSendEnable", "enabled", "resumed"}
      /\ \A e \in written : e.name \notin {"stanza", "enable"}
      /\ k = 1 => c2s[1].name # "stanza"
  BY <1>1 DEF Ends, Closes
<1> QED  BY <1>2, <1>3, <1>4, <1>5, <1>6, DataShifted

LEMMA AnswerStanzaIdData ==
    ASSUME Inv, Inv', QueueInv, ControlInv, AnswerStanzaId,
           NEW r \in Nat, NEW t \in Nat, NEW b \in Nat, Data(r, t, b)
    PROVE  Data(r, t, b)'
<1> DEFINE u == unackedByServer
           w == unackedByServer'
<1>1. PICK n \in idQueries :
         w = [i \in DOMAIN u |-> IF u[i].n = n THEN Outgoing(n, StanzaId(n), FALSE) ELSE u[i]]
  BY DEF AnswerStanzaId
<1>2. /\ UNCHANGED <<conn, sent, c2s, moduleQ, attached, sessions, received, isStarted, enableSent,
                     reported, prevUnacked, session, unprocessedAcks, lastHandledByServer, store>>
      /\ draining' = "first"
  BY DEF AnswerStanzaId, streamVars, serverVars, flagVars, histVars
<1>3. u \in Seq(OutgoingItem) /\ w \in Seq(OutgoingItem) /\ n \in Nat
  BY DEF Inv, TypeOK, OutTypeOK
<1>4. Len(w) = Len(u) /\ Len(u) \in Nat /\ DOMAIN u = 1..Len(u)
  BY <1>1, <1>3
<1>5. \A i \in 1..Len(u) : w[i].n = u[i].n /\ (w[i].id = u[i].id \/ w[i].id \in {0, u[i].n})
  BY <1>1, <1>4 DEF Outgoing, StanzaId
<1> HIDE DEF u, w
<1>6. Posting' = Posting /\ Resumed' = Resumed /\ Joined' = Joined /\ Live' = Live /\ Start' = Start
      /\ Asking' = Asking /\ Awaiting' = Awaiting
  BY <1>2 DEF Posting, Resumed, Joined, Live, Start, Asking, Awaiting, Holds
<1>7. Queues(r, t, b)'
  BY <1>2, <1>6 DEF Data, Queues, InOrder, Divides
<1>8. Read(r)'
  BY <1>2, SameSessions, ReadSame DEF Data
<1>9. Reported(t)'
  <2>1. Waiting(u, t) /\ Waiting(prevUnacked, t) /\ Waiting(store.pending, t)
    BY DEF Data, Reported, u
  <2>2. \A i \in 1..Len(w) : w[i].n <= t /\ w[i].id \in {0, w[i].n} /\ \A m \in reported : m < w[i].n
    BY <1>4, <1>5, <2>1 DEF Waiting
  <2>3. \A i, j \in 1..Len(w) : i < j => w[i].n < w[j].n
    BY <1>4, <1>5, <2>1 DEF Waiting
  <2>4. Waiting(unackedByServer, t)'
    BY <1>2, <2>2, <2>3 DEF Waiting, w
  <2>5. Waiting(prevUnacked, t)' /\ Waiting(store.pending, t)'
    BY <1>2, <2>1 DEF Waiting
  <2> QED  BY <1>2, <2>4, <2>5 DEF Data, Reported
<1>10. Lined(r, t, b)'
  BY <1>2, <1>4, <1>5, <1>6 DEF Data, Lined, Log, u, w
<1>11. Acks(b)'
  BY <1>2, <1>6 DEF Data, Acks, Log
<1>12. Kept'
  <2>1. \A j \in 1..Len(unprocessedAcks) : Acknowledges(unprocessedAcks[j])'
    <3> SUFFICES ASSUME NEW j \in 1..Len(unprocessedAcks) PROVE Acknowledges(unprocessedAcks[j])'
      OBVIOUS
    <3>1. PICK h \in Nat : h = unprocessedAcks[j]
      BY OutgoingTypes
    <3>2. Acknowledges(h) /\ h <= lastHandledByServer + Len(u) /\ lastHandledByServer \in Nat
      BY <3>1, OutgoingTypes DEF Data, Kept, Acknowledges, u
    <3>3. \A i \in 1..(h - lastHandledByServer) : i \in 1..Len(u)
      BY <1>4, <3>2
    <3>4. \A i \in 1..(h - lastHandledByServer) : w[i].n \in received
      BY <1>5, <3>2, <3>3 DEF Acknowledges, u
    <3>5. Dead(store.id)' <=> Dead(store.id)
      BY <1>2 DEF Dead
    <3> QED  BY <1>2, <1>4, <3>1, <3>2, <3>4, <3>5 DEF Acknowledges, Log, u, w
  <2>2. \A j \in 1..Len(unprocessedAcks') : Acknowledges(unprocessedAcks[j])'
    BY <1>2, <2>1
  <2> QED  BY <1>2, <2>2 DEF Data, Kept
<1>13. Stores(r, b)'
  <2>1. Dead(store.id)' <=> Dead(store.id)
    BY <1>2 DEF Dead
  <2>2. \A i \in 1..Len(store.pending) : isStarted => store.pending[i].n = b + store.hs + i
    BY DEF Data, Stores
  <2>3. ASSUME ~Dead(store.id), ~isStarted, ~Resumed
        PROVE  Continues(r, b, store.id, store.hs, store.pending)'
               /\ Continues(r, b, store.id, lastHandledByServer, unackedByServer)'
    <3>1. /\ Continues(r, b, store.id, store.hs, store.pending)
          /\ Continues(r, b, store.id, lastHandledByServer, u)
      BY <2>3 DEF Data, Stores, u
    <3>2. Continues(r, b, store.id, store.hs, store.pending)'
      BY <1>2, <3>1 DEF Continues, Aligned, Log
    <3>3. Continues(r, b, store.id, lastHandledByServer, w)
      BY <1>4, <1>5, <3>1 DEF Continues, Aligned
    <3>4. Continues(r, b, store.id, lastHandledByServer, unackedByServer)'
      BY <1>2, <3>3 DEF Continues, Aligned, Log, w
    <3> QED  BY <3>2, <3>4
  <2> QED  BY <1>2, <1>6, <2>1, <2>2, <2>3 DEF Stores
<1>14. Prior'
  <2>1. Dead(session)' <=> Dead(session)
    BY <1>2 DEF Dead
  <2> QED  BY <1>2, <1>6, <2>1 DEF Data, Prior, Aligned, Log
<1> QED  BY <1>7, <1>8, <1>9, <1>10, <1>11, <1>12, <1>13, <1>14 DEF Data

-----------------------------------------------------------------------------
(* A session begins.                                                          *)

\* The callback at the head is neither the word of a sent stanza nor written to the stream.
LEMMA TakenShifted ==
    ASSUME Inv, moduleQ # <<>>, moduleQ' = Tail(moduleQ)
    PROVE  /\ Shifted(moduleQ, moduleQ', 1, {}) /\ Head(moduleQ) = moduleQ[1]
           /\ 1 \in 1..Len(moduleQ) /\ Len(moduleQ) \in Nat
BY QueueTypes, ShiftedTail

LEMMA NamedHolds ==
    ASSUME Inv, NEW names
    PROVE  /\ Holds(moduleQ, names) <=> \E i \in 1..Len(moduleQ) : moduleQ[i].name \in names
           /\ Holds(c2s, names) <=> \E i \in 1..Len(c2s) : c2s[i].name \in names
BY QueueTypes, HoldsAt

\* With the mark in front, all that went before it is known.
LEMMA NothingBefore ==
    ASSUME NEW q, NEW mark, NEW name, NEW k \in Nat, NEW n \in Nat, NEW b \in 0..n,
           InOrder(q, name, k, n), Divides(q, mark, name, b), k <= b,
           1 \in 1..Len(q), q[1].name = mark
    PROVE  k = b
<1> SUFFICES ASSUME k < b PROVE FALSE
  OBVIOUS
<1>1. k + 1 \in (k + 1)..n
  OBVIOUS
<1>2. PICK j \in 1..Len(q) : q[j].name = name /\ q[j].arg = k + 1
  BY <1>1 DEF InOrder
<1>3. ~(j < 1)
  BY <1>2
<1>4. q[j].arg > b
  BY <1>2, <1>3 DEF Divides
<1> QED  BY <1>2, <1>4

LEMMA DidSendEnableData ==
    ASSUME Inv, Inv', QueueInv, ArmedInv, ControlInv, HandleDidSendEnable,
           NEW r \in Nat, NEW t \in Nat, NEW b \in Nat, Data(r, t, b)
    PROVE  Data(r, t, b)'
<1>1. PICK d, k, more, written : d = 1 /\ k = 0 /\ more = {} /\ written = {}
  OBVIOUS
<1>2. /\ UNCHANGED <<conn, sent, received, reported, attached, isStarted, prevUnacked,
                     lastHandledByServer, unackedByServer, unprocessedAcks, session, c2s,
                     sessions, draining, store>>
      /\ moduleQ # <<>> /\ moduleQ' = Tail(moduleQ) /\ Head(moduleQ).name = "didSendEnable"
      /\ enableSent' = (enableSent \/ enableQueued)
  BY DEF HandleDidSendEnable, Next_is, streamVars, serverVars, outVars, histVars
<1>3. /\ Shifted(moduleQ, moduleQ', d, more) /\ moduleQ[1].name = "didSendEnable"
      /\ 1 \in 1..Len(moduleQ) /\ Len(moduleQ) \in Nat
  BY <1>1, <1>2, TakenShifted
<1>4. Shifted(c2s, c2s', k, written)
  BY <1>1, <1>2, QueueTypes, ShiftedSame
<1>5. Posting
  BY <1>3, NamedHolds DEF Posting
<1>6. enableQueued /\ ~enableSent /\ ~isStarted /\ ~Resumed /\ unprocessedAcks = <<>>
  BY <1>5 DEF ControlInv, AskingOnce, Told, Storing
<1>7. /\ ~Posting' /\ ~Awaiting' /\ ~Resumed'
      /\ Joined' <=> Joined
  <2>1. /\ \A names : moduleQ[1].name \notin names =>
              (Holds(moduleQ', names) <=> Holds(moduleQ, names))
        /\ ~Holds(moduleQ', {"didSendEnable"}) /\ ~Awaiting'
    BY <1>2, <1>3, ControlTaken
  <2>2. /\ Holds(moduleQ', {"resumed"}) <=> Holds(moduleQ, {"resumed"})
        /\ Holds(moduleQ', {"enabled", "resumed"}) <=> Holds(moduleQ, {"enabled", "resumed"})
    BY <1>3, <2>1
  <2> QED  BY <1>2, <1>6, <2>1, <2>2 DEF Posting, Resumed, Joined, Holds
<1>8. Asking' => Asking
  BY <1>2 DEF Asking, Holds
<1>9. Rewriting /\ SameLogs
  BY <1>2, SameSessions DEF Rewriting
<1>10. /\ \A e \in more : e.name \notin {"didSend", "didSendEnable"}
       /\ d = 1 => moduleQ[1].name # "didSend"
       /\ \A e \in written : e.name \notin {"stanza", "enable"}
       /\ k = 1 => c2s[1].name # "stanza"
  BY <1>1, <1>3
<1>11. /\ Queues(r, t, b)' /\ Read(r)' /\ Reported(t)' /\ Kept' /\ Stores(r, b)' /\ Prior'
       /\ Start' = Start /\ LogsGrow
  BY <1>2, <1>3, <1>4, <1>6, <1>7, <1>8, <1>9, <1>10, DataStanding
<1>12. t = b
  <2>1. /\ InOrder(moduleQ, "didSend", t, sent) /\ Divides(moduleQ, "didSendEnable", "didSend", b)
        /\ b \in 0..sent /\ t <= b
    BY <1>5 DEF Data, Queues
  <2> QED  BY <1>3, <2>1, DataTypes, NothingBefore
<1>13. Lined(r, t, b)'
  <2>1. unackedByServer = <<>> /\ Start = 0
    BY <1>6 DEF ArmedInv, Idle, OutClean, Start
  <2>2. Len(unackedByServer) = 0
    BY <2>1
  <2> QED  BY <1>2, <1>7, <1>11, <1>12, <2>1, <2>2 DEF Data, Lined, Log
<1>14. Acks(b)'
  <2>1. Joined => attached \in 1..Len(sessions)
    BY DEF Data, Lined
  <2>2. \A i \in 1..Len(moduleQ) : moduleQ[i].name = "a" =>
           Start' <= moduleQ[i].arg /\ \A j \in 1..Len(unprocessedAcks') : unprocessedAcks'[j] <= moduleQ[i].arg
    BY <1>2, <1>11 DEF Data, Acks
  <2>3. \A e \in more : e.name # "a" /\ e.name # "didSend"
    BY <1>1
  <2> QED  BY <1>2, <1>3, <1>7, <1>11, <2>1, <2>2, <2>3, AcksKept DEF Data
<1> QED  BY <1>11, <1>13, <1>14 DEF Data

LEMMA HandleEnabledData ==
    ASSUME Inv, Inv', QueueInv, ArmedInv, ControlInv, HandleEnabled,
           NEW r \in Nat, NEW t \in Nat, NEW b \in Nat, Data(r, t, b)
    PROVE  Data(r, t, b)'
<1>1. PICK d, k, more, written : d = 1 /\ k = 0 /\ more = {} /\ written = {}
  OBVIOUS
<1>2. /\ UNCHANGED <<conn, sent, received, reported, attached, prevUnacked, unackedByServer, c2s,
                     sessions, draining>>
      /\ moduleQ # <<>> /\ moduleQ' = Tail(moduleQ) /\ Head(moduleQ).name = "enabled"
  BY DEF HandleEnabled, Next_is, streamVars, serverVars
<1>3. /\ Shifted(moduleQ, moduleQ', d, more) /\ moduleQ[1].name = "enabled"
      /\ 1 \in 1..Len(moduleQ) /\ Len(moduleQ) \in Nat /\ Head(moduleQ) = moduleQ[1]
  BY <1>1, <1>2, TakenShifted
<1>4. Shifted(c2s, c2s', k, written)
  BY <1>1, <1>2, QueueTypes, ShiftedSame
<1>5. /\ ~isStarted /\ enableSent /\ attached # 0 /\ moduleQ[1].sid = attached
  BY <1>3, FirstIsFirst DEF ControlInv, Answering
<1>6. ~Resumed /\ ~Posting /\ ~Asking /\ Joined
  BY <1>3, <1>5, NamedHolds DEF ControlInv, AskingOnce, Told, Joined
<1>7. /\ isStarted' /\ ~enableSent' /\ lastHandledByServer' = 0 /\ unprocessedAcks' = <<>>
      /\ session' = attached /\ store'.pending = <<>> /\ store'.hs = 0
  BY <1>3, <1>5 DEF HandleEnabled, EmptyStore
<1>8. /\ ~Posting' /\ ~Awaiting' /\ ~Resumed' /\ Joined'
  <2>1. /\ \A names : moduleQ[1].name \notin names =>
              (Holds(moduleQ', names) <=> Holds(moduleQ, names))
        /\ ~Awaiting'
    BY <1>2, <1>3, ControlTaken
  <2>2. /\ Holds(moduleQ', {"resumed"}) <=> Holds(moduleQ, {"resumed"})
        /\ Holds(moduleQ', {"didSendEnable"}) <=> Holds(moduleQ, {"didSendEnable"})
    BY <1>3, <2>1
  <2> QED  BY <1>6, <1>7, <2>1, <2>2 DEF Posting, Resumed, Joined, Holds
<1>9. ~Asking'
  BY <1>2, <1>6 DEF Asking, Holds
<1>10. /\ \A e \in more : e.name \notin {"didSend", "didSendEnable"}
       /\ d = 1 => moduleQ[1].name # "didSend"
       /\ \A e \in written : e.name \notin {"stanza", "enable"}
       /\ k = 1 => c2s[1].name # "stanza"
  BY <1>1, <1>3
<1>11. Queues(r, t, b)'
  BY <1>2, <1>3, <1>4, <1>8, <1>9, <1>10, DataTypes, QueuesShifted DEF Data
<1>12. LogsGrow /\ SameLogs
  BY <1>2, SameSessions, SameLogsGrow
<1>13. Read(r)'
  BY <1>2, <1>12, ReadSame DEF Data
<1>14. Reported(t)'
  BY <1>2, <1>7, ReportedKept DEF Data
<1>15. Start = 0 /\ Start' = 0
  BY <1>5, <1>6, <1>7 DEF Start
<1>16. Lined(r, t, b)'
  BY <1>2, <1>5, <1>6, <1>7, <1>8, <1>15 DEF Data, Lined, Log, Live
<1>17. Acks(b)'
  <2>1. Joined => attached \in 1..Len(sessions)
    BY DEF Data, Lined
  <2>2. Len(unprocessedAcks') = 0
    BY <1>7
  <2>3. \A i \in 1..Len(moduleQ) : moduleQ[i].name = "a" =>
           Start' <= moduleQ[i].arg /\ \A j \in 1..Len(unprocessedAcks') : unprocessedAcks'[j] <= moduleQ[i].arg
    BY <1>15, <2>2 DEF Data, Acks
  <2>4. \A e \in more : e.name # "a" /\ e.name # "didSend"
    BY <1>1
  <2> QED  BY <1>2, <1>3, <1>6, <1>8, <1>12, <2>1, <2>3, <2>4, AcksKept DEF Data
<1>18. Kept'
  <2>1. Len(unprocessedAcks') = 0
    BY <1>7
  <2> QED  BY <1>7, <2>1 DEF Kept
<1>19. Stores(r, b)' /\ Prior'
  <2>1. Len(store'.pending) = 0
    BY <1>7
  <2> QED  BY <1>7, <1>8, <2>1 DEF Stores, Prior
<1> QED  BY <1>11, <1>13, <1>14, <1>16, <1>17, <1>18, <1>19 DEF Data

LEMMA HandleFailedData ==
    ASSUME Inv, Inv', QueueInv, ArmedInv, ControlInv, HandleFailed,
           NEW r \in Nat, NEW t \in Nat, NEW b \in Nat, Data(r, t, b)
    PROVE  Data(r, t, b)'
<1>1. PICK d, k, more, written : d = 1 /\ k = 0 /\ more = {} /\ written = {}
  OBVIOUS
<1>2. /\ UNCHANGED <<conn, sent, received, reported, attached, prevUnacked, unackedByServer, c2s,
                     sessions, draining, lastHandledByServer, unprocessedAcks, session>>
      /\ moduleQ # <<>> /\ moduleQ' = Tail(moduleQ) /\ Head(moduleQ).name = "failed"
  BY DEF HandleFailed, Next_is, streamVars, serverVars, histVars
<1>3. /\ Shifted(moduleQ, moduleQ', d, more) /\ moduleQ[1].name = "failed"
      /\ 1 \in 1..Len(moduleQ) /\ Len(moduleQ) \in Nat /\ Head(moduleQ) = moduleQ[1]
  BY <1>1, <1>2, TakenShifted
<1>4. Shifted(c2s, c2s', k, written)
  BY <1>1, <1>2, QueueTypes, ShiftedSame
<1>5. ~isStarted /\ enableSent
  BY <1>3, FirstIsFirst DEF ControlInv, Answering
<1>6. /\ ~isStarted' /\ ~enableSent' /\ store'.pending = <<>> /\ store'.hs = 0 /\ store'.id = 0
      /\ unprocessedAcks = <<>>
  BY <1>5 DEF HandleFailed, EmptyStore, ControlInv, Storing
<1>7. ~Joined /\ ~Posting /\ ~Asking
  <2>1. \A i \in 1..Len(moduleQ) : moduleQ[i].name \notin {"enabled", "resumed"}
    BY <1>3 DEF ControlInv, AskingOnce, OneOf, Answers
  <2>2. Holds(moduleQ, Answers)
    BY <1>3, NamedHolds DEF Answers
  <2> QED  BY <1>5, <2>1, <2>2, NamedHolds DEF ControlInv, AskingOnce, Joined
<1>8. ~Posting' /\ ~Awaiting' /\ ~Resumed' /\ ~Joined'
  <2>1. /\ \A names : moduleQ[1].name \notin names =>
              (Holds(moduleQ', names) <=> Holds(moduleQ, names))
        /\ ~Awaiting'
    BY <1>2, <1>3, ControlTaken
  <2>2. /\ Holds(moduleQ', {"enabled", "resumed"}) <=> Holds(moduleQ, {"enabled", "resumed"})
        /\ Holds(moduleQ', {"didSendEnable"}) <=> Holds(moduleQ, {"didSendEnable"})
    BY <1>3, <2>1
  <2>3. ~Holds(moduleQ', {"enabled", "resumed"}) /\ ~Holds(moduleQ', {"didSendEnable"})
    BY <1>7, <2>2 DEF Posting, Joined
  <2>4. ~Holds(moduleQ', {"resumed"})
    BY <2>3 DEF Holds
  <2> QED  BY <1>6, <2>1, <2>3, <2>4 DEF Posting, Resumed, Joined, Holds
<1>9. ~Asking'
  BY <1>2, <1>7 DEF Asking, Holds
<1>10. /\ \A e \in more : e.name \notin {"didSend", "didSendEnable"}
       /\ d = 1 => moduleQ[1].name # "didSend"
       /\ \A e \in written : e.name \notin {"stanza", "enable"}
       /\ k = 1 => c2s[1].name # "stanza"
  BY <1>1, <1>3
<1>11. Queues(r, t, b)'
  BY <1>2, <1>3, <1>4, <1>8, <1>9, <1>10, DataTypes, QueuesShifted DEF Data
<1>12. Read(r)'
  BY <1>2, SameSessions, ReadSame DEF Data
<1>13. Reported(t)'
  BY <1>2, <1>6, ReportedKept DEF Data
<1>14. Lined(r, t, b)'
  BY <1>6, <1>8 DEF Lined, Live
<1>15. Acks(b)'
  <2>1. \A i \in 1..Len(moduleQ') : moduleQ'[i].name # "a"
    BY <1>1, <1>3, <1>7 DEF Data, Acks, Shifted
  <2> QED  BY <2>1 DEF Acks
<1>16. Kept'
  <2>1. Len(unprocessedAcks') = 0
    BY <1>2, <1>6
  <2> QED  BY <1>2, <1>6, <2>1 DEF Kept
<1>17. Stores(r, b)' /\ Prior'
  BY <1>6, <1>8 DEF Stores, Prior, Dead
<1> QED  BY <1>11, <1>12, <1>13, <1>14, <1>15, <1>16, <1>17 DEF Data

-----------------------------------------------------------------------------
(* A session is resumed, or its connection ends.                              *)

\* What the server handled of the session in use, as far as the module counts.
LEMMA LinedContinues ==
    ASSUME Inv, ControlInv, isStarted, NEW r \in Nat, NEW t \in Nat, NEW b \in Nat, Data(r, t, b)
    PROVE  /\ session \in 1..Len(sessions) /\ attached = session
           /\ \A p \in {<<>>, unackedByServer} : Continues(r, b, session, lastHandledByServer, p)
           /\ store.id # 0 => store.id = session /\ store.hs = lastHandledByServer
           /\ \A i \in 1..Len(store.pending) : store.pending[i].n = b + store.hs + i
<1>1. attached = session /\ (store.id # 0 => store.id = session) /\ store.hs = lastHandledByServer
  BY DEF ControlInv, Storing
<1>2. /\ session \in 1..Len(sessions) /\ r = b + Len(Log(session)) /\ lastHandledByServer <= Len(Log(session))
      /\ \A k \in (lastHandledByServer + 1)..Len(Log(session)) : Log(session)[k] = b + k
      /\ \A i \in 1..Len(unackedByServer) : unackedByServer[i].n = b + lastHandledByServer + i
  BY <1>1 DEF Data, Lined, Live, Joined, Start
<1>3. /\ lastHandledByServer \in Nat /\ Len(unackedByServer) \in Nat /\ Len(Log(session)) \in Nat
  BY <1>2, OutgoingTypes, DataTypes
<1>4. ASSUME NEW i \in 1..Len(unackedByServer), lastHandledByServer + i <= Len(Log(session))
      PROVE  Log(session)[lastHandledByServer + i] = unackedByServer[i].n
  <2>1. lastHandledByServer + i \in (lastHandledByServer + 1)..Len(Log(session))
    BY <1>3, <1>4
  <2>2. Log(session)[lastHandledByServer + i] = b + (lastHandledByServer + i)
    BY <1>2, <2>1
  <2> QED  BY <1>2, <1>3, <2>2
<1>5. Continues(r, b, session, lastHandledByServer, unackedByServer)
  BY <1>2, <1>3, <1>4 DEF Continues, Aligned
<1>6. Continues(r, b, session, lastHandledByServer, <<>>)
  <2>1. PICK p : p = <<>>
    OBVIOUS
  <2>2. Len(p) = 0
    BY <2>1
  <2>3. Continues(r, b, session, lastHandledByServer, p)
    BY <1>2, <2>2 DEF Continues, Aligned
  <2> QED  BY <2>1, <2>3
<1>7. \A i \in 1..Len(store.pending) : store.pending[i].n = b + store.hs + i
  BY DEF Data, Stores
<1> QED  BY <1>1, <1>2, <1>5, <1>6, <1>7

LEMMA HandleResumedData ==
    ASSUME Inv, Inv', QueueInv, ArmedInv, ControlInv, NoWrap, HandleResumed,
           NEW r \in Nat, NEW t \in Nat, NEW b \in Nat, Data(r, t, b)
    PROVE  Data(r, t, b)'
<1>1. PICK d, k, more, written : d = 1 /\ k = 0 /\ more = {} /\ written = {}
  OBVIOUS
<1>2. /\ UNCHANGED <<conn, sent, received, attached, unackedByServer, c2s, enableSent,
                     sessions, draining, unprocessedAcks, session>>
      /\ moduleQ # <<>> /\ moduleQ' = Tail(moduleQ) /\ Head(moduleQ).name = "resumed"
      /\ isStarted' /\ prevUnacked' = <<>>
  BY DEF HandleResumed, Next_is, streamVars, serverVars
<1>3. /\ Shifted(moduleQ, moduleQ', d, more) /\ moduleQ[1].name = "resumed"
      /\ 1 \in 1..Len(moduleQ) /\ Len(moduleQ) \in Nat /\ Head(moduleQ) = moduleQ[1]
  BY <1>1, <1>2, TakenShifted
<1>4. Shifted(c2s, c2s', k, written)
  BY <1>1, <1>2, QueueTypes, ShiftedSame
<1>5. PICK h \in Nat : h = moduleQ[1].arg
  BY <1>3, DataTypes
<1>6. /\ reported' = reported \cup IdsOf(prevUnacked, Smaller(AckDiff(h), Len(prevUnacked)))
      /\ lastHandledByServer' = h /\ store'.hs = h /\ store'.pending = <<>> /\ store'.id = store.id
  <2>1. store \in Storage
    BY DEF Inv, TypeOK
  <2> QED  BY <1>3, <1>5, <2>1 DEF HandleResumed, Report, Storage
<1>7. Resumed /\ Joined /\ Live
  BY <1>3, NamedHolds DEF Resumed, Joined, Live
<1>8. /\ store.id # 0 /\ session = store.id /\ attached = session /\ store.hs = lastHandledByServer
      /\ ~isStarted /\ unprocessedAcks = <<>> /\ ~Told
  BY <1>7 DEF ControlInv, Resuming, AskingOnce
<1>9. ~Posting' /\ ~Awaiting' /\ ~Resumed' /\ Joined' /\ Live'
  <2>1. /\ \A names : moduleQ[1].name \notin names =>
              (Holds(moduleQ', names) <=> Holds(moduleQ, names))
        /\ ~Awaiting' /\ ~Holds(moduleQ', Answers)
    BY <1>2, <1>3, ControlTaken DEF Answers
  <2>2. Holds(moduleQ', {"didSendEnable"}) <=> Holds(moduleQ, {"didSendEnable"})
    BY <1>3, <2>1
  <2>3. ~Holds(moduleQ', {"resumed"})
    BY <2>1 DEF Holds, Answers
  <2> QED  BY <1>2, <1>8, <2>1, <2>2, <2>3 DEF Posting, Resumed, Joined, Holds, Told, Live
<1>10. Asking' => Asking
  BY <1>2 DEF Asking, Holds
<1>11. /\ \A e \in more : e.name \notin {"didSend", "didSendEnable"}
       /\ d = 1 => moduleQ[1].name # "didSend"
       /\ \A e \in written : e.name \notin {"stanza", "enable"}
       /\ k = 1 => c2s[1].name # "stanza"
  BY <1>1, <1>3
<1>12. Queues(r, t, b)'
  BY <1>2, <1>3, <1>4, <1>9, <1>10, <1>11, DataTypes, QueuesShifted DEF Data
<1>13. LogsGrow /\ SameLogs
  BY <1>2, SameSessions, SameLogsGrow
<1>14. Read(r)'
  BY <1>2, <1>13, ReadSame DEF Data
<1>15. Start = h /\ Start' = h
  BY <1>2, <1>5, <1>6, <1>7, <1>8 DEF Start
<1>16. /\ session \in 1..Len(sessions) /\ store.hs <= h /\ h <= Len(Log(session)) /\ Len(Log(session)) \in Nat
       /\ h < Modulus /\ store.hs \in Nat
       /\ Aligned(session, store.hs, prevUnacked, h)
  <2>1. session \in 1..Len(sessions)
    BY <1>7, <1>8 DEF Data, Lined
  <2>2. /\ store.hs <= h /\ h <= Len(Log(session)) /\ Aligned(session, store.hs, prevUnacked, h)
    BY <1>5, <1>7 DEF Data, Prior
  <2>3. /\ Len(Log(session)) \in Nat /\ Len(Log(session)) <= r /\ r <= sent /\ sent < Modulus
    BY <2>1, CountIsLength
  <2>4. sent \in Nat /\ Modulus \in Nat /\ h \in Nat /\ store.hs \in Nat
    BY <1>5, DataTypes, BoundsAssumption
  <2> QED  BY <2>1, <2>2, <2>3, <2>4
<1>17. PICK a \in Nat : /\ a = Smaller(AckDiff(h), Len(prevUnacked))
                        /\ a <= Len(prevUnacked) /\ store.hs + a <= h
  <2>1. AckDiff(h) = h - store.hs
    BY <1>8, <1>16 DEF AckDiff
  <2>2. Len(prevUnacked) \in Nat
    BY DataTypes
  <2> QED  BY <1>16, <2>1, <2>2 DEF Smaller
<1>18. Reported(t)'
  <2>1. \A i \in 1..a : /\ i \in 1..Len(prevUnacked) /\ prevUnacked[i].n \in received
                        /\ prevUnacked[i].n <= t /\ prevUnacked[i].id \in {0, prevUnacked[i].n}
    <3> TAKE i \in 1..a
    <3>1. i \in 1..Len(prevUnacked) /\ store.hs + i <= h
      <4>1. PICK n, x \in Nat : n = Len(prevUnacked) /\ x = store.hs
        BY <1>16, DataTypes
      <4>2. i \in 1..n /\ x + i <= h
        BY <1>17, <4>1
      <4> QED  BY <4>1, <4>2
    <3>2. prevUnacked[i].n = Log(session)[store.hs + i]
      BY <1>16, <3>1 DEF Aligned
    <3>3. store.hs + i \in 1..Len(Log(session))
      BY <1>16, <3>1
    <3>4. Log(session)[store.hs + i] \in received
      BY <1>16, <3>3 DEF Data, Read
    <3> QED  BY <3>1, <3>2, <3>4 DEF Data, Reported, Waiting
  <2>2. \A m \in reported' : m \in reported \/ \E i \in 1..a : m = prevUnacked[i].n
    BY <1>6, <1>17, <2>1 DEF IdsOf
  <2>3. reported' \subseteq received' /\ \A m \in reported' : m <= t
    BY <1>2, <2>1, <2>2 DEF Data, Reported
  <2>4. /\ Len(unackedByServer') = 0 /\ Len(prevUnacked') = 0 /\ Len(store'.pending) = 0
    BY <1>2, <1>6, <1>7 DEF ArmedInv, Resumes, Restored, OutClean, Resumed
  <2> QED  BY <2>3, <2>4 DEF Reported, Waiting
<1>19. Lined(r, t, b)'
  BY <1>2, <1>7, <1>9, <1>15 DEF Data, Lined, Log
<1>20. Acks(b)'
  <2>1. Joined => attached \in 1..Len(sessions)
    BY DEF Data, Lined
  <2>2. Len(unprocessedAcks') = 0
    BY <1>2, <1>8
  <2>3. \A i \in 1..Len(moduleQ) : moduleQ[i].name = "a" =>
           Start' <= moduleQ[i].arg /\ \A j \in 1..Len(unprocessedAcks') : unprocessedAcks'[j] <= moduleQ[i].arg
    BY <1>15, <2>2 DEF Data, Acks
  <2>4. \A e \in more : e.name # "a" /\ e.name # "didSend"
    BY <1>1
  <2> QED  BY <1>2, <1>3, <1>7, <1>9, <1>13, <2>1, <2>3, <2>4, AcksKept DEF Data
<1>21. Kept'
  <2>1. Len(unprocessedAcks') = 0
    BY <1>2, <1>8
  <2> QED  BY <1>2, <1>8, <2>1 DEF Kept
<1>22. Stores(r, b)' /\ Prior'
  <2>1. Len(store'.pending) = 0
    BY <1>6
  <2> QED  BY <1>2, <1>9, <2>1 DEF Stores, Prior
<1> QED  BY <1>12, <1>14, <1>18, <1>19, <1>20, <1>21, <1>22 DEF Data

LEMMA HandleSendResumeData ==
    ASSUME Inv, Inv', QueueInv, ArmedInv, ControlInv, HandleSendResume,
           NEW r \in Nat, NEW t \in Nat, NEW b \in Nat, Data(r, t, b)
    PROVE  Data(r, t, b)'
<1>1. PICK d, k, more : d = 1 /\ k = 0 /\ more = {}
  OBVIOUS
<1>2. /\ UNCHANGED <<conn, sent, received, reported, attached, isStarted, enableSent, sessions,
                     draining, store>>
      /\ moduleQ # <<>> /\ moduleQ' = Tail(moduleQ) /\ Head(moduleQ).name = "sendResume"
      /\ session' = Head(moduleQ).sid /\ lastHandledByServer' = store.hs
      /\ unprocessedAcks' = <<>> /\ unackedByServer' = <<>>
      /\ prevUnacked' = IF store.pending = <<>> THEN prevUnacked ELSE store.pending
      /\ c2s' = IF conn = "resuming"
                THEN Append(c2s, Element("resume", store.hc, Head(moduleQ).sid)) ELSE c2s
  BY DEF HandleSendResume, Next_is, streamVars, serverVars, flagVars, Cleanup, RestoredCounts
<1>3. /\ Shifted(moduleQ, moduleQ', d, more) /\ moduleQ[1].name = "sendResume"
      /\ 1 \in 1..Len(moduleQ) /\ Len(moduleQ) \in Nat /\ Head(moduleQ) = moduleQ[1]
  BY <1>1, <1>2, TakenShifted
<1>4. /\ store.id # 0 /\ moduleQ[1].sid = store.id /\ ~isStarted /\ ~enableSent
      /\ \A j \in 1..Len(moduleQ) : moduleQ[j].name \in {"sendResume", "didDisconnect"}
  BY <1>3 DEF ControlInv, Resuming
<1>5. PICK written : /\ Shifted(c2s, c2s', k, written)
                     /\ \A e \in written : e.name \notin {"stanza", "enable"}
  <2>1. CASE conn = "resuming"
    <3>1. PICK e : e = Element("resume", store.hc, Head(moduleQ).sid)
      OBVIOUS
    <3>2. PICK more1 : more1 = {e}
      OBVIOUS
    <3>3. e.name = "resume" /\ e \in more1
      BY <3>1, <3>2 DEF Element
    <3>4. e \in ElementSet
      <4>1. store.hc \in Nat /\ Head(moduleQ).sid \in Nat
        <5>1. moduleQ[1] \in ElementSet /\ store \in Storage
          BY <1>3, QueueTypes, ElementOfSeq DEF Inv, TypeOK
        <5> QED  BY <1>3, <5>1 DEF Storage, ElementSet
      <4> QED  BY <3>1, <4>1 DEF Element, ElementSet, ElementName
    <3>5. c2s' = Append(c2s, e)
      BY <1>2, <2>1, <3>1
    <3>6. Shifted(c2s, c2s', k, more1)
      BY <1>1, <3>3, <3>4, <3>5, QueueTypes, ShiftedAppend
    <3> QED  BY <3>2, <3>3, <3>6
  <2>2. CASE conn # "resuming"
    <3>1. PICK none : none = {}
      OBVIOUS
    <3>2. Shifted(c2s, c2s', k, none)
      BY <1>1, <1>2, <2>2, QueueTypes, ShiftedSame
    <3> QED  BY <3>1, <3>2
  <2> QED  BY <2>1, <2>2
<1>6. /\ \A i \in 1..Len(moduleQ) : moduleQ[i].name \notin {"didSend", "didSendEnable", "a", "resumed", "enabled"}
      /\ \A i \in 1..Len(moduleQ') : moduleQ'[i].name \notin {"didSend", "didSendEnable", "a", "resumed", "enabled"}
  BY <1>1, <1>3, <1>4 DEF Shifted
<1>7. ~Posting' /\ ~Resumed' /\ ~Joined' /\ ~Live' /\ ~Resumed /\ prevUnacked' = store.pending
  <2>1. moduleQ' \in Seq(ElementSet)
    BY DEF Inv, TypeOK, StreamTypeOK
  <2>2. /\ ~Holds(moduleQ', {"didSendEnable"}) /\ ~Holds(moduleQ', {"resumed"})
        /\ ~Holds(moduleQ', {"enabled", "resumed"})
    BY <1>6, <2>1, HoldsAt
  <2>3. ~Resumed
    BY <1>6, NamedHolds DEF Resumed
  <2>4. prevUnacked = <<>>
    BY <1>2, <1>3 DEF ControlInv, Resuming, Awaiting
  <2> QED  BY <1>2, <1>4, <2>2, <2>3, <2>4 DEF Posting, Resumed, Joined, Live, Holds
<1>8. Asking' => Asking
  <2>1. c2s \in Seq(ElementSet) /\ c2s' \in Seq(ElementSet)
    BY DEF Inv, TypeOK, StreamTypeOK
  <2>2. \A e \in written : e.name \notin {"enable"}
    BY <1>5
  <2>3. Holds(c2s', {"enable"}) => Holds(c2s, {"enable"})
    BY <1>5, <2>1, <2>2, ShiftedHolds
  <2> QED  BY <2>3 DEF Asking, Holds
<1>9. /\ \A e \in more : e.name \notin {"didSend", "didSendEnable"}
      /\ d = 1 => moduleQ[1].name # "didSend"
      /\ k = 1 => c2s[1].name # "stanza"
  BY <1>1, <1>3
<1>10. Queues(r, t, b)'
  BY <1>2, <1>3, <1>5, <1>7, <1>8, <1>9, DataTypes, QueuesShifted DEF Data
<1>11. Read(r)'
  BY <1>2, SameSessions, ReadSame DEF Data
<1>12. Reported(t)'
  BY <1>2, <1>7, ReportedKept DEF Data
<1>13. Lined(r, t, b)'
  BY <1>7 DEF Lined
<1>14. Acks(b)'
  BY <1>6 DEF Acks
<1>15. Kept'
  <2>1. Len(unprocessedAcks') = 0
    BY <1>2
  <2> QED  BY <1>2, <2>1 DEF Kept
<1>16. Dead(store.id)' <=> Dead(store.id)
  BY <1>2 DEF Dead
<1>17. ~Dead(store.id) => Continues(r, b, store.id, store.hs, store.pending)
  BY <1>4, <1>7 DEF Data, Stores
<1>18. Stores(r, b)'
  <2> SUFFICES ASSUME ~Dead(store.id)
               PROVE  /\ Continues(r, b, store.id, store.hs, store.pending)'
                      /\ Continues(r, b, store.id, lastHandledByServer, unackedByServer)'
    BY <1>2, <1>4, <1>16 DEF Stores
  <2>1. Continues(r, b, store.id, store.hs, store.pending)'
    BY <1>2, <1>17 DEF Continues, Aligned, Log
  <2>2. Len(unackedByServer') = 0
    BY <1>2
  <2>3. Continues(r, b, store.id, lastHandledByServer, unackedByServer)'
    BY <1>2, <2>1, <2>2 DEF Continues, Aligned
  <2> QED  BY <2>1, <2>3
<1>19. Prior'
  <2>1. session' = store.id
    BY <1>2, <1>3, <1>4
  <2>2. Dead(session)' <=> Dead(store.id)
    BY <1>2, <2>1 DEF Dead
  <2>3. ~Dead(store.id) => Aligned(session, store.hs, prevUnacked, Len(Log(session)))'
    BY <1>2, <1>7, <1>17, <2>1 DEF Continues, Aligned, Log
  <2> QED  BY <1>7, <2>2, <2>3 DEF Prior
<1> QED  BY <1>10, <1>11, <1>12, <1>13, <1>14, <1>15, <1>18, <1>19 DEF Data

LEMMA HandleDidDisconnectData ==
    ASSUME Inv, Inv', QueueInv, ArmedInv, ControlInv, HandleDidDisconnect,
           NEW r \in Nat, NEW t \in Nat, NEW b \in Nat, Data(r, t, b)
    PROVE  Data(r, t, b)'
<1>1. PICK d, k, more, written : d = 1 /\ k = 0 /\ more = {} /\ written = {}
  OBVIOUS
<1>2. /\ UNCHANGED <<conn, sent, received, reported, attached, sessions, draining, c2s, session,
                     lastHandledByServer, unackedByServer, unprocessedAcks>>
      /\ moduleQ # <<>> /\ moduleQ' = Tail(moduleQ) /\ Head(moduleQ).name = "didDisconnect"
      /\ ~isStarted' /\ ~enableSent' /\ prevUnacked' = <<>>
      /\ store' = IF wasCleanDisconnect THEN EmptyStore
                  ELSE [store EXCEPT !.date = TRUE, !.hc = lastHandledByClient,
                                     !.hs = lastHandledByServer, !.pending = unackedByServer]
  BY DEF HandleDidDisconnect, Next_is, streamVars, serverVars, histVars
<1>3. /\ Shifted(moduleQ, moduleQ', d, more) /\ moduleQ[1].name = "didDisconnect"
      /\ 1 \in 1..Len(moduleQ) /\ Len(moduleQ) \in Nat /\ Head(moduleQ) = moduleQ[1]
  BY <1>1, <1>2, TakenShifted
<1>4. Shifted(c2s, c2s', k, written)
  BY <1>1, <1>2, QueueTypes, ShiftedSame
<1>5. /\ moduleQ' = <<>> /\ Len(moduleQ') = 0 /\ Len(moduleQ) = 1 /\ conn = "closed"
  <2>1. moduleQ' = <<>>
    BY DidDisconnectControl
  <2>2. Len(moduleQ) = 1 /\ conn = "closed"
    <3>1. DOMAIN moduleQ = 1..Len(moduleQ)
      BY QueueTypes, LenProperties
    <3>2. 1 = Len(moduleQ) /\ conn = "closed"
      BY <1>3, <3>1 DEF QueueInv, EndIsLast
    <3> QED  BY <3>2
  <2> QED  BY <2>1, <2>2
<1>6. ~Posting' /\ ~Resumed' /\ ~Joined' /\ ~Live' /\ ~Awaiting' /\ ~Resumed
  <2>1. \A names : ~Holds(moduleQ', names)
    BY <1>5, HoldsNothing
  <2>2. ~Resumed
    BY <1>3, <1>5, NamedHolds DEF Resumed
  <2> QED  BY <1>2, <1>5, <2>1, <2>2 DEF Posting, Resumed, Joined, Live, Awaiting, Holds
<1>7. Asking' => Asking
  BY <1>2 DEF Asking, Holds
<1>8. /\ \A e \in more : e.name \notin {"didSend", "didSendEnable"}
      /\ d = 1 => moduleQ[1].name # "didSend"
      /\ \A e \in written : e.name \notin {"stanza", "enable"}
      /\ k = 1 => c2s[1].name # "stanza"
  BY <1>1, <1>3
<1>9. Queues(r, t, b)'
  BY <1>2, <1>3, <1>4, <1>6, <1>7, <1>8, DataTypes, QueuesShifted DEF Data
<1>10. LogsGrow /\ SameLogs
  BY <1>2, SameSessions, SameLogsGrow
<1>11. Read(r)'
  BY <1>2, <1>10, ReadSame DEF Data
<1>12. \/ store'.id = 0 /\ store'.pending = <<>>
       \/ /\ store'.id = store.id /\ store'.hs = lastHandledByServer
          /\ store'.pending = unackedByServer
  <2>1. store \in Storage
    BY DEF Inv, TypeOK
  <2> QED  BY <1>2, <2>1 DEF Storage, EmptyStore
<1>13. Reported(t)'
  BY <1>2, <1>12, ReportedKept DEF Data
<1>14. Lined(r, t, b)' /\ Acks(b)' /\ Prior'
  BY <1>5, <1>6 DEF Lined, Acks, Prior
<1>15. Kept'
  BY <1>2, <1>10, <1>12, DataTypes, KeptSame DEF Data
<1>16. Stores(r, b)'
  <2> SUFFICES ASSUME ~Dead(store.id)'
               PROVE  /\ Continues(r, b, store.id, store.hs, store.pending)'
                      /\ Continues(r, b, store.id, lastHandledByServer, unackedByServer)'
    BY <1>2 DEF Stores
  <2>1. /\ store'.id = store.id /\ store'.hs = lastHandledByServer /\ store'.pending = unackedByServer
        /\ store.id # 0 /\ ~Dead(store.id)
    BY <1>2, <1>12 DEF Dead
  <2>2. Continues(r, b, store.id, lastHandledByServer, unackedByServer)
    <3>1. CASE isStarted
      BY <2>1, <3>1, LinedContinues
    <3>2. CASE ~isStarted
      BY <1>6, <2>1, <3>2 DEF Data, Stores
    <3> QED  BY <3>1, <3>2
  <2> QED  BY <1>2, <2>1, <2>2 DEF Continues, Aligned, Log
<1> QED  BY <1>9, <1>11, <1>13, <1>14, <1>15, <1>16 DEF Data

-----------------------------------------------------------------------------
(* A connection is opened; the process dies.                                  *)

LEMMA ConnectData ==
    ASSUME Inv, Inv', QueueInv, ArmedInv, ControlInv, Connect,
           NEW r \in Nat, NEW t \in Nat, NEW b \in Nat, Data(r, t, b)
    PROVE  sent \in Nat /\ Data(sent, t, b)'
<1>1. /\ UNCHANGED <<sent, received, reported, isStarted, enableSent, sessions, draining, store,
                     session, lastHandledByServer, unackedByServer, unprocessedAcks, prevUnacked>>
      /\ conn' = "binding" /\ c2s' = <<>> /\ attached' = 0
  BY DEF Connect, moduleVars, flagVars, outVars, histVars
<1>2. moduleQ = <<>> /\ moduleQ' = <<>> /\ ~isStarted /\ ~enableSent
  BY ConnectControl
<1>3. Len(c2s') = 0 /\ Len(moduleQ') = 0 /\ Len(moduleQ) = 0
  BY <1>1, <1>2
<1>4. ~Posting' /\ ~Resumed' /\ ~Joined' /\ ~Live' /\ ~Awaiting' /\ ~Asking' /\ ~Resumed
  <2>1. \A names : ~Holds(<<>>, names)
    BY HoldsNothing
  <2> QED  BY <1>1, <1>2, <2>1 DEF Posting, Resumed, Joined, Live, Awaiting, Asking, Holds
<1>5. sent \in Nat /\ r <= sent
  BY DataTypes DEF Data, Queues, InOrder
<1>6. Queues(sent, t, b)'
  <2>1. InOrder(c2s', "stanza", sent, sent)
    <3>1. \A i \in 1..Len(c2s') : c2s'[i].name # "stanza"
      BY <1>3
    <3> QED  BY <1>5, <3>1, InOrderNone
  <2>2. InOrder(moduleQ', "didSend", t, sent)
    BY <1>2 DEF Data, Queues
  <2>3. Divides(moduleQ', "didSendEnable", "didSend", b) /\ Divides(c2s', "enable", "stanza", b)
    BY <1>3 DEF Divides
  <2>4. sent <= MaxOut /\ b \in 0..sent
    BY DEF Data, Queues
  <2> QED  BY <1>1, <1>4, <2>1, <2>2, <2>3, <2>4 DEF Queues, InOrder, Divides
<1>7. LogsGrow
  BY <1>1, SameSessions, SameLogsGrow
<1>8. Read(sent)'
  <2>1. Read(r)
    BY DEF Data
  <2>2. \A n \in received : n \in 1..sent
    BY <1>5, <2>1, DataTypes DEF Read
  <2>3. \A s \in 1..Len(sessions) : Len(Log(s)) <= sent
    <3> TAKE s \in 1..Len(sessions)
    <3>1. Len(Log(s)) \in Nat /\ Len(Log(s)) <= r
      BY <2>1, DataTypes DEF Read
    <3> QED  BY <1>5, <3>1
  <2>4. \A s \in 1..Len(sessions) : \A k \in 1..Len(Log(s)) : Log(s)[k] \in received
    BY <2>1 DEF Read
  <2> QED  BY <1>1, <2>2, <2>3, <2>4 DEF Read, Log
<1>9. Reported(t)'
  BY <1>1, ReportedKept DEF Data
<1>10. Lined(sent, t, b)' /\ Acks(b)' /\ Prior'
  BY <1>3, <1>4 DEF Lined, Acks, Prior
<1>11. Kept'
  BY <1>1, <1>5, <1>7, DataTypes, KeptSame DEF Data
<1>12. Stores(sent, b)'
  <2> SUFFICES ASSUME ~Dead(store.id)'
               PROVE  /\ Continues(sent, b, store.id, store.hs, store.pending)'
                      /\ Continues(sent, b, store.id, lastHandledByServer, unackedByServer)'
    BY <1>1, <1>2 DEF Stores
  <2>1. ~Dead(store.id) /\ store.id # 0
    BY <1>1 DEF Dead
  <2>2. /\ Continues(r, b, store.id, store.hs, store.pending)
        /\ Continues(r, b, store.id, lastHandledByServer, unackedByServer)
    BY <1>2, <1>4, <2>1 DEF Data, Stores
  <2> QED  BY <1>1, <2>1, <2>2 DEF Continues, Aligned, Log
<1> QED  BY <1>5, <1>6, <1>8, <1>9, <1>10, <1>11, <1>12 DEF Data

LEMMA CrashData ==
    ASSUME Inv, Inv', QueueInv, ArmedInv, ControlInv, KeepsResuming, Crash,
           NEW r \in Nat, NEW t \in Nat, NEW b \in Nat, Data(r, t, b)
    PROVE  sent \in Nat /\ Data(r, sent, b)'
<1>1. /\ UNCHANGED <<sent, received, reported, sessions, store, session, attached, c2s>>
      /\ conn' = "closed" /\ moduleQ' = <<>> /\ ~isStarted' /\ ~enableSent'
      /\ lastHandledByServer' = 0 /\ unackedByServer' = <<>> /\ unprocessedAcks' = <<>>
      /\ prevUnacked' = <<>>
  BY DEF Crash, Cleanup, serverVars
<1>2. ~Resumed
  <2>1. crashes \in Nat /\ MaxCrash \in Nat /\ crashes < MaxCrash
    BY BoundsAssumption DEF Inv, TypeOK, HistTypeOK, Crash
  <2>2. ResumeMayBreak = FALSE
    BY <2>1 DEF KeepsResuming
  <2> QED  BY <2>2 DEF Crash, Resumed
<1>3. Len(moduleQ') = 0 /\ Len(unackedByServer') = 0 /\ Len(unprocessedAcks') = 0 /\ Len(prevUnacked') = 0
  BY <1>1
<1>4. /\ ~Posting' /\ ~Resumed' /\ ~Joined' /\ ~Live' /\ ~Awaiting'
      /\ Asking' <=> Asking
  <2>1. \A names : ~Holds(<<>>, names)
    BY HoldsNothing
  <2> QED  BY <1>1, <2>1 DEF Posting, Resumed, Joined, Live, Awaiting, Asking, Holds
<1>5. sent \in Nat /\ t <= sent
  BY DataTypes DEF Data, Queues, InOrder
<1>6. Queues(r, sent, b)'
  <2>1. InOrder(moduleQ', "didSend", sent, sent)
    <3>1. \A i \in 1..Len(moduleQ') : moduleQ'[i].name # "didSend"
      BY <1>3
    <3> QED  BY <1>5, <3>1, InOrderNone
  <2>2. InOrder(c2s', "stanza", r, sent) /\ Divides(c2s', "enable", "stanza", b)
    BY <1>1 DEF Data, Queues
  <2>3. Divides(moduleQ', "didSendEnable", "didSend", b)
    BY <1>3 DEF Divides
  <2>4. sent <= MaxOut /\ b \in 0..sent /\ (Asking => r <= b)
    BY DEF Data, Queues
  <2> QED  BY <1>1, <1>4, <2>1, <2>2, <2>3, <2>4 DEF Queues, InOrder, Divides
<1>7. Read(r)'
  BY <1>1, SameSessions, ReadSame DEF Data
<1>8. Reported(sent)'
  BY <1>1, <1>5, ReportedKept DEF Data
<1>9. Lined(r, sent, b)' /\ Acks(b)' /\ Prior'
  BY <1>3, <1>4 DEF Lined, Acks, Prior
<1>10. Kept'
  BY <1>1, <1>3 DEF Kept
<1>11. Stores(r, b)'
  <2> SUFFICES ASSUME ~Dead(store.id)'
               PROVE  /\ Continues(r, b, store.id, store.hs, store.pending)'
                      /\ Continues(r, b, store.id, lastHandledByServer, unackedByServer)'
    BY <1>1 DEF Stores
  <2>1. ~Dead(store.id) /\ store.id # 0 /\ store.id \in 1..Len(sessions)
    BY <1>1, DataTypes DEF Dead
  <2>2. Continues(r, b, store.id, store.hs, store.pending)
    <3>1. CASE isStarted
      <4>1. /\ Continues(r, b, session, lastHandledByServer, unackedByServer) /\ attached = session
            /\ store.id = session /\ store.hs = lastHandledByServer
            /\ \A i \in 1..Len(store.pending) : store.pending[i].n = b + store.hs + i
            /\ Continues(r, b, session, lastHandledByServer, <<>>)
        BY <2>1, <3>1, LinedContinues
      <4>2. /\ r = b + Len(Log(session)) /\ store.hs <= Len(Log(session)) /\ Len(Log(session)) \in Nat
            /\ store.hs \in Nat
        BY <2>1, <4>1, DataTypes DEF Continues
      <4>3. \A k \in (store.hs + 1)..Len(Log(session)) : Log(session)[k] = b + k
        BY <3>1, <4>1 DEF Data, Lined, Joined, Start
      <4>4. Aligned(session, store.hs, store.pending, Len(Log(session)))
        <5> SUFFICES ASSUME NEW i \in 1..Len(store.pending), store.hs + i <= Len(Log(session))
                     PROVE  Log(session)[store.hs + i] = store.pending[i].n
          BY DEF Aligned
        <5>1. store.hs + i \in (store.hs + 1)..Len(Log(session))
          <6>1. PICK x, n \in Nat : x = store.hs /\ n = Len(Log(session))
            BY <4>2
          <6>2. i \in Nat /\ i >= 1 /\ x + i <= n
            BY <6>1, DataTypes
          <6>3. x + i \in (x + 1)..n
            BY <6>2
          <6> QED  BY <6>1, <6>3
        <5>2. Log(session)[store.hs + i] = b + (store.hs + i)
          BY <4>3, <5>1
        <5>3. i \in Nat
          BY DataTypes
        <5> QED  BY <4>1, <4>2, <5>2, <5>3
      <4> QED  BY <4>1, <4>2, <4>4 DEF Continues
    <3>2. CASE ~isStarted
      BY <1>2, <2>1, <3>2 DEF Data, Stores
    <3> QED  BY <3>1, <3>2
  <2>3. Continues(r, b, store.id, store.hs, store.pending)'
    BY <1>1, <2>2 DEF Continues, Aligned, Log
  <2>4. Continues(r, b, store.id, lastHandledByServer, unackedByServer)'
    <3>1. 0 <= Len(Log(store.id))
      BY <2>1, DataTypes
    <3> QED  BY <1>1, <1>3, <2>3, <3>1 DEF Continues, Aligned, Log
  <2> QED  BY <2>3, <2>4
<1> QED  BY <1>5, <1>6, <1>7, <1>8, <1>9, <1>10, <1>11 DEF Data

-----------------------------------------------------------------------------
(* A session is asked for, given, and resumed by the server.                   *)

\* The mark is put at the end: everything before it is numbered up to n.
LEMMA MarkAppended ==
    ASSUME NEW q, NEW t, NEW e, Shifted(q, t, 0, {e}), Len(t) = Len(q) + 1, NEW mark, NEW name,
           e.name = mark, mark # name, \A i \in 1..Len(q) : q[i].name # mark,
           NEW k \in Nat, NEW n \in Nat, InOrder(q, name, k, n)
    PROVE  Divides(t, mark, name, n)
<1> SUFFICES ASSUME NEW i \in 1..Len(t), NEW j \in 1..Len(t), t[i].name = mark, t[j].name = name
             PROVE  j < i /\ t[j].arg <= n
  BY DEF Divides
<1>1. Len(q) \in Nat /\ Len(t) \in Nat
  BY DEF Shifted
<1>2. i > Len(q)
  BY <1>1 DEF Shifted
<1>3. j \in 1..Len(q) /\ t[j] = q[j]
  BY <1>1 DEF Shifted
<1>4. q[j].arg \in (k + 1)..n
  BY <1>3 DEF InOrder
<1>5. q[j].arg <= n
  BY <1>4
<1> QED  BY <1>1, <1>2, <1>3, <1>5

LEMMA EnableData ==
    ASSUME Inv, Inv', QueueInv, ArmedInv, ControlInv, Enable,
           NEW r \in Nat, NEW t \in Nat, NEW b \in Nat, Data(r, t, b)
    PROVE  \E v \in Nat : Data(r, t, v)'
<1>1. /\ UNCHANGED <<conn, sent, received, reported, sessions, store, session, attached, isStarted,
                     enableSent, prevUnacked, draining, lastHandledByServer>>
      /\ unackedByServer' = <<>> /\ unprocessedAcks' = <<>> /\ ~isStarted /\ ~enableSent
      /\ c2s' = Written("enable", 0)
      /\ moduleQ' = IF conn = "bound" THEN Append(moduleQ, Element("didSendEnable", 0, 0))
                    ELSE moduleQ
      /\ conn = "bound" \/ conn = "closed"
  BY DEF Enable, Cleanup, streamVars, serverVars, histVars
<1>2. /\ ~Resumed /\ ~Joined /\ ~Posting
      /\ conn = "bound" => attached = 0 /\ Dead(store.id) /\ ~Asking
  BY EnableControl
<1>3. \A i \in 1..Len(moduleQ) : moduleQ[i].name # "a"
  BY <1>2 DEF Data, Acks
<1>4. Len(unackedByServer') = 0 /\ Len(unprocessedAcks') = 0
  BY <1>1
<1>5. Read(r)' /\ Reported(t)'
  BY <1>1, SameSessions, ReadSame, ReportedKept DEF Data
<1>6. Kept'
  BY <1>1, <1>4 DEF Kept
<1>7. sent \in Nat /\ r <= sent /\ t <= sent
  BY DataTypes DEF Data, Queues, InOrder
<1>8. moduleQ \in Seq(ElementSet) /\ moduleQ' \in Seq(ElementSet)
      /\ c2s \in Seq(ElementSet) /\ c2s' \in Seq(ElementSet)
  BY DEF Inv, TypeOK, StreamTypeOK
<1>9. CASE conn = "closed"
  <2>1. UNCHANGED <<c2s, moduleQ>>
    BY <1>1, <1>9 DEF Written
  <2>2. /\ ~Posting' /\ ~Resumed' /\ ~Joined' /\ ~Live' /\ ~Awaiting'
        /\ Asking' <=> Asking
        /\ Dead(store.id)' <=> Dead(store.id)
    <3>1. ~Posting' /\ ~Resumed' /\ (Asking' <=> Asking)
      BY <1>2, <2>1 DEF Posting, Resumed, Asking, Holds
    <3>2. ~Joined'
      BY <1>1, <1>2, <2>1 DEF Joined, Holds
    <3>3. ~Live' /\ ~Awaiting'
      BY <1>1, <1>9, <3>1 DEF Live, Awaiting
    <3>4. Dead(store.id)' <=> Dead(store.id)
      BY <1>1 DEF Dead
    <3> QED  BY <3>1, <3>2, <3>3, <3>4
  <2>3. Queues(r, t, b)'
    <3>1. InOrder(c2s', "stanza", r, sent) /\ InOrder(moduleQ', "didSend", t, sent)
      BY <2>1 DEF Data, Queues
    <3>2. Divides(moduleQ', "didSendEnable", "didSend", b) /\ Divides(c2s', "enable", "stanza", b)
      BY <2>1 DEF Data, Queues
    <3>3. sent <= MaxOut /\ b \in 0..sent /\ (Asking => r <= b)
      BY DEF Data, Queues
    <3> QED  BY <1>1, <2>2, <3>1, <3>2, <3>3 DEF Queues, InOrder, Divides
  <2>4. Lined(r, t, b)' /\ Acks(b)' /\ Prior'
    BY <1>3, <2>1, <2>2 DEF Lined, Acks, Prior
  <2>5. Stores(r, b)'
    <3> SUFFICES ASSUME ~Dead(store.id)
                 PROVE  /\ Continues(r, b, store.id, store.hs, store.pending)'
                        /\ Continues(r, b, store.id, lastHandledByServer, unackedByServer)'
      BY <1>1, <2>2 DEF Stores
    <3>1. /\ Continues(r, b, store.id, store.hs, store.pending)
          /\ Continues(r, b, store.id, lastHandledByServer, unackedByServer)
      BY <1>1, <1>2 DEF Data, Stores
    <3>2. Continues(r, b, store.id, store.hs, store.pending)'
      BY <1>1, <3>1 DEF Continues, Aligned, Log
    <3>3. Continues(r, b, store.id, lastHandledByServer, unackedByServer)'
      BY <1>1, <1>4, <3>1 DEF Continues, Aligned, Log
    <3> QED  BY <3>2, <3>3
  <2>6. Data(r, t, b)'
    BY <1>5, <1>6, <2>3, <2>4, <2>5 DEF Data
  <2> QED  BY <2>6
<1>10. CASE conn = "bound"
  <2>1. PICK e, w : /\ e = Element("didSendEnable", 0, 0) /\ w = Element("enable", 0, 0)
                    /\ moduleQ' = Append(moduleQ, e) /\ c2s' = Append(c2s, w)
    BY <1>1, <1>10 DEF Written
  <2>2. e.name = "didSendEnable" /\ w.name = "enable" /\ e \in ElementSet /\ w \in ElementSet
    BY <2>1 DEF Element, ElementSet, ElementName
  <2>3. /\ Shifted(moduleQ, moduleQ', 0, {e}) /\ Len(moduleQ') = Len(moduleQ) + 1
        /\ Shifted(c2s, c2s', 0, {w}) /\ Len(c2s') = Len(c2s) + 1
    BY <1>8, <2>1, <2>2, ShiftedAppend
  <2>4. /\ \A i \in 1..Len(moduleQ) : moduleQ[i].name # "didSendEnable"
        /\ \A i \in 1..Len(c2s) : c2s[i].name # "enable"
    BY <1>2, <1>10, NamedHolds DEF Posting, Asking
  <2>5. InOrder(moduleQ, "didSend", t, sent) /\ InOrder(c2s, "stanza", r, sent) /\ sent <= MaxOut
    BY DEF Data, Queues
  <2>6. Divides(moduleQ', "didSendEnable", "didSend", sent)
    BY <1>7, <2>2, <2>3, <2>4, <2>5, MarkAppended
  <2>7. Divides(c2s', "enable", "stanza", sent)
    BY <1>7, <2>2, <2>3, <2>4, <2>5, MarkAppended
  <2>8. PICK d, more, written : d = 0 /\ more = {e} /\ written = {w}
    OBVIOUS
  <2>9. Shifted(moduleQ, moduleQ', d, more) /\ Shifted(c2s, c2s', d, written)
    BY <2>3, <2>8
  <2>10. InOrder(moduleQ', "didSend", t, sent)
    <3>1. (\A x \in more : x.name # "didSend") /\ (d = 1 => moduleQ[1].name # "didSend")
      BY <2>2, <2>8
    <3> QED  BY <1>7, <2>5, <2>9, <3>1, InOrderShifted
  <2>11. InOrder(c2s', "stanza", r, sent)
    <3>1. (\A x \in written : x.name # "stanza") /\ (d = 1 => c2s[1].name # "stanza")
      BY <2>2, <2>8
    <3> QED  BY <1>7, <2>5, <2>9, <3>1, InOrderShifted
  <2>12. /\ ~Resumed' /\ ~Joined' /\ ~Live' /\ ~Awaiting'
    <3>1. \A x \in more : x.name \notin {"resumed"} /\ x.name \notin {"enabled", "resumed"}
      BY <2>2, <2>8
    <3>2. \A names \in {{"resumed"}, {"enabled", "resumed"}} : Holds(moduleQ', names) => Holds(moduleQ, names)
      <4> TAKE names \in {{"resumed"}, {"enabled", "resumed"}}
      <4>1. \A x \in more : x.name \notin names
        BY <3>1
      <4> QED  BY <1>8, <2>9, <4>1, ShiftedHolds
    <3>3. ~Holds(moduleQ', {"resumed"}) /\ ~Holds(moduleQ', {"enabled", "resumed"})
      BY <1>2, <3>2 DEF Resumed, Joined
    <3>4. ~Resumed' /\ ~Joined'
      BY <1>1, <3>3 DEF Resumed, Joined, Holds
    <3> QED  BY <1>1, <1>10, <3>4 DEF Live, Awaiting
  <2>13. PICK v \in Nat : v = sent
    BY <1>7
  <2>14. Queues(r, t, v)'
    <3>1. /\ InOrder(c2s', "stanza", r, sent') /\ InOrder(moduleQ', "didSend", t, sent')
          /\ Divides(moduleQ', "didSendEnable", "didSend", v) /\ Divides(c2s', "enable", "stanza", v)
      BY <1>1, <2>6, <2>7, <2>10, <2>11, <2>13
    <3>2. sent' = v /\ v \in Nat /\ sent' <= MaxOut /\ v \in 0..sent' /\ t <= v /\ r <= v
      BY <1>1, <2>5, <2>13 DEF InOrder
    <3> QED  BY <3>1, <3>2 DEF Queues, InOrder, Divides
  <2>15. Acks(v)'
    <3>1. \A i \in 1..Len(moduleQ') : moduleQ'[i].name # "a"
      BY <1>3, <2>2, <2>3 DEF Shifted
    <3> QED  BY <3>1 DEF Acks
  <2>16. Dead(store.id)'
    BY <1>1, <1>2, <1>10 DEF Dead
  <2>17. Lined(r, t, v)' /\ Stores(r, v)' /\ Prior'
    BY <1>1, <2>12, <2>16 DEF Lined, Stores, Prior
  <2>18. Data(r, t, v)'
    BY <1>1, <1>5, <1>6, <2>14, <2>15, <2>17 DEF Data
  <2> QED  BY <2>18
<1> QED  BY <1>1, <1>9, <1>10

LEMMA ServerEnableData ==
    ASSUME Inv, Inv', QueueInv, ArmedInv, ControlInv, ServerHandlesEnable,
           NEW r \in Nat, NEW t \in Nat, NEW b \in Nat, Data(r, t, b)
    PROVE  Data(r, t, b)'
<1>1. /\ Take("enable")
      /\ UNCHANGED <<conn, sent, received, reported, isStarted, enableSent, prevUnacked, store,
                     draining, unackedByServer, lastHandledByServer, unprocessedAcks, session>>
  BY DEF ServerHandlesEnable, streamVars, moduleVars, flagVars, outVars, histVars
<1>2. /\ Asking /\ ~Asking' /\ conn \in {"bound", "closed"} /\ attached = 0
      /\ ~isStarted /\ ~Holds(moduleQ, Answers) /\ ~Resumed
  BY <1>1, AskedIsTaken
<1>3. /\ Len(sessions) \in Nat /\ sessions \in Seq(Session)
      /\ sessions' \in Seq(Session) /\ moduleQ \in Seq(ElementSet) /\ moduleQ' \in Seq(ElementSet)
  BY SessionTypes DEF Inv, TypeOK, ServerTypeOK, StreamTypeOK
<1>4. PICK e :
         /\ UNCHANGED moduleQ \/ (conn = "bound" /\ e \in ElementSet /\ moduleQ' = Append(moduleQ, e))
         /\ \/ e.name = "failed" /\ UNCHANGED <<sessions, attached>>
            \/ /\ e.name = "enabled" /\ attached' = Len(sessions) + 1
               /\ \E resume \in BOOLEAN : sessions' = Append(sessions, [log |-> <<>>, out |-> 0, alive |-> resume])
  <2> DEFINE s == Len(sessions) + 1
  <2>1. ASSUME NEW resume \in BOOLEAN,
               sessions' = Append(sessions, [log |-> <<>>, out |-> 0, alive |-> resume]),
               attached' = s,
               Arrives(<<Element("enabled", IF resume THEN s ELSE 0, s)>>, <<>>)
        PROVE  \E e : /\ UNCHANGED moduleQ \/ (conn = "bound" /\ e \in ElementSet /\ moduleQ' = Append(moduleQ, e))
                      /\ e.name = "enabled"
    <3>1. PICK f : f = Element("enabled", IF resume THEN s ELSE 0, s)
      OBVIOUS
    <3>2. f.name = "enabled" /\ f \in ElementSet
      BY <1>3, <3>1 DEF Element, ElementSet, ElementName
    <3>3. Arrives(<<f>>, <<>>)
      BY <2>1, <3>1
    <3>4. UNCHANGED moduleQ \/ (conn # "closed" /\ moduleQ' = Append(moduleQ, f))
      BY <3>3, ArrivedOrLost
    <3> QED  BY <1>2, <3>2, <3>4
  <2>2. ASSUME Arrives(<<Element("failed", 0, 0)>>, <<>>)
        PROVE  \E e : /\ UNCHANGED moduleQ \/ (conn = "bound" /\ e \in ElementSet /\ moduleQ' = Append(moduleQ, e))
                      /\ e.name = "failed"
    <3>1. PICK f : f = Element("failed", 0, 0)
      OBVIOUS
    <3>2. f.name = "failed" /\ f \in ElementSet
      BY <3>1 DEF Element, ElementSet, ElementName
    <3>3. Arrives(<<f>>, <<>>)
      BY <2>2, <3>1
    <3>4. UNCHANGED moduleQ \/ (conn # "closed" /\ moduleQ' = Append(moduleQ, f))
      BY <3>3, ArrivedOrLost
    <3> QED  BY <1>2, <3>2, <3>4
  <2>3. \/ \E resume \in BOOLEAN :
              /\ sessions' = Append(sessions, [log |-> <<>>, out |-> 0, alive |-> resume])
              /\ attached' = s
              /\ Arrives(<<Element("enabled", IF resume THEN s ELSE 0, s)>>, <<>>)
        \/ /\ Arrives(<<Element("failed", 0, 0)>>, <<>>)
           /\ UNCHANGED <<sessions, attached>>
    BY DEF ServerHandlesEnable
  <2>4. CASE Arrives(<<Element("failed", 0, 0)>>, <<>>) /\ UNCHANGED <<sessions, attached>>
    BY <2>2, <2>4
  <2>5. CASE \E resume \in BOOLEAN :
              /\ sessions' = Append(sessions, [log |-> <<>>, out |-> 0, alive |-> resume])
              /\ attached' = s
              /\ Arrives(<<Element("enabled", IF resume THEN s ELSE 0, s)>>, <<>>)
    <3> HIDE DEF s
    <3>1. PICK resume \in BOOLEAN :
              /\ sessions' = Append(sessions, [log |-> <<>>, out |-> 0, alive |-> resume])
              /\ attached' = s
              /\ Arrives(<<Element("enabled", IF resume THEN s ELSE 0, s)>>, <<>>)
      BY <2>5
    <3>2. PICK e : /\ UNCHANGED moduleQ \/ (conn = "bound" /\ e \in ElementSet /\ moduleQ' = Append(moduleQ, e))
                   /\ e.name = "enabled"
      BY <2>1, <3>1
    <3> QED  BY <3>1, <3>2 DEF s
  <2> QED  BY <2>3, <2>4, <2>5
<1>5. /\ \A s \in 1..Len(sessions) : s \in 1..Len(sessions') /\ sessions'[s] = sessions[s]
      /\ \A s \in 1..Len(sessions') : \/ s \in 1..Len(sessions)
                                      \/ s = Len(sessions) + 1 /\ s = attached' /\ Len(sessions'[s].log) = 0
      /\ attached' = 0 \/ (attached' = Len(sessions) + 1 /\ attached' \in 1..Len(sessions') /\ Len(sessions'[attached'].log) = 0)
  <2>1. CASE UNCHANGED <<sessions, attached>>
    BY <1>2, <2>1
  <2>2. CASE attached' = Len(sessions) + 1 /\ \E resume \in BOOLEAN :
                sessions' = Append(sessions, [log |-> <<>>, out |-> 0, alive |-> resume])
    <3>1. PICK x : sessions' = Append(sessions, x) /\ x.log = <<>>
      BY <2>2
    <3>2. Len(sessions') = Len(sessions) + 1 /\ sessions'[Len(sessions) + 1].log = <<>>
          /\ \A i \in 1..Len(sessions) : sessions'[i] = sessions[i]
      BY <1>3, <3>1
    <3> QED  BY <1>3, <2>2, <3>2
  <2> QED  BY <1>4, <2>1, <2>2
<1>6. LogsGrow
  <2> SUFFICES ASSUME NEW s \in 1..Len(sessions)
               PROVE  /\ s \in 1..Len(sessions') /\ (sessions'[s].alive => sessions[s].alive)
                      /\ Len(Log(s)) <= Len(sessions'[s].log)
                      /\ \A k \in 1..Len(Log(s)) : sessions'[s].log[k] = Log(s)[k]
    BY DEF LogsGrow
  <2>1. s \in 1..Len(sessions') /\ sessions'[s] = sessions[s] /\ Len(Log(s)) \in Nat
    BY <1>5, DataTypes
  <2> QED  BY <2>1 DEF Log
<1>7. PICK d, more : d = 0 /\ more = {e} \cap ElementSet /\ Shifted(moduleQ, moduleQ', d, more)
  <2>1. PICK d, more : d = 0 /\ more = {e} \cap ElementSet
    OBVIOUS
  <2>2. CASE UNCHANGED moduleQ
    BY <1>3, <2>1, <2>2, ShiftedSame
  <2>3. CASE e \in ElementSet /\ moduleQ' = Append(moduleQ, e)
    <3>1. e \in more
      BY <2>1, <2>3
    <3> QED  BY <1>3, <2>1, <2>3, <3>1, ShiftedAppend
  <2> QED  BY <1>4, <2>1, <2>2, <2>3
<1>8. \A x \in more : x.name \in {"enabled", "failed"}
  BY <1>4, <1>7
<1>9. PICK k, written : /\ k = 1 /\ written = {} /\ Shifted(c2s, c2s', k, written)
                        /\ 1 \in 1..Len(c2s) /\ c2s[1].name = "enable"
  BY <1>1, QueueTypes, ShiftedTail DEF Take
<1>10. /\ Posting' => Posting
       /\ ~Resumed' /\ ~Awaiting' /\ ~Joined
       /\ Joined' => attached' # 0
       /\ Live' <=> Live
  <2>1. ~Holds(moduleQ, {"resumed"}) /\ ~Holds(moduleQ, {"enabled", "resumed"})
    BY <1>2 DEF Holds, Answers
  <2>2. \A names \in {{"didSendEnable"}, {"resumed"}} : Holds(moduleQ', names) => Holds(moduleQ, names)
    <3> TAKE names \in {{"didSendEnable"}, {"resumed"}}
    <3>1. \A x \in more : x.name \notin names
      BY <1>8
    <3> QED  BY <1>3, <1>7, <3>1, ShiftedHolds
  <2>3. Holds(moduleQ', {"enabled", "resumed"}) => attached' # 0
    <3> SUFFICES ASSUME attached' = 0, Holds(moduleQ', {"enabled", "resumed"}) PROVE FALSE
      OBVIOUS
    <3>1. e.name = "failed"
      BY <1>3, <1>4
    <3>2. \A x \in more : x.name \notin {"enabled", "resumed"}
      BY <1>7, <3>1
    <3> QED  BY <1>3, <1>7, <2>1, <3>2, ShiftedHolds
  <2>4. Posting' <=> Holds(moduleQ', {"didSendEnable"})
    BY DEF Posting, Holds
  <2>5. Resumed' <=> Holds(moduleQ', {"resumed"})
    BY DEF Resumed, Holds
  <2>6. Joined' <=> isStarted' \/ Holds(moduleQ', {"enabled", "resumed"})
    BY DEF Joined, Holds
  <2>7. ~Awaiting'
    BY <1>1, <1>2 DEF Awaiting
  <2>8. ~Resumed' /\ ~Joined /\ (Joined' => attached' # 0) /\ (Posting' => Posting)
    BY <1>1, <1>2, <2>1, <2>2, <2>3, <2>4, <2>5, <2>6 DEF Posting, Joined
  <2> QED  BY <1>1, <1>2, <2>7, <2>8 DEF Live
<1>11. Start = 0 /\ Start' = 0
  BY <1>1, <1>2, <1>10 DEF Start
<1>12. Queues(r, t, b)'
  <2>1. /\ \A x \in more : x.name \notin {"didSend", "didSendEnable"}
        /\ d = 1 => moduleQ[1].name # "didSend"
        /\ \A x \in written : x.name \notin {"stanza", "enable"}
        /\ k = 1 => c2s[1].name # "stanza"
    BY <1>7, <1>8, <1>9
  <2> QED  BY <1>1, <1>2, <1>7, <1>9, <1>10, <2>1, DataTypes, QueuesShifted DEF Data
<1>13. r = b
  <2>1. /\ InOrder(c2s, "stanza", r, sent) /\ Divides(c2s, "enable", "stanza", b)
        /\ b \in 0..sent /\ r <= b
    BY <1>2 DEF Data, Queues
  <2> QED  BY <1>9, <2>1, DataTypes, NothingBefore
<1>14. Read(r)'
  <2>1. \A n \in received : n \in 1..r
    BY DEF Data, Read
  <2>2. ASSUME NEW s \in 1..Len(sessions')
        PROVE  Len(sessions'[s].log) <= r /\ \A i \in 1..Len(sessions'[s].log) : sessions'[s].log[i] \in received
    <3>1. CASE s \in 1..Len(sessions)
      <4>1. sessions'[s] = sessions[s]
        BY <1>5, <3>1
      <4> QED  BY <3>1, <4>1 DEF Data, Read, Log
    <3>2. CASE Len(sessions'[s].log) = 0
      BY <3>2
    <3> QED  BY <1>5, <3>1, <3>2
  <2> QED  BY <1>1, <2>1, <2>2 DEF Read, Log
<1>15. Reported(t)'
  BY <1>1, ReportedKept DEF Data
<1>16. Lined(r, t, b)'
  <2>1. Live' => /\ t = b + Start' + Len(unackedByServer')
                 /\ \A i \in 1..Len(unackedByServer') : unackedByServer'[i].n = b + Start' + i
    BY <1>1, <1>10, <1>11 DEF Data, Lined
  <2>2. Joined' => /\ attached' \in 1..Len(sessions') /\ Len(sessions'[attached'].log) = 0
    BY <1>5, <1>10
  <2>3. ASSUME Joined' PROVE \A i \in (Start' + 1)..Len(sessions'[attached'].log) : sessions'[attached'].log[i] = b + i
    BY <1>11, <2>2, <2>3
  <2> QED  BY <1>11, <1>13, <2>1, <2>2, <2>3 DEF Lined, Log
<1>17. Acks(b)'
  <2>1. \A i \in 1..Len(moduleQ) : moduleQ[i].name # "a"
    BY <1>10 DEF Data, Acks
  <2>2. \A i \in 1..Len(moduleQ') : moduleQ'[i].name # "a"
    BY <1>7, <1>8, <2>1 DEF Shifted
  <2> QED  BY <2>2 DEF Acks
<1>18. Kept'
  BY <1>1, <1>2, <1>6, DataTypes, KeptSame DEF Data
<1>19. Stores(r, b)'
  <2> SUFFICES ASSUME ~Dead(store.id)'
               PROVE  /\ Continues(r, b, store.id, store.hs, store.pending)'
                      /\ Continues(r, b, store.id, lastHandledByServer, unackedByServer)'
    BY <1>1, <1>2 DEF Stores
  <2>1. store.id \in 1..Len(sessions)
    BY <1>1, DataTypes DEF Dead
  <2>2. sessions'[store.id] = sessions[store.id] /\ attached' # store.id
    BY <1>3, <1>5, <2>1
  <2>3. ~Dead(store.id)
    BY <1>1, <2>1, <2>2 DEF Dead
  <2>4. /\ Continues(r, b, store.id, store.hs, store.pending)
        /\ Continues(r, b, store.id, lastHandledByServer, unackedByServer)
    BY <1>2, <2>3 DEF Data, Stores
  <2> QED  BY <1>1, <2>2, <2>4 DEF Continues, Aligned, Log
<1>20. Prior'
  BY <1>10 DEF Prior
<1> QED  BY <1>12, <1>14, <1>15, <1>16, <1>17, <1>18, <1>19, <1>20 DEF Data

-----------------------------------------------------------------------------
(* The server answers a <resume/>.                                            *)

LEMMA NoneLeft ==
    ASSUME NEW q, NEW name, NEW k \in Nat, NEW n \in Nat, InOrder(q, name, k, n),
           \A i \in 1..Len(q) : q[i].name # name
    PROVE  k = n
<1>1. \A m \in (k + 1)..n : FALSE
  BY DEF InOrder
<1>2. k <= n
  BY DEF InOrder
<1>3. ~(n \in (k + 1)..n)
  BY <1>1
<1> QED  BY <1>2, <1>3

\* What the module counts from now on of the session that goes on.
LEMMA ServerResumeData ==
    ASSUME Inv, Inv', QueueInv, ArmedInv, ControlInv, NoWrap, ServerHandlesResume, conn = "resuming",
           NEW r \in Nat, NEW t \in Nat, NEW b \in Nat, Data(r, t, b)
    PROVE  \E v \in Nat : Data(r, t, v)'
<1>1. /\ UNCHANGED <<sessions, sent, received, reported, isStarted, enableSent, prevUnacked, store,
                     draining, lastHandledByServer, unackedByServer, unprocessedAcks, session>>
  BY DEF ServerHandlesResume, moduleVars, flagVars, outVars, histVars
<1>2. /\ moduleQ = <<>> /\ Awaiting /\ conn' = "bound" /\ 1 \in 1..Len(moduleQ')
      /\ \A i \in 1..Len(moduleQ') : i = 1 \/ moduleQ'[i].name = "stanza"
      /\ session \in 1..Len(sessions) /\ session = store.id
      /\ \/ /\ sessions[session].alive /\ attached' = session
            /\ moduleQ'[1] = Element("resumed", HandledCount(session), session)
         \/ /\ ~sessions[session].alive /\ attached' = 0
            /\ moduleQ'[1] = Element("resumeFailed", 0, session)
      /\ \A i \in 1..Len(c2s) : c2s[i].name = "resume"
      /\ \A i \in 1..Len(c2s') : c2s'[i].name = "resume"
  BY ServerAnswersResume
<1>3. PICK n \in Nat : n = Len(Log(session))
  BY <1>2, DataTypes
<1>4. /\ HandledCount(session) = n /\ n <= r /\ r <= sent /\ sent \in Nat
  BY <1>2, <1>3, CountIsLength, DataTypes
<1>5. \/ /\ sessions[session].alive /\ attached' = session
         /\ moduleQ'[1].name = "resumed" /\ moduleQ'[1].arg = n
      \/ ~sessions[session].alive /\ attached' = 0 /\ moduleQ'[1].name = "resumeFailed"
  BY <1>2, <1>4 DEF Element
<1>6. /\ ~isStarted /\ ~enableSent /\ unackedByServer = <<>> /\ unprocessedAcks = <<>>
  <2>1. Resumes
    BY <1>2 DEF Resumes
  <2>2. ~isStarted /\ ~enableSent /\ unackedByServer = <<>>
    BY <2>1 DEF ArmedInv, Restored, Idle, OutClean
  <2> QED  BY <1>2, <2>2 DEF ControlInv, Resuming
<1>7. Len(unackedByServer') = 0 /\ Len(unprocessedAcks') = 0 /\ Len(moduleQ) = 0
  BY <1>1, <1>2, <1>6
<1>8. moduleQ' \in Seq(ElementSet) /\ c2s' \in Seq(ElementSet) /\ moduleQ' # <<>>
  BY <1>2, EmptySeq DEF Inv, TypeOK, StreamTypeOK
<1>9. /\ ~Asking' /\ ~Posting' /\ ~Awaiting'
      /\ Resumed' <=> moduleQ'[1].name = "resumed"
      /\ Joined' <=> moduleQ'[1].name = "resumed"
      /\ Live' <=> moduleQ'[1].name = "resumed"
  <2>1. ~Holds(c2s', {"enable"})
    BY <1>2, <1>8, HoldsAt
  <2>2. ~Holds(moduleQ', {"didSendEnable"})
    BY <1>2, <1>5, <1>8, HoldsAt
  <2>3. Holds(moduleQ', {"resumed"}) <=> moduleQ'[1].name = "resumed"
    BY <1>2, <1>8, HoldsAt
  <2>4. Holds(moduleQ', {"enabled", "resumed"}) <=> moduleQ'[1].name = "resumed"
    <3>1. (\E i \in 1..Len(moduleQ') : moduleQ'[i].name \in {"enabled", "resumed"})
             <=> moduleQ'[1].name = "resumed"
      BY <1>2, <1>5
    <3>2. Holds(moduleQ', {"enabled", "resumed"})
             <=> \E i \in 1..Len(moduleQ') : moduleQ'[i].name \in {"enabled", "resumed"}
      BY <1>8, HoldsAt
    <3> QED  BY <3>1, <3>2
  <2>5. Resumed' <=> moduleQ'[1].name = "resumed"
    BY <2>3 DEF Resumed, Holds
  <2>6. Joined' <=> moduleQ'[1].name = "resumed"
    BY <1>1, <1>6, <2>4 DEF Joined, Holds
  <2>7. Live' <=> moduleQ'[1].name = "resumed"
    BY <1>1, <1>6, <2>5 DEF Live
  <2> QED  BY <1>1, <1>2, <2>1, <2>2, <2>5, <2>6, <2>7 DEF Asking, Posting, Awaiting, Holds
<1>10. r = sent /\ t = sent /\ b \in 0..sent /\ sent <= MaxOut
  <2>1. InOrder(c2s, "stanza", r, sent) /\ InOrder(moduleQ, "didSend", t, sent)
        /\ b \in 0..sent /\ sent <= MaxOut
    BY DEF Data, Queues
  <2>2. r = sent
    BY <1>2, <1>4, <2>1, NoneLeft
  <2>3. t = sent
    BY <1>4, <1>7, <2>1, NoneLeft
  <2> QED  BY <2>1, <2>2, <2>3
<1>11. PICK v \in Nat : /\ sessions[session].alive => v = sent - n
                        /\ ~sessions[session].alive => v = b
  <2>1. sent - n \in Nat
    BY <1>4
  <2> QED  BY <2>1, Zenon
<1>12. v \in 0..sent
  <2>1. v = sent - n \/ v = b
    BY <1>11, Zenon
  <2> QED  BY <1>4, <1>10, <2>1
<1>13. Queues(r, t, v)'
  <2>1. InOrder(c2s', "stanza", sent, sent) /\ InOrder(moduleQ', "didSend", sent, sent)
    <3>1. /\ \A i \in 1..Len(c2s') : c2s'[i].name # "stanza"
          /\ \A i \in 1..Len(moduleQ') : moduleQ'[i].name # "didSend"
      BY <1>2, <1>5
    <3> QED  BY <1>4, <3>1, InOrderNone
  <2>2. Divides(c2s', "enable", "stanza", v) /\ Divides(moduleQ', "didSendEnable", "didSend", v)
    <3>1. /\ \A i \in 1..Len(c2s') : c2s'[i].name # "enable"
          /\ \A i \in 1..Len(moduleQ') : moduleQ'[i].name # "didSendEnable"
      BY <1>2, <1>5
    <3> QED  BY <3>1, DividesUnmarked
  <2> QED  BY <1>1, <1>9, <1>10, <1>12, <2>1, <2>2 DEF Queues, InOrder, Divides
<1>14. Read(r)'
  BY <1>1, SameSessions, ReadSame DEF Data
<1>15. Reported(t)'
  BY <1>1, ReportedKept DEF Data
<1>16. Kept'
  BY <1>1, <1>6, <1>7 DEF Kept
<1>17. Acks(v)'
  <2>1. \A i \in 1..Len(moduleQ') : moduleQ'[i].name # "a"
    BY <1>2, <1>5
  <2> QED  BY <2>1 DEF Acks
<1>18. CASE sessions[session].alive
  <2>1. /\ attached' = session /\ Resumed' /\ Joined' /\ Live' /\ moduleQ'[1].arg = n /\ v = sent - n
    BY <1>5, <1>9, <1>11, <1>18
  <2>2. Start' = n
    BY <1>1, <1>6, <2>1 DEF Start
  <2>3. Lined(r, t, v)'
    <3>1. t = v + Start' + Len(unackedByServer') /\ r = v + n /\ Start' <= n
      BY <1>4, <1>7, <1>10, <2>1, <2>2
    <3>2. /\ \A i \in 1..Len(unackedByServer') : unackedByServer'[i].n = v + Start' + i
          /\ \A k \in (Start' + 1)..n : sessions[session].log[k] = v + k
      BY <1>7, <2>2
    <3>3. attached' \in 1..Len(sessions') /\ Log(attached)' = Log(session) /\ Len(Log(attached)') = n
      BY <1>1, <1>2, <1>3, <2>1 DEF Log
    <3> QED  BY <3>1, <3>2, <3>3 DEF Lined, Log
  <2>4. Stores(r, v)'
    BY <1>1, <1>6, <2>1 DEF Stores
  <2>5. Prior'
    <3>1. ~Dead(store.id) /\ ~Dead(session) /\ ~Resumed
      <4>1. ~Dead(session)
        BY <1>2, <1>18, DataTypes DEF Dead
      <4>2. ~Resumed
        BY <1>2, HoldsNothing DEF Resumed
      <4> QED  BY <1>2, <4>1, <4>2
    <3>2. Continues(r, b, store.id, store.hs, store.pending)
      BY <1>6, <3>1 DEF Data, Stores
    <3>3. store.hs <= n
      BY <1>2, <1>3, <3>2 DEF Continues
    <3>4. Aligned(session, store.hs, prevUnacked, n)
      BY <1>2, <1>3, <3>1 DEF Data, Prior
    <3>5. Len(Log(session)') = n
      BY <1>1, <1>3 DEF Log
    <3> QED  BY <1>1, <1>9, <2>1, <3>3, <3>4, <3>5 DEF Prior, Aligned, Log
  <2>6. Data(r, t, v)'
    BY <1>13, <1>14, <1>15, <1>16, <1>17, <2>3, <2>4, <2>5 DEF Data
  <2> QED  BY <2>6
<1>19. CASE ~sessions[session].alive
  <2>1. ~Resumed' /\ ~Joined' /\ ~Live'
    BY <1>5, <1>9, <1>19
  <2>2. Dead(store.id)'
    BY <1>1, <1>2, <1>19 DEF Dead
  <2>3. Lined(r, t, v)' /\ Stores(r, v)' /\ Prior'
    BY <1>1, <1>6, <1>9, <2>1, <2>2 DEF Lined, Stores, Prior
  <2>4. Data(r, t, v)'
    BY <1>13, <1>14, <1>15, <1>16, <1>17, <2>3 DEF Data
  <2> QED  BY <2>4
<1> QED  BY <1>18, <1>19

-----------------------------------------------------------------------------
(* Every step.                                                                *)

DataInv == \E r, t, b \in Nat : Data(r, t, b)

LEMMA DataPreserved ==
    ASSUME Inv, Inv', QueueInv, ArmedInv, ControlInv, NoWrap, KeepsResuming, DataInv, [Next]_vars
    PROVE  DataInv'
<1>1. PICK r \in Nat, t \in Nat, b \in Nat : Data(r, t, b)
  BY DEF DataInv
<1>2. ASSUME NEW x \in Nat, NEW y \in Nat, NEW z \in Nat, Data(x, y, z)' PROVE DataInv'
  BY <1>2 DEF DataInv
<1>3. CASE UNCHANGED vars
  <2>1. Data(r, t, b)'
    BY <1>1, <1>3, OtherNeutral, DataNeutral
  <2> QED  BY <1>2, <2>1
<1>4. CASE HandleCallback
  <2>1. CASE HandleStanza \/ HandleFiltered \/ HandleRequest
    <3>1. Data(r, t, b)'
      BY <1>1, <2>1, IncomingNeutral, DataNeutral
    <3> QED  BY <1>2, <3>1
  <2>2. CASE HandleClosing
    <3>1. Data(r, t, b)'
      BY <1>1, <2>2, OtherNeutral, DataNeutral
    <3> QED  BY <1>2, <3>1
  <2>3. CASE HandleDidSend
    <3>1. PICK v \in Nat : v = t + 1
      OBVIOUS
    <3>2. Data(r, t + 1, b)'
      BY <1>1, <2>3, DidSendData
    <3>3. Data(r, v, b)'
      BY <3>1, <3>2
    <3> QED  BY <1>2, <3>3
  <2>4. CASE HandleAck
    <3>1. Data(r, t, b)'
      BY <1>1, <2>4, HandleAckData
    <3> QED  BY <1>2, <3>1
  <2>5. CASE HandleDidSendEnable \/ HandleEnabled \/ HandleFailed
    <3>1. Data(r, t, b)'
      BY <1>1, <2>5, DidSendEnableData, HandleEnabledData, HandleFailedData
    <3> QED  BY <1>2, <3>1
  <2>6. CASE HandleSendResume \/ HandleResumed
    <3>1. Data(r, t, b)'
      BY <1>1, <2>6, HandleSendResumeData, HandleResumedData
    <3> QED  BY <1>2, <3>1
  <2>7. CASE HandleResumeFailed \/ HandleDidDisconnect
    <3>1. Data(r, t, b)'
      BY <1>1, <2>7, ResumeFailedData, HandleDidDisconnectData
    <3> QED  BY <1>2, <3>1
  <2> QED  BY <1>4, <2>1, <2>2, <2>3, <2>4, <2>5, <2>6, <2>7 DEF HandleCallback
<1>5. CASE Drain \/ Delegates \/ Timers
  <2>1. CASE DrainAck \/ DrainBlocked \/ DrainDone
    <3>1. Data(r, t, b)'
      BY <1>1, <2>1, DrainAckData, DrainBlockedData, DrainDoneData
    <3> QED  BY <1>2, <3>1
  <2>2. CASE AnswerStanzaId
    <3>1. Data(r, t, b)'
      BY <1>1, <2>2, AnswerStanzaIdData
    <3> QED  BY <1>2, <3>1
  <2>3. CASE DelegateDecides \/ AnswerHandled \/ MarkHandledStanzaId \/ CallSendAck
    <3>1. Data(r, t, b)'
      BY <1>1, <2>3, HandledNeutral, DataNeutral
    <3> QED  BY <1>2, <3>1
  <2>4. CASE AutoRequestTimerFires
    <3>1. Data(r, t, b)'
      BY <1>1, <2>4, OtherNeutral, DataNeutral
    <3> QED  BY <1>2, <3>1
  <2> QED  BY <1>5, <2>1, <2>2, <2>3, <2>4 DEF Drain, Delegates, Timers
<1>6. CASE Server
  <2>1. CASE \/ ServerHandlesClose \/ ServerSendsRequest \/ ServerSendsStanza \/ ServerExpires
             \/ (ServerHandlesResume /\ conn # "resuming")
             \/ (ServerHandlesRequest /\ (attached = 0 \/ conn = "closed"))
    <3>1. Data(r, t, b)'
      BY <1>1, <2>1, ServerNeutral, DataNeutral
    <3> QED  BY <1>2, <3>1
  <2>2. CASE ServerSendsAck \/ (ServerHandlesRequest /\ attached # 0 /\ conn # "closed")
    <3>1. attached # 0 /\ conn # "closed"
      BY <2>2 DEF ServerSendsAck
    <3>2. Data(r, t, b)'
      BY <1>1, <2>2, <3>1, AckArrivesData
    <3> QED  BY <1>2, <3>2
  <2>3. CASE ServerHandlesStanza
    <3>1. PICK v \in Nat : v = r + 1
      OBVIOUS
    <3>2. Data(r + 1, t, b)'
      BY <1>1, <2>3, ServerStanzaData
    <3>3. Data(v, t, b)'
      BY <3>1, <3>2
    <3> QED  BY <1>2, <3>3
  <2>4. CASE ServerHandlesEnable
    <3>1. Data(r, t, b)'
      BY <1>1, <2>4, ServerEnableData
    <3> QED  BY <1>2, <3>1
  <2>5. CASE ServerHandlesResume /\ conn = "resuming"
    <3>1. PICK v \in Nat : Data(r, t, v)'
      BY <1>1, <2>5, ServerResumeData
    <3> QED  BY <1>2, <3>1
  <2> QED  BY <1>6, <2>1, <2>2, <2>3, <2>4, <2>5 DEF Server
<1>7. CASE Stream
  <2>1. CASE ContinueReceive
    <3>1. Data(r, t, b)'
      BY <1>1, <2>1, OtherNeutral, DataNeutral
    <3> QED  BY <1>2, <3>1
  <2>2. CASE Connect
    <3>1. PICK v : v = sent
      OBVIOUS
    <3>2. sent \in Nat /\ Data(sent, t, b)'
      BY <1>1, <2>2, ConnectData
    <3>3. UNCHANGED sent
      BY <2>2 DEF Connect
    <3>4. v \in Nat /\ Data(v, t, b)'
      BY <3>1, <3>2, <3>3
    <3> QED  BY <1>2, <3>4
  <2>3. CASE StartCustomBinding \/ StartStandardBinding \/ Disconnect
    <3>1. Data(r, t, b)'
      BY <1>1, <2>3, BindingData, DisconnectData
    <3> QED  BY <1>2, <3>1
  <2>4. CASE Crash
    <3>1. PICK v : v = sent
      OBVIOUS
    <3>2. sent \in Nat /\ Data(r, sent, b)'
      BY <1>1, <2>4, CrashData
    <3>3. UNCHANGED sent
      BY <2>4 DEF Crash
    <3>4. v \in Nat /\ Data(r, v, b)'
      BY <3>1, <3>2, <3>3
    <3> QED  BY <1>2, <3>4
  <2> QED  BY <1>7, <2>1, <2>2, <2>3, <2>4 DEF Stream
<1>8. CASE Application
  <2>1. CASE CallRequestAck
    <3>1. Data(r, t, b)'
      BY <1>1, <2>1, OtherNeutral, DataNeutral
    <3> QED  BY <1>2, <3>1
  <2>2. CASE SendStanza
    <3>1. Data(r, t, b)'
      BY <1>1, <2>2, SendData
    <3> QED  BY <1>2, <3>1
  <2>3. CASE Enable
    <3>1. PICK v \in Nat : Data(r, t, v)'
      BY <1>1, <2>3, EnableData
    <3> QED  BY <1>2, <3>1
  <2> QED  BY <1>8, <2>1, <2>2, <2>3 DEF Application
<1> QED  BY <1>3, <1>4, <1>5, <1>6, <1>7, <1>8 DEF Next

LEMMA DataInitially == Init => DataInv
<1> SUFFICES ASSUME Init PROVE DataInv
  OBVIOUS
<1>1. /\ moduleQ = <<>> /\ c2s = <<>> /\ Len(moduleQ) = 0 /\ Len(c2s) = 0 /\ sent = 0
      /\ conn = "closed" /\ store.id = 0 /\ Len(store.pending) = 0
      /\ Len(prevUnacked) = 0 /\ Len(unackedByServer) = 0 /\ Len(unprocessedAcks) = 0
      /\ ~isStarted /\ ~enableSent /\ received = {} /\ reported = {} /\ Len(sessions) = 0
      /\ MaxOut \in Nat
  BY BoundsAssumption DEF Init, EmptyStore
<1>2. ~Posting /\ ~Resumed /\ ~Joined /\ ~Awaiting /\ ~Asking /\ ~Live
  BY <1>1, HoldsNothing DEF Posting, Resumed, Joined, Awaiting, Asking, Live
<1>3. Queues(0, 0, 0)
  BY <1>1, <1>2 DEF Queues, InOrder, Divides
<1>4. Read(0) /\ Reported(0)
  BY <1>1 DEF Read, Reported, Waiting
<1>5. Lined(0, 0, 0) /\ Acks(0) /\ Kept
  BY <1>1, <1>2 DEF Lined, Acks, Kept
<1>6. Stores(0, 0) /\ Prior
  BY <1>1, <1>2 DEF Stores, Prior, Dead
<1>7. Data(0, 0, 0)
  BY <1>3, <1>4, <1>5, <1>6 DEF Data
<1> QED  BY <1>7 DEF DataInv

-----------------------------------------------------------------------------
(* Acknowledged delivery: what each step does for it.                          *)

\* Ids that are distinct are counted as they are reported.
LEMMA IdsCounted ==
    ASSUME NEW s, NEW k \in Nat, \A i \in 1..k : s[i].id \in {0, s[i].n} /\ s[i].n \in Nat,
           \A i, j \in 1..k : i < j => s[i].n < s[j].n
    PROVE  Cardinality({i \in 1..k : s[i].id # 0}) = Cardinality(IdsOf(s, k))
<1> DEFINE P == {i \in 1..k : s[i].id # 0}
           f == [i \in P |-> s[i].id]
<1>1. IsFiniteSet(P)
  <2>1. IsFiniteSet(1..k) /\ P \in SUBSET (1..k)
    BY FS_Interval
  <2> HIDE DEF P
  <2> QED  BY <2>1, FS_Subset
<1>2. \A i \in P : s[i].id \in IdsOf(s, k) /\ s[i].id = s[i].n
  BY DEF IdsOf
<1>3. f \in [P -> IdsOf(s, k)]
  BY <1>2
<1>4. \A x, y \in P : f[x] = f[y] => x = y
  <2> SUFFICES ASSUME NEW x \in P, NEW y \in P, f[x] = f[y], x # y PROVE FALSE
    OBVIOUS
  <2>1. s[x].n = s[y].n /\ x \in 1..k /\ y \in 1..k
    BY <1>2
  <2>2. x < y \/ y < x
    BY <2>1
  <2>3. s[x].n < s[y].n \/ s[y].n < s[x].n
    BY <2>1, <2>2
  <2> QED  BY <2>1, <2>3
<1>5. \A x \in IdsOf(s, k) : \E i \in P : f[i] = x
  BY DEF IdsOf
<1>6. DOMAIN f = P
  OBVIOUS
<1> HIDE DEF f, P
<1>7. f \in Bijection(P, IdsOf(s, k))
  BY <1>3, <1>4, <1>5, <1>6 DEF Bijection, Injection, Surjection, IsInjective
<1>8. Cardinality(IdsOf(s, k)) = Cardinality(P)
  BY <1>1, <1>7, FS_Bijection DEF ExistsBijection
<1> QED  BY <1>8 DEF P

LEMMA CountedAlike == \A S : Delivery!Cardinality(S) = Cardinality(S)
BY DEF Delivery!Cardinality, Cardinality

\* The first k stanzas of s, which the server handled, are reported; or none has an id.
LEMMA ReportDelivers ==
    ASSUME Inv, UNCHANGED <<sent, received>>, NEW t \in Nat, NEW s \in Seq(OutgoingItem), Waiting(s, t),
           NEW k \in 0..Len(s), \A i \in 1..k : s[i].n \in received,
           reported' = reported \cup IdsOf(s, k),
           reports' = reports + Cardinality({i \in 1..k : s[i].id # 0})
    PROVE  [Delivery!Next]_(Delivery!deliveryVars)
<1>1. Len(s) \in Nat /\ \A i \in 1..Len(s) : s[i] \in OutgoingItem
  BY LenProperties, ElementOfSeq
<1>2. \A i \in 1..k : /\ s[i].n \in Nat /\ s[i].id \in {0, s[i].n} /\ \A m \in reported : m < s[i].n
                      /\ \A j \in 1..k : i < j => s[i].n < s[j].n
  <2>1. \A i \in 1..k : i \in 1..Len(s)
    BY <1>1
  <2> QED  BY <1>1, <2>1 DEF Waiting, OutgoingItem
<1>3. reports' = reports + Cardinality(IdsOf(s, k))
  BY <1>1, <1>2, IdsCounted
<1>4. \A x \in IdsOf(s, k) : x \in received /\ \A m \in reported : m < x
  BY <1>2 DEF IdsOf
<1>5. CASE IdsOf(s, k) = {}
  <2>1. reports' = reports + 0 /\ reports \in Nat /\ UNCHANGED reported
    BY <1>3, <1>5, FS_EmptySet DEF Inv, TypeOK, HistTypeOK
  <2> QED  BY <2>1 DEF Delivery!deliveryVars
<1>6. CASE IdsOf(s, k) # {}
  <2>1. PICK new : new = IdsOf(s, k)
    OBVIOUS
  <2>2. /\ new \in SUBSET received /\ new # {} /\ \A n \in new, m \in reported : m < n
        /\ reported' = reported \cup new /\ reports' = reports + Cardinality(new)
    BY <1>3, <1>4, <1>6, <2>1
  <2>3. Delivery!Report
    BY <2>2, CountedAlike DEF Delivery!Report
  <2> QED  BY <2>3 DEF Delivery!Next
<1> QED  BY <1>5, <1>6

LEMMA AckDelivers ==
    ASSUME Inv, NoWrap, ControlInv, UNCHANGED <<sent, received>>, NEW h \in Nat, h < Modulus,
           Acknowledges(h), ProcessAck(h), NEW t \in Nat, Reported(t)
    PROVE  [Delivery!Next]_(Delivery!deliveryVars)
<1>1. PICK k \in 0..(h - lastHandledByServer) :
         /\ Reporting(k) /\ Acknowledges(lastHandledByServer + k)
         /\ reports' = reports + Cardinality({i \in 1..k : unackedByServer[i].id # 0})
  BY AckReports
<1>2. lastHandledByServer \in Nat /\ unackedByServer \in Seq(OutgoingItem)
  BY OutgoingTypes
<1>3. k \in 0..Len(unackedByServer) /\ reported' = reported \cup IdsOf(unackedByServer, k)
  BY <1>1 DEF Reporting
<1>4. \A i \in 1..k : unackedByServer[i].n \in received
  <2>1. k \in Nat /\ (lastHandledByServer + k) - lastHandledByServer = k
    BY <1>2, <1>3, OutgoingTypes
  <2> QED  BY <1>1, <2>1 DEF Acknowledges
<1>5. Waiting(unackedByServer, t)
  BY DEF Reported
<1> QED  BY <1>1, <1>2, <1>3, <1>4, <1>5, ReportDelivers

LEMMA ResumedDelivers ==
    ASSUME Inv, Inv', QueueInv, ArmedInv, ControlInv, NoWrap, HandleResumed,
           NEW r \in Nat, NEW t \in Nat, NEW b \in Nat, Data(r, t, b)
    PROVE  [Delivery!Next]_(Delivery!deliveryVars)
<1>1. /\ UNCHANGED <<sent, received>>
      /\ moduleQ # <<>> /\ moduleQ' = Tail(moduleQ) /\ Head(moduleQ).name = "resumed"
      /\ Report(prevUnacked, Smaller(AckDiff(Head(moduleQ).arg), Len(prevUnacked)))
  BY DEF HandleResumed, Next_is, streamVars, serverVars
<1>2. moduleQ[1].name = "resumed" /\ 1 \in 1..Len(moduleQ) /\ Head(moduleQ) = moduleQ[1]
  BY <1>1, TakenShifted
<1>3. PICK h \in Nat : h = moduleQ[1].arg
  BY <1>2, DataTypes
<1>4. PICK a : a = Smaller(AckDiff(h), Len(prevUnacked))
  OBVIOUS
<1>5. /\ reported' = reported \cup IdsOf(prevUnacked, a)
      /\ reports' = reports + Cardinality({i \in 1..a : prevUnacked[i].id # 0})
  BY <1>1, <1>2, <1>3, <1>4 DEF Report
<1>6. Resumed /\ Joined
  BY <1>2, NamedHolds DEF Resumed, Joined
<1>7. session = store.id /\ attached = session /\ store.hs = lastHandledByServer
  BY <1>6 DEF ControlInv, Resuming
<1>8. /\ session \in 1..Len(sessions) /\ store.hs <= h /\ h <= Len(Log(session))
      /\ Len(Log(session)) \in Nat /\ store.hs \in Nat /\ Aligned(session, store.hs, prevUnacked, h)
  <2>1. session \in 1..Len(sessions)
    BY <1>6, <1>7 DEF Data, Lined
  <2>2. /\ store.hs <= h /\ h <= Len(Log(session)) /\ Aligned(session, store.hs, prevUnacked, h)
    BY <1>3, <1>6 DEF Data, Prior
  <2> QED  BY <2>1, <2>2, DataTypes
<1>9. a \in 0..Len(prevUnacked) /\ store.hs + a <= h
  <2>1. AckDiff(h) = h - store.hs
    BY <1>7, <1>8 DEF AckDiff
  <2>2. Len(prevUnacked) \in Nat
    BY DataTypes
  <2> QED  BY <1>4, <1>8, <2>1, <2>2 DEF Smaller
<1>10. \A i \in 1..a : prevUnacked[i].n \in received
  <2> TAKE i \in 1..a
  <2>1. i \in 1..Len(prevUnacked) /\ store.hs + i <= h
    <3>1. PICK n, x \in Nat : n = Len(prevUnacked) /\ x = store.hs
      BY <1>8, DataTypes
    <3>2. i \in 1..n /\ x + i <= h
      BY <1>9, <3>1
    <3> QED  BY <3>1, <3>2
  <2>2. prevUnacked[i].n = Log(session)[store.hs + i]
    BY <1>8, <2>1 DEF Aligned
  <2>3. store.hs + i \in 1..Len(Log(session))
    BY <1>8, <2>1
  <2>4. Log(session)[store.hs + i] \in received
    BY <1>8, <2>3 DEF Data, Read
  <2> QED  BY <2>2, <2>4
<1>11. Waiting(prevUnacked, t) /\ prevUnacked \in Seq(OutgoingItem)
  BY DataTypes DEF Data, Reported
<1> QED  BY <1>1, <1>5, <1>9, <1>10, <1>11, ReportDelivers

\* The server never handles an earlier stanza after a later one.
LEMMA StanzaDelivers ==
    ASSUME Inv, ServerHandlesStanza, NEW r \in Nat, NEW t \in Nat, NEW b \in Nat, Data(r, t, b)
    PROVE  [Delivery!Next]_(Delivery!deliveryVars)
<1>1. /\ c2s # <<>> /\ c2s' = Tail(c2s) /\ Head(c2s).name = "stanza"
      /\ received' = received \cup {Head(c2s).arg} /\ UNCHANGED <<sent, reported, reports>>
  BY DEF ServerHandlesStanza, Take, streamVars, histVars
<1>2. Shifted(c2s, c2s', 1, {}) /\ Head(c2s) = c2s[1] /\ 1 \in 1..Len(c2s)
  BY <1>1, QueueTypes, ShiftedTail
<1>3. c2s[1].arg = r + 1 /\ r + 1 <= sent
  BY <1>1, <1>2, DataTypes, InOrderTaken DEF Data, Queues
<1>4. \A m \in received : m < r + 1
  BY DEF Data, Read
<1>5. PICK new : new = {r + 1}
  OBVIOUS
<1>6. /\ new \in SUBSET (1..sent) /\ new # {} /\ \A n \in new, m \in received : m < n
      /\ received' = received \cup new
  <2>1. r + 1 \in 1..sent
    BY <1>1, <1>2, <1>3, DataTypes
  <2> QED  BY <1>1, <1>3, <1>4, <1>5, <2>1
<1>7. Delivery!Receive
  BY <1>1, <1>6 DEF Delivery!Receive
<1> QED  BY <1>7 DEF Delivery!Next

LEMMA StepDelivers ==
    ASSUME Inv, Inv', QueueInv, ArmedInv, ControlInv, NoWrap, DataInv, [Next]_vars
    PROVE  [Delivery!Next]_(Delivery!deliveryVars)
<1>1. PICK r \in Nat, t \in Nat, b \in Nat : Data(r, t, b)
  BY DEF DataInv
<1>2. Reported(t)
  BY <1>1 DEF Data
<1>3. ASSUME UNCHANGED <<sent, received, reported, reports>>
      PROVE  [Delivery!Next]_(Delivery!deliveryVars)
  BY <1>3 DEF Delivery!deliveryVars
<1>4. CASE SendStanza
  <2>1. Delivery!Send
    BY <1>4 DEF SendStanza, Delivery!Send, serverVars, histVars
  <2> QED  BY <2>1 DEF Delivery!Next
<1>5. CASE ServerHandlesStanza
  BY <1>1, <1>5, StanzaDelivers
<1>6. CASE HandleResumed
  BY <1>1, <1>6, ResumedDelivers
<1>7. CASE HandleAck
  <2>1. isStarted /\ moduleQ[1].name = "a" /\ 1 \in 1..Len(moduleQ)
    BY <1>7, AckControl
  <2>2. PICK h \in Nat : h = moduleQ[1].arg
    BY <2>1, DataTypes
  <2>3. UNCHANGED <<sent, received>> /\ ProcessAck(h)
    <3>1. Head(moduleQ) = moduleQ[1]
      BY <1>7, QueueTypes, ShiftedTail DEF HandleAck, Next_is
    <3> QED  BY <1>7, <2>2, <3>1 DEF HandleAck, streamVars, serverVars
  <2>4. h < Modulus /\ Acknowledges(h)
    BY <1>1, <2>1, <2>2, AckIsTrue
  <2> QED  BY <1>2, <2>3, <2>4, AckDelivers
<1>8. CASE DrainAck \/ DrainBlocked
  <2>1. unprocessedAcks # <<>> /\ UNCHANGED <<sent, received>>
    BY <1>8 DEF DrainAck, DrainBlocked, streamVars, serverVars
  <2>2. PICK h \in Nat : h = unprocessedAcks[1]
    BY <1>1, <2>1, KeptIsTrue
  <2>3. h < Modulus /\ Acknowledges(h)
    BY <1>1, <2>1, <2>2, KeptIsTrue
  <2>4. ProcessAck(h) \/ UNCHANGED <<reported, reports>>
    <3>1. Head(unprocessedAcks) = h
      BY <2>1, <2>2, OutgoingTypes, ShiftedTail
    <3> QED  BY <1>8, <3>1 DEF DrainAck, DrainBlocked
  <2> QED  BY <1>2, <1>3, <2>1, <2>3, <2>4, AckDelivers
<1>9. CASE UNCHANGED vars
  BY <1>3, <1>9 DEF vars, streamVars, serverVars, histVars
<1>10. CASE \/ HandleDidSend \/ HandleStanza \/ HandleFiltered \/ HandleRequest
            \/ HandleDidSendEnable \/ HandleEnabled \/ HandleFailed
            \/ HandleSendResume \/ HandleResumeFailed \/ HandleClosing \/ HandleDidDisconnect
  <2>1. ASSUME HandleDidSend \/ HandleStanza \/ HandleFiltered \/ HandleRequest
        PROVE  UNCHANGED <<sent, received, reported, reports>>
    BY <2>1 DEF HandleDidSend, HandleStanza, HandleFiltered, HandleRequest,
       streamVars, serverVars, histVars
  <2>2. ASSUME HandleDidSendEnable \/ HandleEnabled \/ HandleFailed
        PROVE  UNCHANGED <<sent, received, reported, reports>>
    BY <2>2 DEF HandleDidSendEnable, HandleEnabled, HandleFailed, streamVars, serverVars, histVars
  <2>3. ASSUME HandleSendResume \/ HandleResumeFailed \/ HandleClosing \/ HandleDidDisconnect
        PROVE  UNCHANGED <<sent, received, reported, reports>>
    BY <2>3 DEF HandleSendResume, HandleResumeFailed, HandleClosing, HandleDidDisconnect,
       streamVars, serverVars, histVars
  <2> QED  BY <1>3, <1>10, <2>1, <2>2, <2>3
<1>11. CASE DrainDone \/ Delegates \/ Timers
  <2>1. UNCHANGED <<sent, received, reported, reports>>
    BY <1>11 DEF DrainDone, Delegates, Timers, AnswerStanzaId, DelegateDecides, AnswerHandled,
       MarkHandledStanzaId, AutoRequestTimerFires, CallSendAck, streamVars, serverVars, histVars
  <2> QED  BY <1>3, <2>1
<1>12. CASE \/ ServerHandlesEnable \/ ServerHandlesRequest \/ ServerHandlesClose \/ ServerHandlesResume
            \/ ServerSendsAck \/ ServerSendsRequest \/ ServerSendsStanza \/ ServerExpires
  BY <1>3, <1>12 DEF ServerHandlesEnable, ServerHandlesRequest, ServerHandlesClose,
     ServerHandlesResume, ServerSendsAck, ServerSendsRequest, ServerSendsStanza, ServerExpires,
     streamVars, serverVars, histVars
<1>13. CASE Stream \/ Enable \/ CallRequestAck
  BY <1>3, <1>13 DEF Stream, Connect, StartCustomBinding, StartStandardBinding, ContinueReceive,
     Disconnect, Crash, Enable, CallRequestAck, streamVars, serverVars, histVars
<1> QED  BY <1>4, <1>5, <1>6, <1>7, <1>8, <1>9, <1>10, <1>11, <1>12, <1>13
         DEF Next, HandleCallback, Drain, Server, Application

-----------------------------------------------------------------------------
(* Nothing is lost silently: what the count covers was reported, had no id, or  *)
(* was not in the storage with its id when a <resumed/> counted it.             *)

\* An item has the id of its stanza, or waits for it.
Identified ==
    \A i \in 1..Len(unackedByServer) :
        ~unackedByServer[i].awaiting => unackedByServer[i].id = StanzaId(unackedByServer[i].n)

\* The first k stanzas the server handled in session s are accounted for.
Accounted(s, k) == k <= Len(Log(s)) /\ \A i \in 1..k : Log(s)[i] \in reported \cup IdLess \cup lost

\* The session the module counts, or will if it resumes the one stored; and the counts of it
\* in memory and in the storage.
InCount(s) == IF isStarted THEN s = session ELSE s = store.id /\ (~Dead(s) \/ Resumed)
Known     == IF isStarted THEN {lastHandledByServer} ELSE {lastHandledByServer, store.hs}

Complete ==
    /\ Identified
    /\ \A s \in 1..Len(sessions) : InCount(s) => \A k \in Known : Accounted(s, k)

-----------------------------------------------------------------------------
(* What a step keeps of it.                                                   *)

LEMMA AccountedMore ==
    ASSUME Inv, Inv', LogsGrow, reported \subseteq reported', lost \subseteq lost',
           NEW s \in 1..Len(sessions), NEW x \in Nat, Accounted(s, x),
           NEW a \in Nat, x + a <= Len(Log(s)),
           \A i \in 1..a : Log(s)[x + i] \in reported' \cup IdLess \cup lost'
    PROVE  Accounted(s, x + a)'
<1>1. /\ Len(Log(s)) \in Nat /\ s \in 1..Len(sessions') /\ Len(Log(s)) <= Len(sessions'[s].log)
      /\ \A i \in 1..Len(Log(s)) : sessions'[s].log[i] = Log(s)[i]
  BY DataTypes DEF LogsGrow
<1>2. Len(sessions'[s].log) \in Nat
  BY <1>1, LogsAfter
<1>3. \A i \in 1..(x + a) : sessions'[s].log[i] \in reported' \cup IdLess \cup lost'
  <2> TAKE i \in 1..(x + a)
  <2>1. i \in 1..Len(Log(s))
    BY <1>1
  <2>2. CASE i <= x
    <3>1. i \in 1..x
      BY <2>2
    <3> QED  BY <1>1, <2>1, <3>1 DEF Accounted
  <2>3. CASE ~(i <= x)
    <3>1. i - x \in 1..a /\ i = x + (i - x)
      BY <2>3
    <3> QED  BY <1>1, <2>1, <3>1
  <2> QED  BY <2>2, <2>3
<1>4. x + a <= Len(sessions'[s].log)
  BY <1>1, <1>2
<1> QED  BY <1>3, <1>4 DEF Accounted, Log

LEMMA AccountedKept ==
    ASSUME Inv, Inv', LogsGrow, reported \subseteq reported', lost \subseteq lost',
           NEW s \in 1..Len(sessions), NEW k \in Nat, Accounted(s, k)
    PROVE  Accounted(s, k)'
<1>1. k + 0 = k /\ 0 \in Nat /\ \A i \in 1..0 : FALSE
  OBVIOUS
<1>2. k + 0 <= Len(Log(s))
  BY <1>1 DEF Accounted
<1>3. Accounted(s, k + 0)'
  BY <1>1, <1>2, AccountedMore
<1> QED  BY <1>1, <1>3

LEMMA CompleteKept ==
    ASSUME Inv, Inv', Complete, LogsGrow, reported \subseteq reported', lost \subseteq lost', Identified',
           \A s \in 1..Len(sessions') : InCount(s)' => \A k \in Known' :
              k = 0 \/ (s \in 1..Len(sessions) /\ InCount(s) /\ k \in Known) \/ Accounted(s, k)'
    PROVE  Complete'
<1>1. ASSUME NEW s \in 1..Len(sessions'), InCount(s)', NEW k \in Known' PROVE Accounted(s, k)'
  <2>1. CASE k = 0
    <3>1. Len(sessions'[s].log) \in Nat
      BY LogsAfter
    <3> QED  BY <2>1, <3>1 DEF Accounted, Log
  <2>2. CASE s \in 1..Len(sessions) /\ InCount(s) /\ k \in Known
    <3>1. k \in Nat /\ Accounted(s, k)
      BY <2>2, DataTypes, OutgoingTypes DEF Complete, Known
    <3> QED  BY <2>2, <3>1, AccountedKept
  <2> QED  BY <1>1, <2>1, <2>2
<1> QED  BY <1>1 DEF Complete

\* A step that takes over no other session, and no other count of it.
LEMMA CompleteStanding ==
    ASSUME Inv, Inv', ControlInv, Complete, LogsGrow, UNCHANGED <<reported, lost>>, Identified',
           isStarted' => isStarted /\ UNCHANGED session,
           store'.id \in {0, store.id}, Resumed' => Resumed, Known' \subseteq Known \cup {0}
    PROVE  Complete'
<1>1. ASSUME NEW s \in 1..Len(sessions'), InCount(s)' PROVE s \in 1..Len(sessions) /\ InCount(s)
  <2>1. isStarted => session \in 1..Len(sessions) /\ store.id \in {0, session}
    BY DataTypes, SessionTypes DEF ControlInv, Storing
  <2>2. CASE isStarted'
    BY <1>1, <2>1, <2>2 DEF InCount
  <2>3. CASE ~isStarted'
    <3>1. s = store.id /\ s # 0 /\ s \in 1..Len(sessions)
      BY <1>1, <2>3, DataTypes, SessionTypes DEF InCount
    <3>2. ~Dead(s)' \/ Resumed
      BY <1>1, <2>3 DEF InCount
    <3>3. ~Dead(s) \/ Resumed
      BY <3>1, <3>2 DEF Dead, LogsGrow
    <3> QED  BY <2>1, <3>1, <3>3 DEF InCount
  <2> QED  BY <2>2, <2>3
<1>2. \A s \in 1..Len(sessions') : InCount(s)' => \A k \in Known' :
         k = 0 \/ (s \in 1..Len(sessions) /\ InCount(s) /\ k \in Known) \/ Accounted(s, k)'
  BY <1>1
<1> QED  BY <1>2, CompleteKept

\* ... and posts and takes callbacks, none of them a <resumed/>; what is stored may be written anew.
LEMMA CompleteShifted ==
    ASSUME Inv, Inv', ControlInv, Complete, LogsGrow, Identified',
           UNCHANGED <<reported, lost, isStarted, lastHandledByServer, session>>,
           store'.id = store.id, store'.hs \in {store.hs, lastHandledByServer},
           NEW d, NEW more, Shifted(moduleQ, moduleQ', d, more), \A e \in more : e.name # "resumed"
    PROVE  Complete'
<1>1. Resumed' => Resumed
  <2>1. moduleQ \in Seq(ElementSet) /\ moduleQ' \in Seq(ElementSet)
    BY DEF Inv, TypeOK, StreamTypeOK
  <2>2. \A e \in more : e.name \notin {"resumed"}
    OBVIOUS
  <2>3. Holds(moduleQ', {"resumed"}) => Holds(moduleQ, {"resumed"})
    BY <2>1, <2>2, ShiftedHolds
  <2> QED  BY <2>3 DEF Resumed, Holds
<1>2. Known' \subseteq Known \cup {0}
  BY DEF Known
<1> QED  BY <1>1, <1>2, CompleteStanding

LEMMA CompleteSame ==
    ASSUME Inv, Inv', ControlInv, Complete, UNCHANGED <<sessions, moduleQ, unackedByServer>>,
           UNCHANGED <<reported, lost, isStarted, lastHandledByServer, session>>,
           store'.id = store.id, store'.hs \in {store.hs, lastHandledByServer}
    PROVE  Complete'
<1>1. PICK d, more : d = 0 /\ more = {}
  OBVIOUS
<1>2. Shifted(moduleQ, moduleQ', d, more)
  BY <1>1, QueueTypes, ShiftedSame
<1>3. LogsGrow /\ Identified' /\ \A e \in more : e.name # "resumed"
  BY <1>1, SameSessions, SameLogsGrow DEF Complete, Identified
<1> QED  BY <1>2, <1>3, CompleteShifted

LEMMA NeutralComplete ==
    ASSUME Inv, Inv', ControlInv, Complete, Neutral, Chatting
    PROVE  Complete'
<1>1. PICK d : Shifted(moduleQ, moduleQ', d, Chat)
  BY DEF Chatting
<1>2. \A e \in Chat : e.name # "resumed"
  BY DEF Chat
<1>3. LogsGrow /\ Identified' /\ store'.id = store.id /\ store'.hs \in {store.hs, lastHandledByServer}
  BY SameLogsGrow DEF Neutral, Keeping, Complete, Identified
<1> HIDE DEF Chat
<1> QED  BY <1>1, <1>2, <1>3, CompleteShifted DEF Neutral

\* The head of the moduleQueue runs, and changes nothing here.
LEMMA TakenComplete ==
    ASSUME Inv, Inv', ControlInv, Complete, moduleQ # <<>>, moduleQ' = Tail(moduleQ),
           UNCHANGED <<sessions, reported, lost, isStarted, lastHandledByServer, unackedByServer,
                       session, store>>
    PROVE  Complete'
<1>1. PICK d, more : d = 1 /\ more = {}
  OBVIOUS
<1>2. Shifted(moduleQ, moduleQ', d, more)
  BY <1>1, TakenShifted
<1>3. LogsGrow /\ Identified' /\ \A e \in more : e.name # "resumed"
  BY <1>1, SameSessions, SameLogsGrow DEF Complete, Identified
<1> QED  BY <1>2, <1>3, CompleteShifted

\* A callback is posted, or none, and the logs of the sessions do not shrink.
LEMMA PostedComplete ==
    ASSUME Inv, Inv', ControlInv, Complete, LogsGrow, Identified',
           UNCHANGED <<reported, lost, isStarted, lastHandledByServer, session, store>>,
           NEW e, e.name # "resumed", UNCHANGED moduleQ \/ moduleQ' = Append(moduleQ, e)
    PROVE  Complete'
<1>1. PICK T : T = ElementSet \cup {e}
  OBVIOUS
<1>2. moduleQ \in Seq(T) /\ e \in T
  BY <1>1, WiderSeq, QueueTypes
<1>3. PICK d, more : d = 0 /\ more = {e}
  OBVIOUS
<1>4. Shifted(moduleQ, moduleQ', d, more) /\ \A x \in more : x.name # "resumed"
  BY <1>2, <1>3, ShiftedSame, ShiftedAppend
<1> QED  BY <1>4, CompleteShifted

-----------------------------------------------------------------------------
(* Connections, and what is sent and asked for.                               *)

LEMMA StreamComplete ==
    ASSUME Inv, Inv', ControlInv, Complete,
           \/ Connect \/ StartCustomBinding \/ StartStandardBinding \/ Disconnect \/ SendStanza
    PROVE  Complete'
<1>1. /\ UNCHANGED <<sessions, reported, lost, isStarted, lastHandledByServer, unackedByServer,
                     session, store>>
  BY DEF Connect, StartCustomBinding, StartStandardBinding, Disconnect, SendStanza, serverVars,
         moduleVars, flagVars, outVars, histVars
<1>2. LogsGrow /\ Identified'
  BY <1>1, SameSessions, SameLogsGrow DEF Complete, Identified
<1>3. CASE Connect \/ StartStandardBinding
  <2>1. UNCHANGED moduleQ
    BY <1>3 DEF Connect, StartStandardBinding
  <2> QED  BY <1>1, <2>1, CompleteSame
<1>4. CASE StartCustomBinding \/ SendStanza
  <2>1. PICK e : e.name \in {"sendResume", "didSend"} /\ moduleQ' = Append(moduleQ, e)
    <3>1. \A name, arg, sid : Element(name, arg, sid).name = name
      BY DEF Element
    <3> QED  BY <1>4, <3>1 DEF StartCustomBinding, SendStanza
  <2> QED  BY <1>1, <1>2, <2>1, PostedComplete
<1>5. CASE Disconnect
  <2>1. Shifted(moduleQ, moduleQ', 0, Ends)
    BY <1>5, DisconnectPosts
  <2>2. \A e \in Ends : e.name # "resumed"
    BY DEF Ends
  <2> HIDE DEF Ends
  <2>3. store'.id = store.id /\ store'.hs \in {store.hs, lastHandledByServer}
    BY <1>1
  <2> QED  BY <1>1, <1>2, <2>1, <2>2, <2>3, CompleteShifted
<1> QED  BY <1>3, <1>4, <1>5

\* Only the storage is left of it.
LEMMA CrashComplete ==
    ASSUME Inv, Inv', ControlInv, Complete, Crash
    PROVE  Complete'
<1>1. /\ UNCHANGED <<sessions, reported, lost, store>> /\ moduleQ' = <<>> /\ ~isStarted'
      /\ lastHandledByServer' = 0 /\ unackedByServer' = <<>>
  BY DEF Crash, Cleanup, serverVars
<1>2. LogsGrow /\ Identified'
  <2>1. Len(unackedByServer') = 0
    BY <1>1
  <2> QED  BY <1>1, <2>1, SameSessions, SameLogsGrow DEF Identified
<1>3. ~Resumed'
  BY <1>1, HoldsNothing DEF Resumed, Holds
<1>4. Known' \subseteq Known \cup {0}
  BY <1>1 DEF Known, ControlInv, Storing
<1> QED  BY <1>1, <1>2, <1>3, <1>4, CompleteStanding

LEMMA EnableComplete ==
    ASSUME Inv, Inv', ControlInv, Complete, Enable
    PROVE  Complete'
<1>1. /\ unackedByServer' = <<>>
      /\ UNCHANGED <<sessions, reported, lost, isStarted, lastHandledByServer, session, store>>
  BY DEF Enable, Cleanup, serverVars, histVars
<1>2. LogsGrow /\ Identified'
  <2>1. Len(unackedByServer') = 0
    BY <1>1
  <2> QED  BY <1>1, <2>1, SameSessions, SameLogsGrow DEF Identified
<1>3. PICK e : e.name = "didSendEnable" /\ (UNCHANGED moduleQ \/ moduleQ' = Append(moduleQ, e))
  <2>1. Element("didSendEnable", 0, 0).name = "didSendEnable"
    BY DEF Element
  <2> QED  BY <2>1 DEF Enable
<1> QED  BY <1>1, <1>2, <1>3, PostedComplete

LEMMA DidSendComplete ==
    ASSUME Inv, Inv', ControlInv, Complete, HandleDidSend
    PROVE  Complete'
<1> DEFINE n == Head(moduleQ).arg
           x == IF AsyncIds THEN Outgoing(n, 0, TRUE) ELSE Outgoing(n, StanzaId(n), FALSE)
           u == Append(unackedByServer, x)
<1>1. /\ moduleQ # <<>> /\ moduleQ' = Tail(moduleQ)
      /\ UNCHANGED <<sessions, reported, lost, isStarted, lastHandledByServer, session>>
      /\ \/ /\ unackedByServer' = u
            /\ store' = store \/ store' = StoreOutgoing(lastHandledByServer, u)
         \/ UNCHANGED <<unackedByServer, store>>
  BY Zenon DEF HandleDidSend, AddPending, Next_is, serverVars, flagVars, histVars
<1>2. ~x.awaiting => x.id = StanzaId(x.n)
  BY ConfigAssumption DEF Outgoing
<1>3. x \in OutgoingItem
  <2>1. Head(moduleQ) = moduleQ[1] /\ 1 \in 1..Len(moduleQ)
    BY <1>1, TakenShifted
  <2>2. n \in Nat
    BY <2>1, DataTypes
  <2> HIDE DEF n
  <2> QED  BY <2>2, ConfigAssumption DEF Outgoing, OutgoingItem, StanzaId
<1> HIDE DEF n, x
<1>4. CASE UNCHANGED <<unackedByServer, store>>
  BY <1>1, <1>4, TakenComplete
<1>5. CASE unackedByServer' = u /\ (store' = store \/ store' = StoreOutgoing(lastHandledByServer, u))
  <2>1. /\ Len(unackedByServer) \in Nat /\ Len(u) = Len(unackedByServer) + 1
        /\ u[Len(unackedByServer) + 1] = x
        /\ \A i \in 1..Len(unackedByServer) : u[i] = unackedByServer[i]
    BY <1>3, OutgoingTypes, AppendProperties
  <2> HIDE DEF u
  <2>2. \A i \in 1..Len(u) : i \in 1..Len(unackedByServer) \/ i = Len(unackedByServer) + 1
    BY <2>1
  <2>3. Identified'
    BY <1>2, <1>5, <2>1, <2>2 DEF Complete, Identified
  <2>4. store'.id = store.id /\ store'.hs \in {store.hs, lastHandledByServer}
    BY <1>5, StoreOutgoingParts
  <2>5. PICK d, more : d = 1 /\ more = {}
    OBVIOUS
  <2>6. Shifted(moduleQ, moduleQ', d, more) /\ \A e \in more : e.name # "resumed"
    BY <1>1, <2>5, TakenShifted
  <2>7. LogsGrow
    BY <1>1, SameSessions, SameLogsGrow
  <2> QED  BY <1>1, <2>3, <2>4, <2>6, <2>7, CompleteShifted
<1> QED  BY <1>1, <1>4, <1>5

\* An id arrives.
LEMMA AnswerComplete ==
    ASSUME Inv, Inv', ControlInv, Complete, AnswerStanzaId
    PROVE  Complete'
<1>1. PICK n \in idQueries :
         unackedByServer' =
            [i \in DOMAIN unackedByServer |->
                IF unackedByServer[i].n = n THEN Outgoing(n, StanzaId(n), FALSE)
                ELSE unackedByServer[i]]
  BY DEF AnswerStanzaId
<1>2. UNCHANGED <<sessions, moduleQ, reported, lost, isStarted, lastHandledByServer, session, store>>
  BY DEF AnswerStanzaId, serverVars, flagVars, histVars
<1>3. Identified'
  <2>1. DOMAIN unackedByServer = 1..Len(unackedByServer) /\ Len(unackedByServer) \in Nat
    BY OutgoingTypes
  <2>2. Len(unackedByServer') = Len(unackedByServer)
    BY <1>1, <2>1
  <2>3. \A i \in 1..Len(unackedByServer) :
           unackedByServer'[i] = unackedByServer[i] \/ unackedByServer'[i] = Outgoing(n, StanzaId(n), FALSE)
    BY <1>1, <2>1
  <2> QED  BY <2>2, <2>3 DEF Complete, Identified, Outgoing
<1>4. PICK e : e.name # "resumed"
  <2>1. Element("a", 0, 0).name # "resumed"
    BY DEF Element
  <2> QED  BY <2>1
<1>5. LogsGrow
  BY <1>2, SameSessions, SameLogsGrow
<1> QED  BY <1>2, <1>3, <1>4, <1>5, PostedComplete

-----------------------------------------------------------------------------
(* Sessions begin and end.                                                    *)

LEMMA EnabledComplete ==
    ASSUME Inv, Inv', ControlInv, Complete, HandleEnabled
    PROVE  Complete'
<1>1. /\ moduleQ # <<>> /\ moduleQ' = Tail(moduleQ)
      /\ UNCHANGED <<sessions, reported, lost, unackedByServer>>
  BY DEF HandleEnabled, Next_is, serverVars
<1>2. CASE ~enableSent
  <2>1. UNCHANGED <<store, isStarted, lastHandledByServer, session>>
    BY <1>2 DEF HandleEnabled
  <2> QED  BY <1>1, <2>1, TakenComplete
<1>3. CASE enableSent
  <2>1. Known' = {0}
    BY <1>3 DEF HandleEnabled, Known
  <2>2. LogsGrow /\ Identified'
    BY <1>1, SameSessions, SameLogsGrow DEF Complete, Identified
  <2> QED  BY <1>1, <2>1, <2>2, CompleteKept
<1> QED  BY <1>2, <1>3

LEMMA FailedComplete ==
    ASSUME Inv, Inv', ControlInv, Complete, HandleFailed
    PROVE  Complete'
<1>1. /\ moduleQ # <<>> /\ moduleQ' = Tail(moduleQ)
      /\ UNCHANGED <<sessions, reported, lost, unackedByServer, lastHandledByServer, session>>
  BY DEF HandleFailed, Next_is, serverVars, histVars
<1>2. CASE ~enableSent
  <2>1. UNCHANGED <<store, isStarted>>
    BY <1>2 DEF HandleFailed
  <2> QED  BY <1>1, <2>1, TakenComplete
<1>3. CASE enableSent
  <2>1. ~isStarted' /\ store'.id = 0
    BY <1>3 DEF HandleFailed, EmptyStore
  <2>2. \A s \in 1..Len(sessions') : ~InCount(s)'
    BY <2>1 DEF InCount
  <2>3. LogsGrow /\ Identified'
    BY <1>1, SameSessions, SameLogsGrow DEF Complete, Identified
  <2> QED  BY <1>1, <2>2, <2>3, CompleteKept
<1> QED  BY <1>2, <1>3

\* What was stored is counted on from.
LEMMA SendResumeComplete ==
    ASSUME Inv, Inv', QueueInv, ControlInv, Complete, HandleSendResume
    PROVE  Complete'
<1>1. /\ UNCHANGED <<conn, sessions, reported, lost, isStarted, store>>
      /\ moduleQ # <<>> /\ moduleQ' = Tail(moduleQ) /\ Head(moduleQ).name = "sendResume"
      /\ lastHandledByServer' = store.hs /\ unackedByServer' = <<>>
  BY DEF HandleSendResume, Cleanup, RestoredCounts, Next_is, streamVars, serverVars, flagVars
<1>2. ~isStarted
  <2>1. moduleQ[1].name = "sendResume" /\ 1 \in 1..Len(moduleQ)
    BY <1>1, TakenShifted
  <2> QED  BY <2>1 DEF ControlInv, Resuming
<1>3. LogsGrow /\ Identified'
  <2>1. Len(unackedByServer') = 0
    BY <1>1
  <2> QED  BY <1>1, <2>1, SameSessions, SameLogsGrow DEF Identified
<1>4. Resumed' => Resumed
  <2>1. Head(moduleQ) = moduleQ[1] /\ \A names : moduleQ[1].name \notin names =>
           (Holds(moduleQ', names) <=> Holds(moduleQ, names))
    BY <1>1, ControlTaken
  <2>2. Holds(moduleQ', {"resumed"}) <=> Holds(moduleQ, {"resumed"})
    BY <1>1, <2>1
  <2> QED  BY <2>2 DEF Resumed, Holds
<1>5. Known' \subseteq Known \cup {0}
  BY <1>1, <1>2 DEF Known
<1> QED  BY <1>1, <1>2, <1>3, <1>4, <1>5, CompleteStanding

\* The stanzas that <resumed/> counts: those the storage held with their id are reported, the
\* others are put down as lost.
LEMMA ResumedComplete ==
    ASSUME Inv, Inv', ControlInv, NoWrap, Complete, HandleResumed,
           NEW r \in Nat, NEW t \in Nat, NEW b \in Nat, Data(r, t, b)
    PROVE  Complete'
<1>1. /\ UNCHANGED <<unackedByServer, sessions, session>>
      /\ moduleQ # <<>> /\ Head(moduleQ).name = "resumed" /\ isStarted'
  BY DEF HandleResumed, Next_is, serverVars
<1>2. moduleQ[1].name = "resumed" /\ 1 \in 1..Len(moduleQ) /\ Head(moduleQ) = moduleQ[1]
  BY <1>1, TakenShifted
<1>3. PICK h \in Nat : h = moduleQ[1].arg
  BY <1>2, DataTypes
<1>4. /\ reported' = reported \cup IdsOf(prevUnacked, Smaller(AckDiff(h), Len(prevUnacked)))
      /\ lost' = lost \cup Unreported(h) /\ lastHandledByServer' = h
  BY <1>2, <1>3 DEF HandleResumed, Report
<1>5. Resumed
  BY <1>2, NamedHolds DEF Resumed
<1>6. /\ attached = session /\ store.hs = lastHandledByServer /\ session = store.id /\ ~isStarted
  BY <1>5 DEF ControlInv, Resuming
<1>7. PICK s \in 1..Len(sessions), x \in Nat, n \in Nat, p \in Seq(OutgoingItem), l \in Nat :
         s = session /\ x = store.hs /\ p = prevUnacked /\ n = Len(Log(s)) /\ l = Len(p)
  <2>1. session \in 1..Len(sessions)
    BY <1>5, <1>6 DEF Data, Lined, Joined, Resumed, Holds
  <2> QED  BY <2>1, DataTypes
<1>8. x <= h /\ h <= n /\ Aligned(s, x, p, h) /\ Accounted(s, x)
  <2>1. x <= h /\ h <= n /\ Aligned(s, x, p, h)
    BY <1>3, <1>5, <1>7 DEF Data, Prior
  <2>2. InCount(s) /\ x \in Known
    BY <1>5, <1>6, <1>7 DEF InCount, Known
  <2> QED  BY <2>1, <2>2 DEF Complete
<1>9. PICK a \in Nat : a = h - x /\ AckDiff(h) = a /\ x + a = h
  <2>1. AckDiff(h) = h - x
    BY <1>6, <1>7, <1>8 DEF AckDiff
  <2> QED  BY <1>8, <2>1
<1>10. LogsGrow /\ reported \subseteq reported' /\ lost \subseteq lost'
  BY <1>1, <1>4, SameSessions, SameLogsGrow
<1>11. ASSUME NEW i \in 1..a PROVE Log(s)[x + i] \in reported' \cup IdLess \cup lost'
  <2>1. x + i \in 1..n /\ x + i <= h
    BY <1>8, <1>9
  <2>2. CASE i \in 1..l /\ p[i].id # 0
    <3>1. p[i].n = Log(s)[x + i]
      BY <1>7, <1>8, <2>1, <2>2 DEF Aligned
    <3>2. p[i].id = p[i].n
      BY <1>7, <2>2 DEF Data, Reported, Waiting
    <3>3. Smaller(AckDiff(h), Len(prevUnacked)) \in Nat /\ i \in 1..Smaller(AckDiff(h), Len(prevUnacked))
      BY <1>7, <1>9, <2>2 DEF Smaller
    <3>4. p[i].id \in IdsOf(prevUnacked, Smaller(AckDiff(h), Len(prevUnacked)))
      BY <1>7, <2>2, <3>3 DEF IdsOf
    <3> QED  BY <1>4, <3>1, <3>2, <3>4
  <2>3. CASE ~(i \in 1..l /\ p[i].id # 0)
    <3>1. DOMAIN prevUnacked = 1..l /\ DOMAIN sessions[session].log = 1..n
      BY <1>7, DataTypes, LenProperties DEF Log
    <3>2. i \notin {j \in DOMAIN prevUnacked : prevUnacked[j].id # 0}
      BY <1>7, <2>3, <3>1
    <3>3. (x + i) - lastHandledByServer = i
      BY <1>6, <1>7
    <3>4. x + i \in {j \in DOMAIN sessions[session].log :
                       j - lastHandledByServer \in (1..AckDiff(h))
                                                     \ {m \in DOMAIN prevUnacked : prevUnacked[m].id # 0}}
      BY <1>9, <2>1, <3>1, <3>2, <3>3
    <3>5. sessions[session].log[x + i] \in received
      BY <1>7, <2>1 DEF Data, Read, Log
    <3>6. sessions[session].log[x + i] \in Unreported(h) \cup IdLess
      BY <3>4, <3>5 DEF Unreported
    <3> QED  BY <1>4, <1>7, <3>6 DEF Log
  <2> QED  BY <2>2, <2>3
<1>12. Accounted(s, x + a)'
  <2>1. x + a <= Len(Log(s))
    BY <1>7, <1>8, <1>9
  <2> QED  BY <1>8, <1>10, <1>11, <2>1, AccountedMore
<1>13. Identified'
  BY <1>1 DEF Complete, Identified
<1>14. \A y \in 1..Len(sessions') : InCount(y)' => \A k \in Known' : Accounted(y, k)'
  <2>1. \A y : InCount(y)' => y = s
    BY <1>1, <1>7 DEF InCount
  <2>2. \A k \in Known' : k = x + a
    BY <1>1, <1>4, <1>9 DEF Known
  <2> QED  BY <1>12, <2>1, <2>2
<1> QED  BY <1>13, <1>14 DEF Complete

LEMMA DidDisconnectComplete ==
    ASSUME Inv, Inv', QueueInv, ControlInv, Complete, HandleDidDisconnect
    PROVE  Complete'
<1>1. /\ UNCHANGED <<conn, reported, lost, sessions, lastHandledByServer, unackedByServer>>
      /\ moduleQ # <<>> /\ moduleQ' = Tail(moduleQ) /\ Head(moduleQ).name = "didDisconnect"
      /\ ~isStarted'
      /\ store' = IF wasCleanDisconnect THEN EmptyStore
                  ELSE [store EXCEPT !.date = TRUE, !.hc = lastHandledByClient,
                                     !.hs = lastHandledByServer, !.pending = unackedByServer]
  BY DEF HandleDidDisconnect, Next_is, streamVars, serverVars, histVars
<1>2. store'.id \in {0, store.id} /\ store'.hs \in {0, lastHandledByServer}
  <2>1. store \in Storage
    BY DEF Inv, TypeOK
  <2> QED  BY <1>1, <2>1 DEF EmptyStore, Storage
<1>3. Known' \subseteq Known \cup {0}
  BY <1>1, <1>2 DEF Known
<1>4. LogsGrow /\ Identified'
  BY <1>1, SameSessions, SameLogsGrow DEF Complete, Identified
<1>5. Resumed' => Resumed
  <2>1. Head(moduleQ) = moduleQ[1] /\ \A names : moduleQ[1].name \notin names =>
           (Holds(moduleQ', names) <=> Holds(moduleQ, names))
    BY <1>1, ControlTaken
  <2>2. Holds(moduleQ', {"resumed"}) <=> Holds(moduleQ, {"resumed"})
    BY <1>1, <2>1
  <2> QED  BY <2>2 DEF Resumed, Holds
<1> QED  BY <1>1, <1>2, <1>3, <1>4, <1>5, CompleteStanding

-----------------------------------------------------------------------------
(* Acks.                                                                      *)

\* The stanzas that a true ack reports follow those that were.
LEMMA ReportingComplete ==
    ASSUME Inv, Inv', ControlInv, Complete,
           NEW r \in Nat, NEW t \in Nat, NEW b \in Nat, Data(r, t, b),
           NEW k, Reporting(k), Acknowledges(lastHandledByServer + k),
           \A i \in 1..k : ~unackedByServer[i].awaiting,
           UNCHANGED <<sessions, session, isStarted, lost>>, isStarted \/ (~Resumed /\ ~Resumed')
    PROVE  Complete'
<1>1. PICK u \in Seq(OutgoingItem), l \in Nat, x \in Nat :
         u = unackedByServer /\ l = Len(u) /\ x = lastHandledByServer
  BY OutgoingTypes
<1>2. /\ k \in 0..l /\ k \in Nat /\ k <= l /\ lastHandledByServer' = x + k
      /\ unackedByServer' = Drop(u, k) /\ reported' = reported \cup IdsOf(u, k)
      /\ store'.id = store.id /\ store'.hs \in {store.hs, x + k}
  BY <1>1 DEF Reporting
<1>3. Identified'
  <2>1. /\ Len(Drop(u, k)) = l - k
        /\ \A i \in 1..(l - k) : Drop(u, k)[i] = u[i + k] /\ i + k \in 1..l
    BY <1>1, <1>2, DropParts
  <2> QED  BY <1>1, <1>2, <2>1 DEF Complete, Identified
<1>4. LogsGrow /\ Read(r) /\ reported \subseteq reported' /\ lost \subseteq lost'
  BY <1>2, SameSessions, SameLogsGrow DEF Data
<1>5. ASSUME NEW s \in 1..Len(sessions'), InCount(s)'
      PROVE  s \in 1..Len(sessions) /\ InCount(s) /\ Accounted(s, x + k)'
  <2>1. s \in 1..Len(sessions) /\ InCount(s)
    BY <1>2, <1>5 DEF InCount, Dead
  <2>2. Continues(r, b, s, lastHandledByServer, unackedByServer) /\ x + k <= Len(Log(s))
    <3>1. CASE isStarted
      <4>1. s = session
        BY <2>1, <3>1 DEF InCount
      <4> QED  BY <1>1, <3>1, <4>1, LinedContinues DEF Acknowledges
    <3>2. CASE ~isStarted
      <4>1. s = store.id /\ ~Dead(store.id) /\ ~Resumed
        BY <2>1, <3>2 DEF InCount
      <4> QED  BY <1>1, <3>2, <4>1 DEF Data, Stores, Acknowledges
    <3> QED  BY <3>1, <3>2
  <2>3. PICK n \in Nat : n = Len(Log(s))
    BY <2>1, DataTypes
  <2>4. Accounted(s, x) /\ Aligned(s, x, u, n)
    BY <1>1, <2>1, <2>2, <2>3 DEF Complete, Known, Continues
  <2>5. ASSUME NEW i \in 1..k PROVE Log(s)[x + i] \in reported' \cup IdLess \cup lost'
    <3>1. i \in 1..l /\ x + i \in 1..n
      BY <1>2, <2>2, <2>3
    <3>2. Log(s)[x + i] = u[i].n
      BY <1>1, <2>4, <3>1 DEF Aligned
    <3>3. u[i].id = StanzaId(u[i].n)
      BY <1>1, <3>1 DEF Complete, Identified
    <3>4. u[i].n # 0
      <4>1. Log(s)[x + i] \in 1..r
        BY <1>4, <2>1, <2>3, <3>1 DEF Read
      <4> QED  BY <3>2, <4>1
    <3>5. CASE u[i].n \notin IdLess
      <4>1. u[i].id = u[i].n /\ u[i].id # 0
        BY <3>3, <3>4, <3>5 DEF StanzaId
      <4>2. u[i].id \in IdsOf(u, k)
        BY <4>1 DEF IdsOf
      <4> QED  BY <1>2, <3>2, <4>1, <4>2
    <3> QED  BY <3>2, <3>5
  <2>6. Accounted(s, x + k)'
    BY <1>2, <1>4, <2>1, <2>2, <2>4, <2>5, AccountedMore
  <2> QED  BY <2>1, <2>6
<1>6. \A s \in 1..Len(sessions') : InCount(s)' => \A y \in Known' :
         y = 0 \/ (s \in 1..Len(sessions) /\ InCount(s) /\ y \in Known) \/ Accounted(s, y)'
  <2>1. \A y \in Known' : y = x + k \/ y \in Known
    BY <1>2 DEF Known
  <2> QED  BY <1>5, <2>1
<1> QED  BY <1>3, <1>4, <1>6, CompleteKept

LEMMA HandleAckComplete ==
    ASSUME Inv, Inv', QueueInv, ArmedInv, ControlInv, NoWrap, Complete, HandleAck,
           NEW r \in Nat, NEW t \in Nat, NEW b \in Nat, Data(r, t, b)
    PROVE  Complete'
<1>1. isStarted /\ moduleQ[1].name = "a" /\ 1 \in 1..Len(moduleQ)
  BY AckControl
<1>2. PICK h \in Nat : h = moduleQ[1].arg
  BY <1>1, DataTypes
<1>3. ProcessAck(h) /\ UNCHANGED <<sessions, isStarted, session, lost>>
  <2>1. Head(moduleQ) = moduleQ[1]
    BY <1>1, QueueTypes, ShiftedTail DEF HandleAck, Next_is
  <2> QED  BY <1>2, <2>1, Zenon DEF HandleAck, serverVars, flagVars
<1>4. h < Modulus /\ Acknowledges(h)
  BY <1>1, <1>2, AckIsTrue
<1>5. PICK k \in 0..(h - lastHandledByServer) :
         /\ Reporting(k) /\ Acknowledges(lastHandledByServer + k)
         /\ \A i \in 1..k : ~unackedByServer[i].awaiting
  BY <1>3, <1>4, AckReports
<1> QED  BY <1>1, <1>3, <1>5, ReportingComplete

\* Kept acks, also after the connection they came on.
LEMMA DrainComplete ==
    ASSUME Inv, Inv', ControlInv, NoWrap, Complete, Drain,
           NEW r \in Nat, NEW t \in Nat, NEW b \in Nat, Data(r, t, b)
    PROVE  Complete'
<1>1. UNCHANGED <<moduleQ, sessions, isStarted, session, lost>>
  BY DEF Drain, DrainAck, DrainBlocked, DrainDone, serverVars, flagVars, histVars
<1>2. unprocessedAcks # <<>> => ~Resumed /\ ~Resumed'
  BY <1>1 DEF ControlInv, Resuming, Resumed, Holds
<1>3. CASE DrainAck
  <2>1. unprocessedAcks # <<>>
    BY <1>3 DEF DrainAck
  <2>2. PICK h \in Nat : h = unprocessedAcks[1]
    BY <2>1, KeptIsTrue
  <2>3. ProcessAck(h)
    <3>1. Head(unprocessedAcks) = unprocessedAcks[1]
      BY <2>1, OutgoingTypes, ShiftedTail
    <3> QED  BY <1>3, <2>2, <3>1 DEF DrainAck
  <2>4. h < Modulus /\ Acknowledges(h)
    BY <2>1, <2>2, KeptIsTrue
  <2>5. PICK k \in 0..(h - lastHandledByServer) :
           /\ Reporting(k) /\ Acknowledges(lastHandledByServer + k)
           /\ \A i \in 1..k : ~unackedByServer[i].awaiting
    BY <2>3, <2>4, AckReports
  <2> QED  BY <1>1, <1>2, <2>1, <2>5, ReportingComplete
<1>4. CASE DrainBlocked
  <2>1. unprocessedAcks # <<>>
    BY <1>4 DEF DrainBlocked
  <2>2. PICK h : h = unprocessedAcks[1]
    OBVIOUS
  <2>3. PICK k \in 0..(h - lastHandledByServer) :
           /\ Reporting(k) /\ Acknowledges(lastHandledByServer + k)
           /\ \A i \in 1..k : ~unackedByServer[i].awaiting
    BY <1>4, <2>2, BlockedReports
  <2> QED  BY <1>1, <1>2, <2>1, <2>3, ReportingComplete
<1>5. CASE DrainDone
  <2>1. /\ UNCHANGED <<reported, lastHandledByServer, unackedByServer>>
        /\ store' = store \/ store' = StoreOutgoing(lastHandledByServer, unackedByServer)
    BY <1>5 DEF DrainDone, histVars
  <2>2. store'.id = store.id /\ store'.hs \in {store.hs, lastHandledByServer}
    BY <2>1, StoreOutgoingParts
  <2> QED  BY <1>1, <2>1, <2>2, CompleteSame
<1> QED  BY <1>3, <1>4, <1>5 DEF Drain

-----------------------------------------------------------------------------
(* The server.                                                                *)

LEMMA ServerStanzaComplete ==
    ASSUME Inv, Inv', ControlInv, Complete, ServerHandlesStanza,
           NEW r \in Nat, NEW t \in Nat, NEW b \in Nat, Data(r, t, b)
    PROVE  Complete'
<1>1. /\ c2s # <<>> /\ Head(c2s).name = "stanza"
      /\ sessions' = IF attached = 0 THEN sessions
                     ELSE [sessions EXCEPT ![attached].log = Append(@, Head(c2s).arg)]
      /\ UNCHANGED <<moduleQ, reported, lost, isStarted, lastHandledByServer, unackedByServer, store, session>>
  BY DEF ServerHandlesStanza, Take, streamVars, moduleVars, flagVars, outVars, histVars
<1>2. Head(c2s) = c2s[1] /\ 1 \in 1..Len(c2s)
  BY <1>1, QueueTypes, ShiftedTail
<1>3. PICK m \in Nat : m = Head(c2s).arg
  <2>1. c2s[1].arg \in (r + 1)..sent
    BY <1>1, <1>2 DEF Data, Queues, InOrder
  <2> QED  BY <1>2, <2>1, DataTypes
<1>4. LogsGrow
  <2>1. CASE attached = 0
    <3>1. sessions' = sessions
      BY <1>1, <2>1
    <3> QED  BY <3>1, SameSessions, SameLogsGrow
  <2>2. CASE attached # 0
    <3>1. attached \in 1..Len(sessions)
      BY <2>2, DataTypes, SessionTypes
    <3>2. sessions' = [sessions EXCEPT ![attached].log = Append(@, m)]
      BY <1>1, <1>3, <2>2
    <3> QED  BY <3>1, <3>2, LogAppended
  <2> QED  BY <2>1, <2>2
<1>5. Identified'
  BY <1>1 DEF Complete, Identified
<1>6. PICK e : e.name # "resumed"
  BY <1>1
<1> QED  BY <1>1, <1>4, <1>5, <1>6, PostedComplete

LEMMA AckArrivesComplete ==
    ASSUME Inv, Inv', QueueInv, ControlInv, Complete, attached # 0, conn # "closed",
           ServerHandlesRequest \/ ServerSendsAck
    PROVE  Complete'
<1>1. PICK e : e = Element("a", HandledCount(attached), 0)
  OBVIOUS
<1>2. /\ moduleQ' = Append(moduleQ, e) /\ e.name = "a"
      /\ UNCHANGED <<serverVars, moduleVars, histVars>>
  BY <1>1, ServerAckArrives DEF Element
<1>3. UNCHANGED <<sessions, reported, lost, isStarted, lastHandledByServer, unackedByServer, session, store>>
  BY <1>2 DEF serverVars, moduleVars, flagVars, outVars, histVars
<1>4. LogsGrow /\ Identified'
  BY <1>3, SameSessions, SameLogsGrow DEF Complete, Identified
<1> QED  BY <1>2, <1>3, <1>4, PostedComplete

\* A new session is not the one stored.
LEMMA ServerEnableComplete ==
    ASSUME Inv, Inv', ControlInv, Complete, ServerHandlesEnable
    PROVE  Complete'
<1>1. UNCHANGED <<reported, lost, isStarted, lastHandledByServer, unackedByServer, session, store>>
  BY DEF ServerHandlesEnable, moduleVars, flagVars, outVars, histVars
<1>2. PICK e : e.name \in {"enabled", "failed"} /\ Arrives(<<e>>, <<>>)
  <2>1. \/ \E arg, sid : Arrives(<<Element("enabled", arg, sid)>>, <<>>)
        \/ Arrives(<<Element("failed", 0, 0)>>, <<>>)
    BY DEF ServerHandlesEnable
  <2>2. \A name, arg, sid : Element(name, arg, sid).name = name
    BY DEF Element
  <2> QED  BY <2>1, <2>2
<1>3. UNCHANGED moduleQ \/ moduleQ' = Append(moduleQ, e)
  BY <1>2, ArrivedOrLost
<1>4. LogsGrow
  <2>1. UNCHANGED sessions \/ \E x : sessions' = Append(sessions, x)
    BY DEF ServerHandlesEnable
  <2>2. CASE UNCHANGED sessions
    BY <2>2, SameSessions, SameLogsGrow
  <2>3. ASSUME NEW x, sessions' = Append(sessions, x) PROVE LogsGrow
    <3>1. /\ \A s \in 1..Len(sessions) : s \in 1..Len(sessions') /\ sessions'[s] = sessions[s]
          /\ \A s \in 1..Len(sessions) : Len(Log(s)) \in Nat
      BY <2>3, SessionTypes, DataTypes
    <3> QED  BY <3>1 DEF LogsGrow, Log
  <2> QED  BY <2>1, <2>2, <2>3
<1>5. Identified'
  BY <1>1 DEF Complete, Identified
<1> QED  BY <1>1, <1>2, <1>3, <1>4, <1>5, PostedComplete

\* The session that is resumed is the one stored.
LEMMA ServerResumeComplete ==
    ASSUME Inv, Inv', QueueInv, ControlInv, Complete, ServerHandlesResume, conn = "resuming"
    PROVE  Complete'
<1>1. UNCHANGED <<sessions, reported, lost, store, isStarted, lastHandledByServer, unackedByServer, session>>
  BY DEF ServerHandlesResume, moduleVars, flagVars, outVars, histVars
<1>2. /\ Awaiting /\ 1 \in 1..Len(moduleQ')
      /\ \A i \in 1..Len(moduleQ') : i = 1 \/ moduleQ'[i].name = "stanza"
      /\ session \in 1..Len(sessions) /\ session = store.id
      /\ \/ sessions[session].alive
         \/ moduleQ'[1] = Element("resumeFailed", 0, session)
  BY ServerAnswersResume
<1>3. ~isStarted
  BY <1>2 DEF ControlInv, Resuming
<1>4. ASSUME NEW s \in 1..Len(sessions'), InCount(s)'
      PROVE  s \in 1..Len(sessions) /\ InCount(s)
  <2>1. s \in 1..Len(sessions) /\ s = store.id /\ s # 0
    BY <1>1, <1>2, <1>3, <1>4 DEF InCount
  <2>2. CASE sessions[session].alive
    BY <1>2, <1>3, <2>1, <2>2 DEF InCount, Dead
  <2>3. CASE ~sessions[session].alive
    <3>1. moduleQ'[1].name = "resumeFailed"
      BY <1>2, <2>3 DEF Element
    <3>2. moduleQ' \in Seq(ElementSet)
      BY DEF Inv, TypeOK, StreamTypeOK
    <3>3. ~Holds(moduleQ', {"resumed"})
      BY <1>2, <3>1, <3>2, HoldsAt
    <3>4. ~Resumed' /\ Dead(s)'
      BY <1>1, <1>2, <2>1, <2>3, <3>3 DEF Resumed, Holds, Dead
    <3> QED  BY <1>1, <1>3, <1>4, <3>4 DEF InCount
  <2> QED  BY <2>2, <2>3
<1>5. Known' = Known
  BY <1>1 DEF Known
<1>6. LogsGrow /\ Identified'
  BY <1>1, SameSessions, SameLogsGrow DEF Complete, Identified
<1>7. \A s \in 1..Len(sessions') : InCount(s)' => \A k \in Known' :
         k = 0 \/ (s \in 1..Len(sessions) /\ InCount(s) /\ k \in Known) \/ Accounted(s, k)'
  BY <1>4, <1>5
<1> QED  BY <1>1, <1>6, <1>7, CompleteKept

-----------------------------------------------------------------------------
(* Every step.                                                                *)

LEMMA CallbackComplete ==
    ASSUME Inv, Inv', QueueInv, ArmedInv, ControlInv, NoWrap, Complete, HandleCallback,
           NEW r \in Nat, NEW t \in Nat, NEW b \in Nat, Data(r, t, b)
    PROVE  Complete'
<1>1. CASE HandleStanza \/ HandleFiltered \/ HandleRequest
  BY <1>1, IncomingNeutral, NeutralComplete
<1>2. CASE HandleClosing
  BY <1>2, OtherNeutral, NeutralComplete
<1>3. CASE HandleDidSend \/ HandleAck
  BY <1>3, DidSendComplete, HandleAckComplete
<1>4. CASE HandleEnabled \/ HandleFailed \/ HandleSendResume
  BY <1>4, EnabledComplete, FailedComplete, SendResumeComplete
<1>5. CASE HandleResumed \/ HandleDidDisconnect
  BY <1>5, ResumedComplete, DidDisconnectComplete
<1>6. CASE HandleDidSendEnable \/ HandleResumeFailed
  <2>1. /\ moduleQ # <<>> /\ moduleQ' = Tail(moduleQ)
        /\ UNCHANGED <<sessions, reported, lost, isStarted, lastHandledByServer, unackedByServer,
                       session, store>>
    BY <1>6 DEF HandleDidSendEnable, HandleResumeFailed, Next_is, serverVars, outVars, histVars
  <2> QED  BY <2>1, TakenComplete
<1> QED  BY <1>1, <1>2, <1>3, <1>4, <1>5, <1>6 DEF HandleCallback

LEMMA ServerComplete ==
    ASSUME Inv, Inv', QueueInv, ControlInv, Complete, Server,
           NEW r \in Nat, NEW t \in Nat, NEW b \in Nat, Data(r, t, b)
    PROVE  Complete'
<1>1. CASE \/ ServerHandlesClose \/ ServerSendsRequest \/ ServerSendsStanza \/ ServerExpires
           \/ (ServerHandlesResume /\ conn # "resuming")
           \/ (ServerHandlesRequest /\ (attached = 0 \/ conn = "closed"))
  BY <1>1, ServerNeutral, NeutralComplete
<1>2. CASE ServerSendsAck \/ (ServerHandlesRequest /\ attached # 0 /\ conn # "closed")
  <2>1. attached # 0 /\ conn # "closed"
    BY <1>2 DEF ServerSendsAck
  <2> QED  BY <1>2, <2>1, AckArrivesComplete
<1>3. CASE ServerHandlesStanza
  BY <1>3, ServerStanzaComplete
<1>4. CASE ServerHandlesEnable \/ (ServerHandlesResume /\ conn = "resuming")
  BY <1>4, ServerEnableComplete, ServerResumeComplete
<1> QED  BY <1>1, <1>2, <1>3, <1>4 DEF Server

LEMMA CompletePreserved ==
    ASSUME NoWrap, Inv, Inv', QueueInv, ArmedInv, ControlInv, DataInv, Complete, [Next]_vars
    PROVE  Complete'
<1>1. PICK r \in Nat, t \in Nat, b \in Nat : Data(r, t, b)
  BY DEF DataInv
<1>2. CASE UNCHANGED vars \/ AutoRequestTimerFires \/ ContinueReceive \/ CallRequestAck
  BY <1>2, OtherNeutral, NeutralComplete
<1>3. CASE HandleCallback
  BY <1>1, <1>3, CallbackComplete
<1>4. CASE Drain \/ AnswerStanzaId
  BY <1>1, <1>4, DrainComplete, AnswerComplete
<1>5. CASE DelegateDecides \/ AnswerHandled \/ MarkHandledStanzaId \/ CallSendAck
  BY <1>5, HandledNeutral, NeutralComplete
<1>6. CASE Server
  BY <1>1, <1>6, ServerComplete
<1>7. CASE Connect \/ StartCustomBinding \/ StartStandardBinding \/ Disconnect \/ SendStanza
  BY <1>7, StreamComplete
<1>8. CASE Crash \/ Enable
  BY <1>8, CrashComplete, EnableComplete
<1> QED  BY <1>2, <1>3, <1>4, <1>5, <1>6, <1>7, <1>8 DEF Next, Delegates, Timers, Stream, Application

LEMMA CompleteInitially == Init => Complete
<1> SUFFICES ASSUME Init PROVE Complete
  OBVIOUS
<1>1. Len(unackedByServer) = 0 /\ Len(sessions) = 0
  BY DEF Init
<1> QED  BY <1>1 DEF Complete, Identified

-----------------------------------------------------------------------------
(* The theorems.                                                              *)

\* The inductive invariant of the outgoing half.
OutgoingInv == Inv /\ QueueInv /\ ArmedInv /\ ControlInv /\ DataInv

LEMMA StoreImplied == ASSUME Inv, ControlInv, DataInv PROVE StoreMatchesServer
<1>1. PICK r \in Nat, t \in Nat, b \in Nat : Data(r, t, b)
  BY DEF DataInv
<1> SUFFICES ASSUME store.id # 0, sessions[store.id].alive, ~Holds(moduleQ, {"resumed"}),
                    NEW i \in DOMAIN store.pending, store.hs + i <= Len(sessions[store.id].log)
             PROVE  sessions[store.id].log[store.hs + i] = store.pending[i].n
  BY DEF StoreMatchesServer
<1>2. ~Dead(store.id) /\ ~Resumed
  BY DEF Dead, Resumed
<1>3. i \in 1..Len(store.pending) /\ i \in Nat
  <2>1. PICK q \in Seq(OutgoingItem) : q = store.pending
    BY DataTypes
  <2>2. DOMAIN q = 1..Len(q) /\ Len(q) \in Nat
    BY LenProperties
  <2> QED  BY <2>1, <2>2
<1>4. CASE ~isStarted
  BY <1>1, <1>2, <1>3, <1>4 DEF Data, Stores, Continues, Aligned, Log
<1>5. CASE isStarted
  <2>1. /\ store.id = session /\ attached = session /\ store.hs = lastHandledByServer
        /\ \A j \in 1..Len(store.pending) : store.pending[j].n = b + store.hs + j
    BY <1>1, <1>5, LinedContinues
  <2>2. \A k \in (lastHandledByServer + 1)..Len(Log(session)) : Log(session)[k] = b + k
    BY <1>1, <1>5, <2>1 DEF Data, Lined, Joined, Start
  <2>3. PICK k \in Nat : k = store.hs + i /\ k \in (lastHandledByServer + 1)..Len(Log(session))
    <3>1. session \in 1..Len(sessions) /\ Len(Log(session)) \in Nat
      BY <1>1, <1>5, LinedContinues, DataTypes
    <3>2. PICK x, n \in Nat : x = store.hs /\ n = Len(Log(session))
      BY <3>1, DataTypes
    <3>3. x + i <= n
      BY <2>1, <3>2 DEF Log
    <3>4. i \in Nat /\ i >= 1
      BY <1>3
    <3>5. x + i \in Nat /\ x + i \in (x + 1)..n
      BY <3>3, <3>4
    <3> QED  BY <2>1, <3>2, <3>5
  <2>4. Log(session)[store.hs + i] = b + store.hs + i
    <3>1. Log(session)[k] = b + k
      BY <2>2, <2>3
    <3>2. PICK x \in Nat : x = store.hs
      BY DataTypes
    <3>3. k = x + i /\ b + k = b + x + i
      BY <1>3, <2>3, <3>2
    <3> QED  BY <2>3, <3>1, <3>2, <3>3
  <2> QED  BY <1>3, <2>1, <2>4 DEF Log
<1> QED  BY <1>4, <1>5

LEMMA OutgoingInitially == Init => OutgoingInv
BY InvInitially, ArmedInvInitially, ControlInitially, DataInitially DEF OutgoingInv

LEMMA OutgoingPreserved ==
    ASSUME AlwaysResumes, NoWrap, KeepsResuming, OutgoingInv, [Next]_vars
    PROVE  OutgoingInv'
<1>1. Inv' /\ QueueInv' /\ ArmedInv'
  BY InvPreserved, ArmedInvPreserved DEF OutgoingInv
<1>2. ControlInv'
  BY <1>1, ControlPreserved DEF OutgoingInv
<1>3. DataInv'
  BY <1>1, DataPreserved DEF OutgoingInv
<1> QED  BY <1>1, <1>2, <1>3 DEF OutgoingInv

LEMMA AcksCompleteImplied == ASSUME NoWrap, Inv, ControlInv, DataInv, Complete PROVE AcksComplete
<1> SUFFICES ASSUME isStarted PROVE AcksComplete
  BY DEF AcksComplete
<1>1. PICK r \in Nat, t \in Nat, b \in Nat : Data(r, t, b)
  BY DEF DataInv
<1>2. session \in 1..Len(sessions) /\ attached = session
  BY <1>1, LinedContinues
<1>3. PICK x, n, u \in Nat : x = lastHandledByServer /\ n = Len(Log(session)) /\ u = Len(unackedByServer)
  BY <1>2, DataTypes, OutgoingTypes
<1>4. x <= n /\ \A i \in 1..x : Log(session)[i] \in reported \cup IdLess \cup lost
  BY <1>2, <1>3 DEF Complete, InCount, Known, Accounted
<1>5. x % Modulus = lastHandledByServer
  <2>1. n <= r /\ r <= sent /\ sent < Modulus /\ sent \in Nat
    BY <1>1, <1>2, <1>3, CountIsLength, DataTypes
  <2>2. x < Modulus
    BY <1>4, <2>1, BoundsAssumption
  <2> QED  BY <1>3, <2>2, BoundsAssumption
<1>6. /\ t = b + x + u /\ \A i \in 1..u : unackedByServer[i].n = b + x + i
      /\ \A k \in (x + 1)..n : Log(session)[k] = b + k
  BY <1>1, <1>2, <1>3 DEF Data, Lined, Live, Joined, Start
<1>7. \A m \in reported : m \in Nat /\ m <= b + x
  <2> SUFFICES ASSUME NEW m \in reported PROVE m \in Nat /\ m <= b + x
    OBVIOUS
  <2>1. m \in Nat
    BY DataTypes
  <2>2. CASE u = 0
    BY <1>1, <1>6, <2>1, <2>2 DEF Data, Reported
  <2>3. CASE u # 0
    <3>1. 1 \in 1..u
      BY <2>3
    <3>2. m < unackedByServer[1].n
      BY <1>1, <1>3, <3>1 DEF Data, Reported, Waiting
    <3>3. unackedByServer[1].n = b + x + 1
      BY <1>6, <3>1
    <3> QED  BY <2>1, <3>2, <3>3
  <2> QED  BY <2>2, <2>3
<1>8. \A k \in (x + 1)..n : Log(session)[k] \notin reported
  <2> SUFFICES ASSUME NEW k \in (x + 1)..n, b + k \in reported PROVE FALSE
    BY <1>6
  <2>1. b + k <= b + x
    BY <1>7
  <2> QED  BY <2>1
<1>9. x \in 0..Len(sessions[session].log) /\ n = Len(sessions[session].log)
  BY <1>3, <1>4 DEF Log
<1> QED  BY <1>4, <1>5, <1>8, <1>9 DEF AcksComplete, Log

\* No stanza is reported as acknowledged that the server has not handled: whatever
\* connections are lost, sessions resumed, expired or refused, processes restarted, and
\* however late ids and acks arrive.
THEOREM NoFalseAckCorrect ==
    ASSUME AlwaysResumes, NoWrap, KeepsResuming
    PROVE  Spec => []NoFalseAck
<1>1. Init => OutgoingInv
  BY OutgoingInitially
<1>2. OutgoingInv /\ [Next]_vars => OutgoingInv'
  BY OutgoingPreserved
<1>3. OutgoingInv => NoFalseAck
  BY DEF OutgoingInv, DataInv, Data, Reported, NoFalseAck
<1> QED  BY <1>1, <1>2, <1>3, PTL DEF Spec

\* What the storage holds of a session that can be resumed lines up with what the server
\* handled of it, at any moment a process could be restarted from it.
THEOREM StoreCorrect ==
    ASSUME AlwaysResumes, NoWrap, KeepsResuming
    PROVE  Spec => []StoreMatchesServer
<1>1. Init => OutgoingInv
  BY OutgoingInitially
<1>2. OutgoingInv /\ [Next]_vars => OutgoingInv'
  BY OutgoingPreserved
<1>3. OutgoingInv => StoreMatchesServer
  BY StoreImplied DEF OutgoingInv
<1> QED  BY <1>1, <1>2, <1>3, PTL DEF Spec

\* The module implements acknowledged delivery: stanzas are reported once, in the order of
\* sending, after the server has handled them.
THEOREM DeliveryCorrect ==
    ASSUME AlwaysResumes, NoWrap, KeepsResuming
    PROVE  Spec => ImplementsDelivery
<1>1. Init => OutgoingInv
  BY OutgoingInitially
<1>2. OutgoingInv /\ [Next]_vars => OutgoingInv'
  BY OutgoingPreserved
<1>3. Init => Delivery!Init
  BY DEF Init, Delivery!Init
<1>4. OutgoingInv /\ OutgoingInv' /\ [Next]_vars => [Delivery!Next]_(Delivery!deliveryVars)
  BY StepDelivers DEF OutgoingInv
<1> QED  BY <1>1, <1>2, <1>3, <1>4, PTL DEF Spec, ImplementsDelivery, Delivery!Spec

\* The count the module keeps is true to its reports: what the server handled up to the count
\* was reported, on this connection or an earlier one of the session, or it was not in the
\* storage with its id when a <resumed/> counted it; and nothing after it was reported.  This
\* through connections and processes lost at any moment, but for those of KeepsResuming.
THEOREM CompleteCorrect ==
    ASSUME AlwaysResumes, NoWrap, KeepsResuming
    PROVE  Spec => []AcksComplete
<1>1. Init => OutgoingInv /\ Complete
  BY OutgoingInitially, CompleteInitially
<1>2. OutgoingInv /\ Complete /\ [Next]_vars => OutgoingInv' /\ Complete'
  <2> SUFFICES ASSUME OutgoingInv, Complete, [Next]_vars PROVE OutgoingInv' /\ Complete'
    OBVIOUS
  <2>1. OutgoingInv'
    BY OutgoingPreserved
  <2> QED  BY <2>1, CompletePreserved DEF OutgoingInv
<1>3. OutgoingInv /\ Complete => AcksComplete
  BY AcksCompleteImplied DEF OutgoingInv
<1> QED  BY <1>1, <1>2, <1>3, PTL DEF Spec

=============================================================================
