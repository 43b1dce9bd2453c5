--------------------------- MODULE AutoPingProofs ---------------------------
(* Proofs about AutoPing, for every set of pings and every bound.              *)
(*                                                                             *)
(* The two queues are independent, so that each invariant needs what the one   *)
(* says of the other: while a ping is awaited every disconnection on the queue *)
(* of XMPPPing, which forgets all pings before it, is followed by another ping *)
(* or answered by a callback on the queue of XMPPAutoPing; the last callback   *)
(* about the connection says whether the stream is authenticated; and a ping   *)
(* of an earlier connection is tracked before the disconnection is handled.    *)
EXTENDS AutoPing, TLAPS

Enders  == {"didAuthenticate", "didDisconnect", "pong", "timeout"}
Turning == {"didAuthenticate", "didDisconnect"}

\* After block i of the queue of XMPPPing another ping is added.
PingAfter(queue, i) == \E j \in 1..Len(queue) : j > i /\ queue[j].kind = "addID"

AwaitedBehind ==
    awaitingPingResponse => \A i \in 1..Len(pingQueue) : pingQueue[i].kind = "didDisconnect"
                                => Waits(moduleQueue, Enders) \/ PingAfter(pingQueue, i)

NoTurnAfter(queue, i) == \A j \in 1..Len(queue) : j > i => queue[j].kind \notin Turning

LastTurnIs(queue, up) ==
    \A i \in 1..Len(queue) : queue[i].kind \in Turning /\ NoTurnAfter(queue, i)
        => (up <=> queue[i].kind = "didAuthenticate")

LastTurn     == LastTurnIs(moduleQueue, authenticated)
TimerEnabled == pingIntervalTimer => pingInterval

\* Behind the tracking of an old ping there is a disconnection.
OldBefore(queue, p) ==
    \A j \in 1..Len(queue) : queue[j] = About("addID", p)
        => \E i \in 1..Len(queue) : i > j /\ queue[i].kind = "didDisconnect"

OldOrdered == \A p \in old : OldBefore(pingQueue, p)

Inv ==
    /\ TypeOK
    /\ AwaitingEnds /\ AwaitedBehind
    /\ MonitorsWhileUp /\ LastTurn /\ TimerEnabled
    /\ OldPingsForgotten /\ OldOrdered

-----------------------------------------------------------------------------
(* Queues.                                                                     *)

LEMMA AppendFacts ==
    ASSUME NEW S, NEW q \in Seq(S), NEW e \in S
    PROVE  /\ Append(q, e) \in Seq(S) /\ Len(q) \in Nat
           /\ Len(Append(q, e)) = Len(q) + 1
           /\ \A i \in 1..Len(q) : i \in 1..Len(Append(q, e)) /\ Append(q, e)[i] = q[i]
           /\ Append(q, e)[Len(q) + 1] = e
           /\ \A i \in 1..Len(Append(q, e)) : i \in 1..Len(q) \/ i = Len(q) + 1
           /\ DOMAIN q = 1..Len(q) /\ DOMAIN Append(q, e) = 1..Len(Append(q, e))
  OBVIOUS

LEMMA TailFacts ==
    ASSUME NEW S, NEW q \in Seq(S), q # <<>>
    PROVE  /\ Tail(q) \in Seq(S)
           /\ Len(q) \in Nat /\ Len(q) > 0 /\ Len(Tail(q)) = Len(q) - 1
           /\ \A i \in 1..Len(Tail(q)) : i + 1 \in 1..Len(q) /\ Tail(q)[i] = q[i + 1]
           /\ \A i \in 1..Len(q) : i # 1 => i - 1 \in 1..Len(Tail(q)) /\ Tail(q)[i - 1] = q[i]
           /\ Head(q) = q[1] /\ Head(q) \in S
           /\ DOMAIN q = 1..Len(q) /\ DOMAIN Tail(q) = 1..Len(Tail(q))
  OBVIOUS

LEMMA BlockKinds ==
    /\ \A k \in {"didAuthenticate", "didDisconnect", "received"} :
          Event(k) \in ModuleBlocks /\ Event(k).kind = k
    /\ \A k \in {"pong", "timeout"}, p \in Pings :
          About(k, p) \in ModuleBlocks /\ About(k, p).kind = k
    /\ Event("didDisconnect") \in PingBlocks
    /\ \A k \in {"addID", "iq"}, p \in Pings :
          About(k, p) \in PingBlocks /\ About(k, p).kind = k /\ About(k, p).id = p
  BY DEF Event, About, ModuleBlocks, PingBlocks

\* What waits still waits when a block is posted, and the posted block waits.
LEMMA WaitsAppend ==
    ASSUME NEW S, NEW q \in Seq(S), NEW e \in S, NEW kinds
    PROVE  Waits(Append(q, e), kinds) <=> Waits(q, kinds) \/ e.kind \in kinds
  <1>1. Waits(q, kinds) => Waits(Append(q, e), kinds) BY AppendFacts DEF Waits
  <1>2. e.kind \in kinds => Waits(Append(q, e), kinds)
    <2>1. Len(q) + 1 \in DOMAIN Append(q, e) /\ Append(q, e)[Len(q) + 1] = e BY AppendFacts
    <2> QED BY <2>1 DEF Waits
  <1>3. ASSUME Waits(Append(q, e), kinds) PROVE Waits(q, kinds) \/ e.kind \in kinds
    <2>1. PICK i \in DOMAIN Append(q, e) : Append(q, e)[i].kind \in kinds BY <1>3 DEF Waits
    <2>2. i \in 1..Len(q) \/ i = Len(q) + 1 BY <2>1, AppendFacts
    <2> QED BY <2>1, <2>2, AppendFacts DEF Waits
  <1> QED BY <1>1, <1>2, <1>3

\* What waits is taken or still waits.
LEMMA WaitsTail ==
    ASSUME NEW S, NEW q \in Seq(S), q # <<>>, NEW kinds
    PROVE  Waits(q, kinds) <=> Waits(Tail(q), kinds) \/ Head(q).kind \in kinds
  <1>1. ASSUME Waits(q, kinds) PROVE Waits(Tail(q), kinds) \/ Head(q).kind \in kinds
    <2>1. PICK i \in DOMAIN q : q[i].kind \in kinds BY <1>1 DEF Waits
    <2>2. CASE i = 1 BY <2>1, <2>2, TailFacts
    <2>3. CASE i # 1
      <3>1. i - 1 \in DOMAIN Tail(q) /\ Tail(q)[i - 1] = q[i] BY <2>1, <2>3, TailFacts
      <3> QED BY <2>1, <3>1 DEF Waits
    <2> QED BY <2>2, <2>3
  <1>2. ASSUME Waits(Tail(q), kinds) PROVE Waits(q, kinds)
    <2>1. PICK i \in DOMAIN Tail(q) : Tail(q)[i].kind \in kinds BY <1>2 DEF Waits
    <2>2. i + 1 \in DOMAIN q /\ Tail(q)[i] = q[i + 1] BY <2>1, TailFacts
    <2> QED BY <2>1, <2>2 DEF Waits
  <1>3. ASSUME Head(q).kind \in kinds PROVE Waits(q, kinds)
    <2>1. 1 \in DOMAIN q /\ q[1] = Head(q) BY TailFacts
    <2> QED BY <1>3, <2>1 DEF Waits
  <1> QED BY <1>1, <1>2, <1>3

LEMMA PingAfterAppend ==
    ASSUME NEW q \in Seq(PingBlocks), NEW e \in PingBlocks, NEW i \in 1..Len(q)
    PROVE  PingAfter(q, i) \/ e.kind = "addID" => PingAfter(Append(q, e), i)
  BY AppendFacts DEF PingAfter

LEMMA PingAfterTail ==
    ASSUME NEW q \in Seq(PingBlocks), q # <<>>, NEW i \in 1..Len(Tail(q)), PingAfter(q, i + 1)
    PROVE  PingAfter(Tail(q), i)
  <1>1. PICK j \in 1..Len(q) : j > i + 1 /\ q[j].kind = "addID" BY DEF PingAfter
  <1>2. j - 1 \in 1..Len(Tail(q)) /\ j - 1 > i /\ Tail(q)[j - 1] = q[j] BY <1>1, TailFacts
  <1> QED BY <1>1, <1>2 DEF PingAfter

\* The last turn is the posted one, or the one it was.
LEMMA LastTurnAppend ==
    ASSUME NEW q \in Seq(ModuleBlocks), NEW e \in ModuleBlocks, NEW up, NEW after,
           LastTurnIs(q, up),
           e.kind \in Turning => (after <=> e.kind = "didAuthenticate"),
           e.kind \notin Turning => after = up
    PROVE  LastTurnIs(Append(q, e), after)
  <1> SUFFICES ASSUME NEW i \in 1..Len(Append(q, e)), Append(q, e)[i].kind \in Turning,
                      NoTurnAfter(Append(q, e), i)
               PROVE  after <=> Append(q, e)[i].kind = "didAuthenticate"
    BY DEF LastTurnIs
  <1>1. CASE i = Len(q) + 1 BY <1>1, AppendFacts
  <1>2. CASE i \in 1..Len(q)
    <2>1. Append(q, e)[i] = q[i] BY <1>2, AppendFacts
    <2>2. NoTurnAfter(q, i) BY <1>2, AppendFacts DEF NoTurnAfter
    <2>3. Len(q) + 1 \in 1..Len(Append(q, e)) /\ Len(q) + 1 > i /\ Append(q, e)[Len(q) + 1] = e
      BY <1>2, AppendFacts
    <2>4. e.kind \notin Turning BY <2>3 DEF NoTurnAfter
    <2> QED BY <1>2, <2>1, <2>2, <2>4 DEF LastTurnIs
  <1> QED BY <1>1, <1>2, AppendFacts

LEMMA LastTurnTail ==
    ASSUME NEW q \in Seq(ModuleBlocks), q # <<>>, NEW up, LastTurnIs(q, up)
    PROVE  /\ LastTurnIs(Tail(q), up)
           /\ Head(q).kind \in Turning /\ ~Waits(Tail(q), Turning)
                => (up <=> Head(q).kind = "didAuthenticate")
  <1>1. LastTurnIs(Tail(q), up)
    <2> SUFFICES ASSUME NEW i \in 1..Len(Tail(q)), Tail(q)[i].kind \in Turning,
                        NoTurnAfter(Tail(q), i)
                 PROVE  up <=> Tail(q)[i].kind = "didAuthenticate"
      BY DEF LastTurnIs
    <2>1. i + 1 \in 1..Len(q) /\ Tail(q)[i] = q[i + 1] BY TailFacts
    <2>2. NoTurnAfter(q, i + 1)
      <3> SUFFICES ASSUME NEW j \in 1..Len(q), j > i + 1 PROVE q[j].kind \notin Turning
        BY DEF NoTurnAfter
      <3>1. j - 1 \in 1..Len(Tail(q)) /\ j - 1 > i /\ Tail(q)[j - 1] = q[j] BY TailFacts
      <3> QED BY <3>1 DEF NoTurnAfter
    <2> QED BY <2>1, <2>2 DEF LastTurnIs
  <1>2. ASSUME Head(q).kind \in Turning, ~Waits(Tail(q), Turning)
        PROVE  up <=> Head(q).kind = "didAuthenticate"
    <2>1. 1 \in 1..Len(q) /\ q[1] = Head(q) BY TailFacts
    <2>2. NoTurnAfter(q, 1)
      <3> SUFFICES ASSUME NEW j \in 1..Len(q), j > 1 PROVE q[j].kind \notin Turning
        BY DEF NoTurnAfter
      <3>1. j - 1 \in DOMAIN Tail(q) /\ Tail(q)[j - 1] = q[j] BY TailFacts
      <3> QED BY <3>1, <1>2 DEF Waits
    <2> QED BY <1>2, <2>1, <2>2 DEF LastTurnIs
  <1> QED BY <1>1, <1>2

\* Posting a disconnection puts it behind everything; posting the tracking of a ping concerns
\* that ping alone.
LEMMA OldBeforeAppend ==
    ASSUME NEW q \in Seq(PingBlocks), NEW e \in PingBlocks, NEW p \in Pings,
           OldBefore(q, p) \/ e = Event("didDisconnect"), e # About("addID", p)
    PROVE  OldBefore(Append(q, e), p)
  <1> SUFFICES ASSUME NEW j \in 1..Len(Append(q, e)), Append(q, e)[j] = About("addID", p)
               PROVE  \E i \in 1..Len(Append(q, e)) :
                          i > j /\ Append(q, e)[i].kind = "didDisconnect"
    BY DEF OldBefore
  <1>1. j \in 1..Len(q) /\ q[j] = About("addID", p) BY AppendFacts
  <1>2. CASE OldBefore(q, p)
    <2>1. PICK i \in 1..Len(q) : i > j /\ q[i].kind = "didDisconnect" BY <1>1, <1>2 DEF OldBefore
    <2> QED BY <2>1, AppendFacts
  <1>3. CASE e = Event("didDisconnect")
    <2>1. Append(q, e)[Len(q) + 1].kind = "didDisconnect" BY <1>3, AppendFacts DEF Event
    <2> QED BY <1>1, <2>1, AppendFacts
  <1> QED BY <1>2, <1>3

LEMMA OldBeforeTail ==
    ASSUME NEW q \in Seq(PingBlocks), q # <<>>, NEW p \in Pings, OldBefore(q, p)
    PROVE  /\ OldBefore(Tail(q), p)
           /\ Head(q) = About("addID", p) => Waits(Tail(q), {"didDisconnect"})
           /\ About("addID", p) \in ToSet(Tail(q)) => Waits(Tail(q), {"didDisconnect"})
  <1>1. ASSUME NEW j \in 1..Len(q), q[j] = About("addID", p)
        PROVE  \E i \in 1..Len(Tail(q)) : i > j - 1 /\ Tail(q)[i].kind = "didDisconnect"
    <2>1. PICK i \in 1..Len(q) : i > j /\ q[i].kind = "didDisconnect" BY <1>1 DEF OldBefore
    <2>2. i - 1 \in 1..Len(Tail(q)) /\ Tail(q)[i - 1] = q[i] BY <2>1, TailFacts
    <2> QED BY <2>1, <2>2
  <1>2. \A j \in 1..Len(q) : q[j] = About("addID", p) => Waits(Tail(q), {"didDisconnect"})
    BY <1>1, TailFacts DEF Waits
  <1>3. OldBefore(Tail(q), p)
    <2> SUFFICES ASSUME NEW j \in 1..Len(Tail(q)), Tail(q)[j] = About("addID", p)
                 PROVE  \E i \in 1..Len(Tail(q)) : i > j /\ Tail(q)[i].kind = "didDisconnect"
      BY DEF OldBefore
    <2>1. j + 1 \in 1..Len(q) /\ q[j + 1] = About("addID", p) BY TailFacts
    <2>2. PICK i \in 1..Len(Tail(q)) : i > (j + 1) - 1 /\ Tail(q)[i].kind = "didDisconnect"
      BY <2>1, <1>1
    <2> QED BY <2>2
  <1>4. Head(q) = About("addID", p) => Waits(Tail(q), {"didDisconnect"}) BY <1>2, TailFacts
  <1>5. ASSUME About("addID", p) \in ToSet(Tail(q)) PROVE Waits(Tail(q), {"didDisconnect"})
    <2>1. PICK j \in DOMAIN Tail(q) : Tail(q)[j] = About("addID", p) BY <1>5 DEF ToSet
    <2>2. j + 1 \in 1..Len(q) /\ q[j + 1] = About("addID", p) BY <2>1, TailFacts
    <2> QED BY <2>2, <1>2
  <1> QED BY <1>3, <1>4, <1>5

-----------------------------------------------------------------------------
(* The three parts of the invariant, and the steps that they survive.          *)

Awaited   == AwaitingEnds /\ AwaitedBehind
Monitored == MonitorsWhileUp /\ LastTurn /\ TimerEnabled
Forgotten == OldPingsForgotten /\ OldOrdered

LEMMA InvParts == Inv <=> TypeOK /\ Awaited /\ Monitored /\ Forgotten
  BY DEF Inv, Awaited, Monitored, Forgotten

LEMMA QueueTypes ==
    ASSUME Inv PROVE moduleQueue \in Seq(ModuleBlocks) /\ pingQueue \in Seq(PingBlocks)
  BY DEF Inv, TypeOK

LEMMA AwaitedFrame ==
    ASSUME Inv, UNCHANGED <<awaitingPingResponse, moduleQueue, pingQueue, tracked, armed>>
    PROVE  Awaited'
  BY DEF Inv, Awaited, AwaitingEnds, AwaitedBehind, Waits, PingAfter

LEMMA MonitoredFrame ==
    ASSUME Inv, UNCHANGED <<moduleQueue, pingIntervalTimer, pingInterval, authenticated>>
    PROVE  Monitored'
  BY DEF Inv, Monitored, MonitorsWhileUp, LastTurn, LastTurnIs, NoTurnAfter, TimerEnabled, Waits

LEMMA ForgottenFrame ==
    ASSUME Inv, UNCHANGED <<old, tracked, pingQueue>> PROVE Forgotten'
  BY DEF Inv, Forgotten, OldPingsForgotten, OldOrdered, OldBefore, StillTracked, Waits

\* What ends the waiting is on the way once it is posted, whatever else happens.
LEMMA EnderPosted ==
    ASSUME Inv, NEW e \in ModuleBlocks, e.kind \in Enders, moduleQueue' = Append(moduleQueue, e)
    PROVE  Awaited'
  <1>1. Waits(moduleQueue', Enders) BY QueueTypes, WaitsAppend
  <1> QED BY <1>1 DEF Awaited, AwaitingEnds, AwaitedBehind, Enders

LEMMA AwaitedPost ==
    ASSUME Inv, NEW e \in ModuleBlocks, moduleQueue' = Append(moduleQueue, e),
           UNCHANGED <<awaitingPingResponse, pingQueue, tracked, armed>>
    PROVE  Awaited'
  <1>1. Waits(moduleQueue, Enders) => Waits(moduleQueue', Enders) BY QueueTypes, WaitsAppend
  <1>2. AwaitingEnds' BY <1>1 DEF Inv, AwaitingEnds, Enders, Waits
  <1>3. AwaitedBehind' BY <1>1 DEF Inv, AwaitedBehind, PingAfter
  <1> QED BY <1>2, <1>3 DEF Awaited

LEMMA MonitoredPost ==
    ASSUME Inv, NEW e \in ModuleBlocks, e.kind \notin Turning,
           moduleQueue' = Append(moduleQueue, e),
           UNCHANGED <<pingIntervalTimer, pingInterval, authenticated>>
    PROVE  Monitored'
  <1>1. Waits(moduleQueue, Turning) <=> Waits(moduleQueue', Turning) BY QueueTypes, WaitsAppend
  <1>2. MonitorsWhileUp' BY <1>1 DEF Inv, MonitorsWhileUp, Turning
  <1>3. LastTurn' BY QueueTypes, LastTurnAppend DEF Inv, LastTurn
  <1> QED BY <1>2, <1>3 DEF Inv, Monitored, TimerEnabled

\* Taking a block of XMPPAutoPing that is neither of the callbacks about the connection.
LEMMA MonitoredTake ==
    ASSUME Inv, moduleQueue # <<>>, moduleQueue' = Tail(moduleQueue),
           Head(moduleQueue).kind \notin Turning,
           UNCHANGED <<pingIntervalTimer, pingInterval, authenticated>>
    PROVE  Monitored'
  <1>1. Waits(moduleQueue, Turning) <=> Waits(moduleQueue', Turning) BY QueueTypes, WaitsTail
  <1>2. MonitorsWhileUp' BY <1>1 DEF Inv, MonitorsWhileUp, Turning
  <1>3. LastTurn' BY QueueTypes, LastTurnTail DEF Inv, LastTurn
  <1> QED BY <1>2, <1>3 DEF Inv, Monitored, TimerEnabled

-----------------------------------------------------------------------------
(* The stream.                                                                 *)

LEMMA DidAuthenticateInv == ASSUME Inv, DidAuthenticate PROVE Inv'
  <1> DEFINE e == Event("didAuthenticate")
  <1> USE DEF DidAuthenticate
  <1>e. e \in ModuleBlocks /\ e.kind = "didAuthenticate" BY BlockKinds
  <1>q. moduleQueue' = Append(moduleQueue, e) OBVIOUS
  <1> HIDE DEF e
  <1>1. TypeOK' BY <1>e, <1>q, QueueTypes, AppendFacts DEF Inv, TypeOK, autoVars, trackVars, histVars
  <1>2. Awaited' BY <1>e, <1>q, EnderPosted DEF Enders
  <1>3. Waits(moduleQueue', Turning) BY <1>e, <1>q, QueueTypes, WaitsAppend DEF Turning
  <1>4. LastTurn' BY <1>e, <1>q, QueueTypes, LastTurnAppend DEF Inv, LastTurn, Turning
  <1>5. Monitored' BY <1>3, <1>4 DEF Inv, Monitored, MonitorsWhileUp, Turning, TimerEnabled, autoVars
  <1>6. Forgotten' BY ForgottenFrame DEF trackVars, histVars
  <1> QED BY <1>1, <1>2, <1>5, <1>6 DEF Inv, Awaited, Monitored, Forgotten

LEMMA DidDisconnectInv == ASSUME Inv, DidDisconnect PROVE Inv'
  <1> DEFINE e == Event("didDisconnect")
  <1> USE DEF DidDisconnect
  <1>e. e \in ModuleBlocks /\ e \in PingBlocks /\ e.kind = "didDisconnect" BY BlockKinds
  <1>q. moduleQueue' = Append(moduleQueue, e) /\ pingQueue' = Append(pingQueue, e) OBVIOUS
  <1>d. e = Event("didDisconnect") OBVIOUS
  <1> HIDE DEF e
  <1>t. moduleQueue' \in Seq(ModuleBlocks) /\ pingQueue' \in Seq(PingBlocks)
    BY <1>e, <1>q, QueueTypes, AppendFacts
  <1>o. old' \subseteq Pings /\ wire' \subseteq Pings /\ authenticated' \in BOOLEAN OBVIOUS
  <1>1. TypeOK' BY <1>t, <1>o DEF Inv, TypeOK, autoVars, trackVars
  <1>2. Awaited' BY <1>e, <1>q, EnderPosted DEF Enders
  <1>3. Waits(moduleQueue', Turning) BY <1>e, <1>q, QueueTypes, WaitsAppend DEF Turning
  <1>4. LastTurn' BY <1>e, <1>q, QueueTypes, LastTurnAppend DEF Inv, LastTurn, Turning
  <1>5. Monitored' BY <1>3, <1>4 DEF Inv, Monitored, MonitorsWhileUp, Turning, TimerEnabled, autoVars
  <1>6. Waits(pingQueue', {"didDisconnect"}) BY <1>e, <1>q, QueueTypes, WaitsAppend
  <1>7. OldPingsForgotten' BY <1>6 DEF OldPingsForgotten
  <1>8. OldOrdered'
    <2> SUFFICES ASSUME NEW p \in old' PROVE OldBefore(pingQueue', p) BY DEF OldOrdered
    <2>1. p \in Pings OBVIOUS
    <2>2. e # About("addID", p) BY <1>e DEF About
    <2> QED BY <1>e, <1>q, <1>d, <2>1, <2>2, QueueTypes, OldBeforeAppend
  <1> QED BY <1>1, <1>2, <1>5, <1>7, <1>8 DEF Inv, Awaited, Monitored

LEMMA WritePingInv == ASSUME Inv, WritePing PROVE Inv'
  <1> USE DEF WritePing
  <1>t. outbox \in Seq(Pings) /\ wire \subseteq Pings BY DEF Inv, TypeOK
  <1>o. outbox' \in Seq(Pings) /\ Head(outbox) \in Pings BY <1>t
  <1>w. wire' \subseteq Pings BY <1>t, <1>o
  <1>1. TypeOK' BY <1>o, <1>w DEF Inv, TypeOK, autoVars, trackVars, histVars
  <1>2. Awaited' BY AwaitedFrame DEF autoVars, trackVars
  <1>3. Monitored' BY MonitoredFrame DEF autoVars
  <1>4. Forgotten' BY ForgottenFrame DEF trackVars, histVars
  <1> QED BY <1>1, <1>2, <1>3, <1>4 DEF Inv, Awaited, Monitored, Forgotten

\* A reply to an earlier ping is a block like any other to what is awaited and forgotten.
LEMMA ReceivePongInv == ASSUME Inv, ReceivePong PROVE Inv'
  <1>p. PICK p \in wire :
            /\ wire' = wire \ {p}
            /\ moduleQueue' = Append(moduleQueue, Event("received"))
            /\ pingQueue' = Append(pingQueue, About("iq", p))
            /\ UNCHANGED <<authenticated, outbox, autoVars, trackVars, histVars>>
    BY DEF ReceivePong
  <1> DEFINE e == About("iq", p)
             r == Event("received")
  <1>e. p \in Pings /\ e \in PingBlocks /\ e.kind = "iq" BY BlockKinds DEF Inv, TypeOK
  <1>r. r \in ModuleBlocks /\ r.kind = "received" BY BlockKinds
  <1>q. moduleQueue' = Append(moduleQueue, r) /\ pingQueue' = Append(pingQueue, e) BY <1>p
  <1> HIDE DEF e, r
  <1> USE DEF autoVars, trackVars, histVars
  <1>1. TypeOK' BY <1>p, <1>e, <1>r, <1>q, QueueTypes, AppendFacts DEF Inv, TypeOK
  <1>2. Waits(moduleQueue, Enders) => Waits(moduleQueue', Enders)
    BY <1>q, <1>r, QueueTypes, WaitsAppend
  <1>3. Waits(pingQueue, {"addID"}) => Waits(pingQueue', {"addID"})
    BY <1>q, <1>e, QueueTypes, WaitsAppend
  <1>4. AwaitingEnds' BY <1>p, <1>2, <1>3 DEF Inv, AwaitingEnds, Enders
  <1>5. AwaitedBehind'
    <2> SUFFICES ASSUME awaitingPingResponse, NEW i \in 1..Len(pingQueue'),
                        pingQueue'[i].kind = "didDisconnect", ~Waits(moduleQueue', Enders)
                 PROVE  PingAfter(pingQueue', i)
      BY <1>p DEF AwaitedBehind
    <2>1. i \in 1..Len(pingQueue) /\ pingQueue'[i] = pingQueue[i]
      BY <1>q, <1>e, QueueTypes, AppendFacts
    <2>2. PingAfter(pingQueue, i) BY <2>1, <1>2 DEF Inv, AwaitedBehind
    <2> QED BY <2>1, <2>2, <1>q, <1>e, QueueTypes, PingAfterAppend
  <1>6. Monitored' BY <1>p, <1>q, <1>r, MonitoredPost DEF Turning
  <1>7. OldPingsForgotten'
    <2> SUFFICES ASSUME NEW o \in old, StillTracked(o)' PROVE Waits(pingQueue', {"didDisconnect"})
      BY <1>p DEF OldPingsForgotten
    <2>1. StillTracked(o)
      <3>1. ASSUME About("addID", o) \in ToSet(pingQueue') PROVE About("addID", o) \in ToSet(pingQueue)
        <4>1. PICK j \in 1..Len(pingQueue') : pingQueue'[j] = About("addID", o)
          BY <3>1, <1>q, <1>e, QueueTypes, AppendFacts DEF ToSet
        <4>2. About("addID", o) # e BY <1>e DEF About
        <4>3. j \in 1..Len(pingQueue) /\ pingQueue'[j] = pingQueue[j]
          BY <4>1, <4>2, <1>q, <1>e, QueueTypes, AppendFacts
        <4> QED BY <4>1, <4>3, QueueTypes DEF ToSet
      <3> QED BY <1>p, <3>1 DEF StillTracked
    <2> QED BY <2>1, <1>q, <1>e, QueueTypes, WaitsAppend DEF Inv, OldPingsForgotten
  <1>8. OldOrdered'
    <2> SUFFICES ASSUME NEW o \in old PROVE OldBefore(pingQueue', o) BY <1>p DEF OldOrdered
    <2>1. o \in Pings /\ OldBefore(pingQueue, o) BY DEF Inv, TypeOK, OldOrdered
    <2>2. About("addID", o) # e BY <1>e DEF About
    <2> QED BY <2>1, <2>2, <1>q, <1>e, QueueTypes, OldBeforeAppend
  <1> QED BY <1>1, <1>4, <1>5, <1>6, <1>7, <1>8 DEF Inv, Monitored

LEMMA ReceiveOtherInv == ASSUME Inv, ReceiveOther PROVE Inv'
  <1> DEFINE r == Event("received")
  <1> USE DEF ReceiveOther, streamVars, autoVars, trackVars, histVars
  <1>r. r \in ModuleBlocks /\ r.kind = "received" BY BlockKinds
  <1>q. moduleQueue' = Append(moduleQueue, r) OBVIOUS
  <1> HIDE DEF r
  <1>1. TypeOK' BY <1>r, <1>q, QueueTypes, AppendFacts DEF Inv, TypeOK
  <1>2. Awaited' BY <1>r, <1>q, AwaitedPost
  <1>3. Monitored' BY <1>r, <1>q, MonitoredPost DEF Turning
  <1>4. Forgotten' BY ForgottenFrame
  <1> QED BY <1>1, <1>2, <1>3, <1>4 DEF Inv, Awaited, Monitored, Forgotten

-----------------------------------------------------------------------------
(* The blocks of XMPPAutoPing.                                                 *)

LEMMA ModuleTakes ==
    ASSUME Inv, moduleQueue # <<>>, moduleQueue' = Tail(moduleQueue)
    PROVE  /\ moduleQueue' \in Seq(ModuleBlocks) /\ Head(moduleQueue) \in ModuleBlocks
           /\ Waits(moduleQueue, Enders) /\ Head(moduleQueue).kind \notin Enders
                => Waits(moduleQueue', Enders)
           /\ Waits(moduleQueue, Turning) <=>
                  Waits(moduleQueue', Turning) \/ Head(moduleQueue).kind \in Turning
           /\ LastTurnIs(moduleQueue', authenticated)
           /\ Head(moduleQueue).kind \in Turning /\ ~Waits(moduleQueue', Turning)
                => (authenticated <=> Head(moduleQueue).kind = "didAuthenticate")
  <1>1. moduleQueue' \in Seq(ModuleBlocks) /\ Head(moduleQueue) \in ModuleBlocks
    BY QueueTypes, TailFacts
  <1>2. Waits(moduleQueue, Enders) /\ Head(moduleQueue).kind \notin Enders
           => Waits(moduleQueue', Enders)
    BY QueueTypes, WaitsTail
  <1>3. Waits(moduleQueue, Turning) <=>
            Waits(moduleQueue', Turning) \/ Head(moduleQueue).kind \in Turning
    BY QueueTypes, WaitsTail
  <1>4. /\ LastTurnIs(moduleQueue', authenticated)
        /\ Head(moduleQueue).kind \in Turning /\ ~Waits(moduleQueue', Turning)
                => (authenticated <=> Head(moduleQueue).kind = "didAuthenticate")
    BY QueueTypes, LastTurnTail DEF Inv, LastTurn
  <1> QED BY <1>1, <1>2, <1>3, <1>4

LEMMA HandleDidAuthenticateInv == ASSUME Inv, HandleDidAuthenticate PROVE Inv'
  <1> USE DEF HandleDidAuthenticate, Taking, Rest, streamVars, trackVars
  <1>q. moduleQueue # <<>> /\ moduleQueue' = Tail(moduleQueue)
        /\ Head(moduleQueue).kind = "didAuthenticate"
    OBVIOUS
  <1>1. TypeOK' BY <1>q, ModuleTakes DEF Inv, TypeOK
  <1>2. Awaited' BY DEF Awaited, AwaitingEnds, AwaitedBehind
  <1>3. LastTurn' BY <1>q, ModuleTakes DEF LastTurn
  <1>4. TimerEnabled' BY DEF Inv, TimerEnabled
  <1>5. MonitorsWhileUp'
    <2>1. ~Waits(moduleQueue', Turning) => authenticated BY <1>q, ModuleTakes DEF Turning
    <2> QED BY <2>1 DEF MonitorsWhileUp, Turning, Inv, TimerEnabled
  <1>6. Forgotten' BY ForgottenFrame
  <1> QED BY <1>1, <1>2, <1>3, <1>4, <1>5, <1>6 DEF Inv, Awaited, Forgotten

LEMMA HandleReceivedInv == ASSUME Inv, HandleReceived PROVE Inv'
  <1> USE DEF HandleReceived, Taking, Rest, streamVars, trackVars
  <1>q. moduleQueue # <<>> /\ moduleQueue' = Tail(moduleQueue)
        /\ Head(moduleQueue).kind = "received"
    OBVIOUS
  <1>1. TypeOK' BY <1>q, ModuleTakes DEF Inv, TypeOK
  <1>2. Waits(moduleQueue, Enders) => Waits(moduleQueue', Enders)
    BY <1>q, ModuleTakes DEF Enders
  <1>3. AwaitingEnds' BY <1>2 DEF Inv, AwaitingEnds, Enders, Waits
  <1>4. AwaitedBehind' BY <1>2 DEF Inv, AwaitedBehind, PingAfter
  <1>5. Monitored' BY <1>q, MonitoredTake DEF Turning
  <1>6. Forgotten' BY ForgottenFrame
  <1> QED BY <1>1, <1>3, <1>4, <1>5, <1>6 DEF Inv, Monitored, Forgotten

LEMMA HandleDidDisconnectInv == ASSUME Inv, HandleDidDisconnect PROVE Inv'
  <1> USE DEF HandleDidDisconnect, Taking, Resets, Rest, streamVars, trackVars
  <1>q. moduleQueue # <<>> /\ moduleQueue' = Tail(moduleQueue)
        /\ Head(moduleQueue).kind = "didDisconnect"
    OBVIOUS
  <1>1. TypeOK' BY <1>q, ModuleTakes DEF Inv, TypeOK
  <1>2. Awaited' BY DEF Awaited, AwaitingEnds, AwaitedBehind
  <1>3. LastTurn' /\ TimerEnabled' BY <1>q, ModuleTakes DEF LastTurn, TimerEnabled
  <1>4. MonitorsWhileUp'
    <2>1. ~Waits(moduleQueue', Turning) => ~authenticated BY <1>q, ModuleTakes DEF Turning
    <2> QED BY <2>1 DEF MonitorsWhileUp, Turning
  <1>5. Forgotten' BY ForgottenFrame
  <1> QED BY <1>1, <1>2, <1>3, <1>4, <1>5 DEF Inv, Awaited, Forgotten

LEMMA HandleVerdictInv ==
    ASSUME Inv, NEW kind \in {"pong", "timeout"}, HandleVerdict(kind) PROVE Inv'
  <1> USE DEF HandleVerdict, Taking, Rest, streamVars, trackVars
  <1>q. moduleQueue # <<>> /\ moduleQueue' = Tail(moduleQueue) /\ Head(moduleQueue).kind = kind
    OBVIOUS
  <1>v. verdicts' \in [Pings -> Seq({"pong", "timeout"})]
    <2>1. verdicts \in [Pings -> Seq({"pong", "timeout"})] BY DEF Inv, TypeOK
    <2>2. \A p \in Pings : Append(verdicts[p], kind) \in Seq({"pong", "timeout"}) BY <2>1
    <2> QED BY <2>1, <2>2
  <1>1. TypeOK' BY <1>q, <1>v, ModuleTakes DEF Inv, TypeOK
  <1>2. Awaited' BY DEF Awaited, AwaitingEnds, AwaitedBehind
  <1>3. Monitored' BY <1>q, MonitoredTake DEF Turning
  <1>4. Forgotten' BY ForgottenFrame
  <1> QED BY <1>1, <1>2, <1>3, <1>4 DEF Inv, Awaited, Monitored, Forgotten

\* The ping that the timer sends is tracked behind every disconnection that waits.
LEMMA TimerFireInv == ASSUME Inv, HandlePingIntervalTimerFire PROVE Inv'
  <1>p. PICK p \in Fresh :
            /\ pingQueue' = Append(pingQueue, About("addID", p))
            /\ outbox' = Append(outbox, p)
            /\ verdicts' = [verdicts EXCEPT ![p] = <<>>]
            /\ old' = old \ {p}
    BY DEF HandlePingIntervalTimerFire
  <1>u. /\ awaitingPingResponse' = TRUE
        /\ UNCHANGED <<authenticated, wire, moduleQueue, pingInterval, pingIntervalTimer,
                       lastReceiveTime, tracked, armed>>
    BY DEF HandlePingIntervalTimerFire, trackVars
  <1> DEFINE e == About("addID", p)
  <1>e. p \in Pings /\ e \in PingBlocks /\ e.kind = "addID" BY BlockKinds DEF Fresh
  <1>q. pingQueue' = Append(pingQueue, e) BY <1>p
  <1>d. e = About("addID", p) OBVIOUS
  <1> HIDE DEF e
  <1>1. TypeOK'
    <2>1. outbox' \in Seq(Pings) BY <1>p, <1>e DEF Inv, TypeOK
    <2>2. verdicts' \in [Pings -> Seq({"pong", "timeout"})]
      <3>1. <<>> \in Seq({"pong", "timeout"}) OBVIOUS
      <3> QED BY <1>p, <3>1 DEF Inv, TypeOK
    <2>3. pingQueue' \in Seq(PingBlocks) BY <1>q, <1>e, QueueTypes, AppendFacts
    <2> QED BY <1>p, <1>u, <2>1, <2>2, <2>3 DEF Inv, TypeOK
  <1>2. AwaitingEnds' BY <1>q, <1>e, QueueTypes, WaitsAppend DEF AwaitingEnds
  <1>3. AwaitedBehind'
    <2> SUFFICES ASSUME NEW i \in 1..Len(pingQueue'), pingQueue'[i].kind = "didDisconnect"
                 PROVE  PingAfter(pingQueue', i)
      BY DEF AwaitedBehind
    <2>1. i \in 1..Len(pingQueue) BY <1>q, <1>e, QueueTypes, AppendFacts
    <2> QED BY <2>1, <1>q, <1>e, QueueTypes, PingAfterAppend
  <1>4. Monitored' BY <1>u, MonitoredFrame
  <1>5. OldPingsForgotten'
    <2> SUFFICES ASSUME NEW o \in old, o # p, StillTracked(o)'
                 PROVE  Waits(pingQueue', {"didDisconnect"})
      BY <1>p DEF OldPingsForgotten
    <2>1. ASSUME About("addID", o) \in ToSet(pingQueue') PROVE About("addID", o) \in ToSet(pingQueue)
      <3>1. PICK j \in 1..Len(pingQueue') : pingQueue'[j] = About("addID", o)
        BY <2>1, <1>q, <1>e, QueueTypes, AppendFacts DEF ToSet
      <3>2. About("addID", o) # e BY <1>d DEF About
      <3>3. j \in 1..Len(pingQueue) /\ pingQueue'[j] = pingQueue[j]
        BY <3>1, <3>2, <1>q, <1>e, QueueTypes, AppendFacts
      <3> QED BY <3>1, <3>3, QueueTypes DEF ToSet
    <2>2. StillTracked(o) BY <1>u, <2>1 DEF StillTracked
    <2> QED BY <2>2, <1>q, <1>e, QueueTypes, WaitsAppend DEF Inv, OldPingsForgotten
  <1>6. OldOrdered'
    <2> SUFFICES ASSUME NEW o \in old, o # p PROVE OldBefore(pingQueue', o)
      BY <1>p DEF OldOrdered
    <2>1. o \in Pings /\ OldBefore(pingQueue, o) BY DEF Inv, TypeOK, OldOrdered
    <2>2. About("addID", o) # e BY <1>d DEF About
    <2> QED BY <2>1, <2>2, <1>q, <1>e, QueueTypes, OldBeforeAppend
  <1> QED BY <1>1, <1>2, <1>3, <1>4, <1>5, <1>6 DEF Inv, Monitored

LEMMA ElapsesInv == ASSUME Inv, Elapses PROVE Inv'
  <1> USE DEF Elapses, Rest, streamVars, trackVars
  <1>1. TypeOK' BY DEF Inv, TypeOK
  <1>2. Awaited' /\ Monitored' /\ Forgotten' BY AwaitedFrame, MonitoredFrame, ForgottenFrame
  <1> QED BY <1>1, <1>2 DEF Inv, Awaited, Monitored, Forgotten

LEMMA SetPingIntervalInv ==
    ASSUME Inv, NEW positive \in BOOLEAN, SetPingInterval(positive) PROVE Inv'
  <1> USE DEF SetPingInterval, StartsTimer, Rest, streamVars, trackVars
  <1>1. TypeOK' BY DEF Inv, TypeOK
  <1>2. Awaited' /\ Forgotten' BY AwaitedFrame, ForgottenFrame
  <1>3. LastTurn' BY DEF Inv, LastTurn, LastTurnIs, NoTurnAfter
  <1>4. TimerEnabled' BY DEF TimerEnabled
  <1>5. MonitorsWhileUp' BY DEF Inv, MonitorsWhileUp, Waits
  <1> QED BY <1>1, <1>2, <1>3, <1>4, <1>5 DEF Inv, Awaited, Forgotten

-----------------------------------------------------------------------------
(* The blocks of XMPPPing and the timers of its tracker.                       *)

LEMMA PingTakes ==
    ASSUME Inv, pingQueue # <<>>, pingQueue' = Tail(pingQueue)
    PROVE  /\ pingQueue' \in Seq(PingBlocks) /\ Head(pingQueue) \in PingBlocks
           /\ \A kinds : Waits(pingQueue, kinds) /\ Head(pingQueue).kind \notin kinds
                            => Waits(pingQueue', kinds)
           /\ \A i \in 1..Len(pingQueue') : PingAfter(pingQueue, i + 1) => PingAfter(pingQueue', i)
           /\ \A i \in 1..Len(pingQueue') : i + 1 \in 1..Len(pingQueue)
                                              /\ pingQueue'[i] = pingQueue[i + 1]
  <1>1. pingQueue' \in Seq(PingBlocks) /\ Head(pingQueue) \in PingBlocks
    BY QueueTypes, TailFacts
  <1>2. \A kinds : Waits(pingQueue, kinds) /\ Head(pingQueue).kind \notin kinds
                    => Waits(pingQueue', kinds)
    BY QueueTypes, WaitsTail
  <1>3. \A i \in 1..Len(pingQueue') : PingAfter(pingQueue, i + 1) => PingAfter(pingQueue', i)
    BY QueueTypes, PingAfterTail
  <1>4. \A i \in 1..Len(pingQueue') : i + 1 \in 1..Len(pingQueue)
                                      /\ pingQueue'[i] = pingQueue[i + 1]
    BY QueueTypes, TailFacts
  <1> QED BY <1>1, <1>2, <1>3, <1>4

\* What waits behind the first block of XMPPPing is as much behind the disconnections.
LEMMA AwaitedBehindTake ==
    ASSUME Inv, pingQueue # <<>>, pingQueue' = Tail(pingQueue),
           Waits(moduleQueue, Enders) => Waits(moduleQueue', Enders), UNCHANGED awaitingPingResponse
    PROVE  AwaitedBehind'
  <1> SUFFICES ASSUME awaitingPingResponse, NEW i \in 1..Len(pingQueue'),
                      pingQueue'[i].kind = "didDisconnect", ~Waits(moduleQueue', Enders)
               PROVE  PingAfter(pingQueue', i)
    BY DEF AwaitedBehind
  <1>1. i + 1 \in 1..Len(pingQueue) /\ pingQueue[i + 1].kind = "didDisconnect" BY PingTakes
  <1>2. PingAfter(pingQueue, i + 1) BY <1>1 DEF Inv, AwaitedBehind
  <1> QED BY <1>2, PingTakes

\* Of the old pings only those behind which a disconnection waits are left on the queue.
LEMMA OldTakes ==
    ASSUME Inv, pingQueue # <<>>, pingQueue' = Tail(pingQueue), NEW o \in old
    PROVE  /\ OldBefore(pingQueue', o)
           /\ Head(pingQueue) = About("addID", o) => Waits(pingQueue', {"didDisconnect"})
           /\ About("addID", o) \in ToSet(pingQueue') => Waits(pingQueue', {"didDisconnect"})
  <1>1. o \in Pings /\ OldBefore(pingQueue, o) BY DEF Inv, TypeOK, OldOrdered
  <1> QED BY <1>1, QueueTypes, OldBeforeTail

\* The old pings stay ordered, and forgotten if those that are tracked are still the same.
LEMMA ForgottenTake ==
    ASSUME Inv, pingQueue # <<>>, pingQueue' = Tail(pingQueue), UNCHANGED old,
           \A o \in old : o \in tracked' => Waits(pingQueue', {"didDisconnect"})
    PROVE  Forgotten'
  <1>1. OldOrdered' BY OldTakes DEF OldOrdered
  <1>2. OldPingsForgotten' BY OldTakes DEF OldPingsForgotten, StillTracked
  <1> QED BY <1>1, <1>2 DEF Forgotten

LEMMA HandleAddIDInv == ASSUME Inv, HandleAddID PROVE Inv'
  <1> DEFINE p == Head(pingQueue).id
  <1>q. pingQueue # <<>> /\ pingQueue' = Tail(pingQueue) /\ Head(pingQueue).kind = "addID"
    BY DEF HandleAddID, PingTaking
  <1>u. /\ tracked' = tracked \cup {p}
        /\ armed' = IF TimesOut THEN armed \cup {p} ELSE armed
        /\ UNCHANGED <<streamVars, moduleQueue, autoVars, histVars>>
    BY DEF HandleAddID, PingRest
  <1> USE DEF streamVars, autoVars, histVars
  <1>t. pingQueue' \in Seq(PingBlocks) /\ Head(pingQueue) \in PingBlocks BY <1>q, PingTakes
  <1>p. p \in Pings /\ Head(pingQueue) = About("addID", p)
    BY <1>q, <1>t DEF PingBlocks, Event, About
  <1> HIDE DEF p
  <1>1. TypeOK' BY <1>u, <1>t, <1>p DEF Inv, TypeOK
  <1>2. AwaitingEnds' BY <1>u, TimesOutAssumption DEF AwaitingEnds
  <1>3. AwaitedBehind' BY <1>q, <1>u, AwaitedBehindTake
  <1>4. Monitored' BY <1>u, MonitoredFrame
  <1>5. \A o \in old : o \in tracked' => Waits(pingQueue', {"didDisconnect"})
    <2> SUFFICES ASSUME NEW o \in old, o \in tracked' PROVE Waits(pingQueue', {"didDisconnect"})
      OBVIOUS
    <2>1. CASE o = p BY <2>1, <1>q, <1>p, OldTakes
    <2>2. CASE o \in tracked
      <3>1. Waits(pingQueue, {"didDisconnect"}) BY <2>2 DEF Inv, OldPingsForgotten, StillTracked
      <3> QED BY <3>1, <1>q, PingTakes
    <2> QED BY <2>1, <2>2, <1>u
  <1>6. Forgotten' BY <1>q, <1>u, <1>5, ForgottenTake
  <1> QED BY <1>1, <1>2, <1>3, <1>4, <1>6 DEF Inv, Monitored, Forgotten

LEMMA HandleIQInv == ASSUME Inv, HandleIQ PROVE Inv'
  <1> DEFINE p == Head(pingQueue).id
  <1>q. pingQueue # <<>> /\ pingQueue' = Tail(pingQueue) /\ Head(pingQueue).kind = "iq"
    BY DEF HandleIQ, PingTaking
  <1>u. UNCHANGED <<streamVars, autoVars, histVars>> BY DEF HandleIQ, PingRest
  <1>h. IF p \in tracked
        THEN /\ tracked' = tracked \ {p} /\ armed' = armed \ {p}
             /\ moduleQueue' = Append(moduleQueue, About("pong", p))
        ELSE UNCHANGED <<tracked, armed, moduleQueue>>
    BY DEF HandleIQ, Untracks, PingTells, trackVars
  <1> HIDE DEF p
  <1> USE DEF streamVars, autoVars, histVars
  <1>t. pingQueue' \in Seq(PingBlocks) BY <1>q, PingTakes
  <1>o. \A o \in old : o \in tracked' => Waits(pingQueue', {"didDisconnect"})
    <2> SUFFICES ASSUME NEW o \in old, o \in tracked' PROVE Waits(pingQueue', {"didDisconnect"})
      OBVIOUS
    <2>1. Waits(pingQueue, {"didDisconnect"}) BY <1>h DEF Inv, OldPingsForgotten, StillTracked
    <2> QED BY <2>1, <1>q, PingTakes
  <1>f. Forgotten' BY <1>q, <1>u, <1>o, ForgottenTake
  <1>1. CASE p \in tracked
    <2> DEFINE e == About("pong", p)
    <2>e. e \in ModuleBlocks /\ e.kind = "pong" BY <1>1, BlockKinds DEF Inv, TypeOK
    <2>q. moduleQueue' = Append(moduleQueue, e) BY <1>1, <1>h
    <2> HIDE DEF e
    <2>1. moduleQueue' \in Seq(ModuleBlocks) BY <2>e, <2>q, QueueTypes, AppendFacts
    <2>2. TypeOK' BY <1>1, <1>h, <1>u, <1>t, <2>1 DEF Inv, TypeOK
    <2>3. Awaited' BY <2>e, <2>q, EnderPosted DEF Enders
    <2>4. Monitored' BY <2>e, <2>q, <1>u, MonitoredPost DEF Turning
    <2> QED BY <2>2, <2>3, <2>4, <1>f DEF Inv, Awaited, Monitored, Forgotten
  <1>2. CASE p \notin tracked
    <2>1. TypeOK' BY <1>2, <1>h, <1>u, <1>t DEF Inv, TypeOK
    <2>2. Waits(pingQueue, {"addID"}) => Waits(pingQueue', {"addID"}) BY <1>q, PingTakes
    <2>3. AwaitingEnds' BY <1>2, <1>h, <1>u, <2>2 DEF Inv, AwaitingEnds, Waits
    <2>4. AwaitedBehind' BY <1>2, <1>h, <1>q, <1>u, AwaitedBehindTake
    <2>5. Monitored' BY <1>2, <1>h, <1>u, MonitoredFrame
    <2> QED BY <2>1, <2>3, <2>4, <2>5, <1>f DEF Inv, Monitored, Forgotten
  <1> QED BY <1>1, <1>2

\* A disconnection that forgets the ping that is awaited does not leave it awaited: another
\* ping is behind it, or XMPPAutoPing is going to be told.
LEMMA HandlePingDidDisconnectInv == ASSUME Inv, HandlePingDidDisconnect PROVE Inv'
  <1> USE DEF HandlePingDidDisconnect, PingTaking, PingRest, RemoveAllIDs, streamVars, autoVars,
              histVars
  <1>q. pingQueue # <<>> /\ pingQueue' = Tail(pingQueue)
        /\ Head(pingQueue).kind = "didDisconnect"
    OBVIOUS
  <1>t. pingQueue' \in Seq(PingBlocks) BY <1>q, PingTakes
  <1>1. TypeOK' BY <1>t DEF Inv, TypeOK
  <1>2. AwaitingEnds'
    <2> SUFFICES ASSUME awaitingPingResponse, ~Waits(moduleQueue, Enders)
                 PROVE  Waits(pingQueue', {"addID"})
      BY DEF AwaitingEnds, Enders, Waits
    <2>1. 1 \in 1..Len(pingQueue) /\ pingQueue[1] = Head(pingQueue) BY <1>q, QueueTypes, TailFacts
    <2>2. PingAfter(pingQueue, 1) BY <1>q, <2>1 DEF Inv, AwaitedBehind
    <2>3. PICK j \in 1..Len(pingQueue) : j > 1 /\ pingQueue[j].kind = "addID"
      BY <2>2 DEF PingAfter
    <2>4. j - 1 \in DOMAIN pingQueue' /\ pingQueue'[j - 1] = pingQueue[j]
      BY <1>q, <2>3, QueueTypes, TailFacts
    <2> QED BY <2>3, <2>4 DEF Waits
  <1>3. AwaitedBehind' BY <1>q, AwaitedBehindTake
  <1>4. Monitored' BY MonitoredFrame
  <1>5. Forgotten' BY <1>q, ForgottenTake
  <1> QED BY <1>1, <1>2, <1>3, <1>4, <1>5 DEF Inv, Monitored, Forgotten

LEMMA TrackerFiresInv == ASSUME Inv, NEW p \in Pings, TrackerFires(p) PROVE Inv'
  <1> DEFINE e == About("timeout", p)
  <1> USE DEF TrackerFires, PingTells, PingRest, streamVars, autoVars, histVars
  <1>e. e \in ModuleBlocks /\ e.kind = "timeout" BY BlockKinds
  <1>q. moduleQueue' = Append(moduleQueue, e) OBVIOUS
  <1> HIDE DEF e
  <1>1. TypeOK' BY <1>e, <1>q, QueueTypes, AppendFacts DEF Inv, TypeOK
  <1>2. Awaited' BY <1>e, <1>q, EnderPosted DEF Enders
  <1>3. Monitored' BY <1>e, <1>q, MonitoredPost DEF Turning
  <1>4. Forgotten' BY ForgottenFrame
  <1> QED BY <1>1, <1>2, <1>3, <1>4 DEF Inv, Awaited, Monitored, Forgotten

-----------------------------------------------------------------------------
(* What is said of one ping.  q is the queue of XMPPAutoPing and v what it was *)
(* told of the ping p.                                                         *)

Stories == {<<>>, <<"pong">>, <<"timeout">>, <<"timeout", "pong">>}

HeardOf(q, v, p) ==
    /\ v \in Stories
    /\ \A i \in 1..Len(q) : q[i] = About("timeout", p) => v = <<>>
    /\ \A i \in 1..Len(q) : q[i] = About("pong", p) => v \in {<<>>, <<"timeout">>}
    /\ \A i, j \in 1..Len(q) : q[i] = About("timeout", p) /\ q[j] = About("pong", p) => i < j
    /\ \A i, j \in 1..Len(q) : q[i].id = p /\ q[j] = q[i] => i = j

Mute(q, v, p)   == v = <<>> /\ \A i \in 1..Len(q) : q[i].id # p
NoPong(q, v, p) == v \in {<<>>, <<"timeout">>} /\ \A i \in 1..Len(q) : q[i] # About("pong", p)

AddWaits(q, p) == \E i \in 1..Len(q) : q[i] = About("addID", p)
OneAdd(q, p)   ==
    \A i, j \in 1..Len(q) : q[i] = About("addID", p) /\ q[j] = About("addID", p) => i = j

\* Nothing is said of a ping while its timer runs or is to be started, and no pong while it is
\* tracked.
HeardIn(q, pings, v, p) ==
    /\ HeardOf(q, v, p)
    /\ p \in armed \/ AddWaits(pings, p) => Mute(q, v, p)
    /\ p \in tracked => NoPong(q, v, p) /\ ~AddWaits(pings, p)
    /\ OneAdd(pings, p)

Heard == \A p \in Pings : HeardIn(moduleQueue, pingQueue, verdicts[p], p)

LEMMA AboutFacts ==
    ASSUME NEW k, NEW j, NEW p, NEW r
    PROVE  /\ About(k, p).id = p /\ About(k, p).kind = k
           /\ About(k, p) = About(j, r) => k = j /\ p = r
  BY DEF About

LEMMA HeardAppend ==
    ASSUME NEW q \in Seq(ModuleBlocks), NEW e \in ModuleBlocks, NEW p, NEW v, e.id # p
    PROVE  /\ HeardOf(q, v, p) => HeardOf(Append(q, e), v, p)
           /\ Mute(q, v, p) => Mute(Append(q, e), v, p)
           /\ NoPong(q, v, p) => NoPong(Append(q, e), v, p)
  <1>1. \A i \in 1..Len(Append(q, e)) : Append(q, e)[i].id = p
            => i \in 1..Len(q) /\ Append(q, e)[i] = q[i]
    BY AppendFacts
  <1>2. About("pong", p).id = p /\ About("timeout", p).id = p BY AboutFacts
  <1>3. HeardOf(q, v, p) => HeardOf(Append(q, e), v, p) BY <1>1, <1>2 DEF HeardOf
  <1>4. Mute(q, v, p) => Mute(Append(q, e), v, p) BY <1>1 DEF Mute
  <1>5. NoPong(q, v, p) => NoPong(Append(q, e), v, p) BY <1>1, <1>2 DEF NoPong
  <1> QED BY <1>3, <1>4, <1>5

LEMMA HeardTail ==
    ASSUME NEW q \in Seq(ModuleBlocks), q # <<>>, NEW p, NEW v
    PROVE  /\ HeardOf(q, v, p) => HeardOf(Tail(q), v, p)
           /\ Mute(q, v, p) => Mute(Tail(q), v, p)
           /\ NoPong(q, v, p) => NoPong(Tail(q), v, p)
  <1>1. /\ \A i \in 1..Len(Tail(q)) : i + 1 \in 1..Len(q) /\ Tail(q)[i] = q[i + 1]
        /\ \A i, j \in 1..Len(Tail(q)) : (i < j <=> i + 1 < j + 1) /\ (i + 1 = j + 1 => i = j)
    BY TailFacts
  <1>2. HeardOf(q, v, p) => HeardOf(Tail(q), v, p)
    <2> SUFFICES ASSUME HeardOf(q, v, p) PROVE HeardOf(Tail(q), v, p) OBVIOUS
    <2>1. \A i, j \in 1..Len(Tail(q)) :
              Tail(q)[i] = About("timeout", p) /\ Tail(q)[j] = About("pong", p) => i < j
      BY <1>1 DEF HeardOf
    <2>2. \A i, j \in 1..Len(Tail(q)) : Tail(q)[i].id = p /\ Tail(q)[j] = Tail(q)[i] => i = j
      BY <1>1 DEF HeardOf
    <2> QED BY <1>1, <2>1, <2>2 DEF HeardOf
  <1>3. Mute(q, v, p) => Mute(Tail(q), v, p) BY <1>1 DEF Mute
  <1>4. NoPong(q, v, p) => NoPong(Tail(q), v, p) BY <1>1 DEF NoPong
  <1> QED BY <1>2, <1>3, <1>4

\* The timer of a ping of which nothing was said.
LEMMA HeardTimeout ==
    ASSUME NEW q \in Seq(ModuleBlocks), NEW p \in Pings, NEW v, Mute(q, v, p)
    PROVE  /\ HeardOf(Append(q, About("timeout", p)), v, p)
           /\ NoPong(Append(q, About("timeout", p)), v, p)
  <1> DEFINE e == About("timeout", p)
             r == Append(q, e)
  <1>1. e \in ModuleBlocks BY BlockKinds
  <1>2. e # About("pong", p) BY AboutFacts
  <1>3. About("pong", p).id = p BY AboutFacts
  <1>4. e = About("timeout", p) OBVIOUS
  <1> HIDE DEF e
  <1>5. \A i \in 1..Len(r) : r[i].id = p => i = Len(q) + 1 /\ r[i] = e
    BY <1>1, AppendFacts DEF Mute
  <1> HIDE DEF r
  <1>6. \A i \in 1..Len(r) : r[i] # About("pong", p) BY <1>2, <1>3, <1>5
  <1>7. v = <<>> BY DEF Mute
  <1>8. HeardOf(r, v, p) BY <1>5, <1>6, <1>7 DEF HeardOf, Stories
  <1>9. NoPong(r, v, p) BY <1>6, <1>7 DEF NoPong
  <1> QED BY <1>8, <1>9 DEF r, e

\* The pong of a ping that is tracked.
LEMMA HeardPong ==
    ASSUME NEW q \in Seq(ModuleBlocks), NEW p \in Pings, NEW v, HeardOf(q, v, p), NoPong(q, v, p)
    PROVE  HeardOf(Append(q, About("pong", p)), v, p)
  <1> DEFINE e == About("pong", p)
             r == Append(q, e)
  <1>1. e \in ModuleBlocks BY BlockKinds
  <1>2. e # About("timeout", p) BY AboutFacts
  <1>4. e = About("pong", p) OBVIOUS
  <1> HIDE DEF e
  <1>5. /\ \A i \in 1..Len(r) : (i \in 1..Len(q) /\ r[i] = q[i]) \/ (i = Len(q) + 1 /\ r[i] = e)
        /\ Len(q) \in Nat
    BY <1>1, AppendFacts
  <1> HIDE DEF r
  <1>6. \A i \in 1..Len(r) : r[i] = e => i = Len(q) + 1 BY <1>4, <1>5 DEF NoPong
  <1>7. \A i \in 1..Len(r) : r[i] = About("timeout", p) => i \in 1..Len(q) /\ v = <<>>
    BY <1>2, <1>5 DEF HeardOf
  <1>8. \A i, j \in 1..Len(r) : r[i] = About("timeout", p) /\ r[j] = About("pong", p) => i < j
    BY <1>4, <1>5, <1>6, <1>7
  <1>9. \A i, j \in 1..Len(r) : r[i].id = p /\ r[j] = r[i] => i = j
    BY <1>4, <1>5, <1>6 DEF HeardOf, NoPong
  <1> QED BY <1>4, <1>6, <1>7, <1>8, <1>9 DEF HeardOf, NoPong, r, e

\* A sequence of two elements, and the story of a late pong.
LEMMA Pair ==
    ASSUME NEW S, NEW q \in Seq(S), Len(q) = 2 PROVE q = <<q[1], q[2]>>
  OBVIOUS
LEMMA PongAfterTimeout == Append(<<"timeout">>, "pong") = <<"timeout", "pong">>
  <1> DEFINE V == {"pong", "timeout"}
             s == <<"timeout">>
             r == Append(s, "pong")
  <1>1. s \in Seq(V) /\ "pong" \in V /\ Len(s) = 1 /\ s[1] = "timeout" OBVIOUS
  <1> HIDE DEF s, V
  <1>2. /\ r \in Seq(V) /\ Len(r) = Len(s) + 1 /\ r[Len(s) + 1] = "pong"
        /\ \A i \in 1..Len(s) : r[i] = s[i]
    BY SMTT(20), <1>1, AppendFacts
  <1> HIDE DEF r
  <1>3. r \in Seq(V) /\ Len(r) = 2 /\ r[1] = "timeout" /\ r[2] = "pong" BY <1>1, <1>2
  <1>4. r = <<r[1], r[2]>> BY <1>3, Pair
  <1>5. r = <<"timeout", "pong">> BY <1>3, <1>4
  <1> QED BY <1>5 DEF r, s

\* XMPPAutoPing is told.
LEMMA HeardTold ==
    ASSUME NEW q \in Seq(ModuleBlocks), q # <<>>, NEW p \in Pings, NEW v,
           NEW k \in {"pong", "timeout"}, Head(q) = About(k, p), HeardOf(q, v, p)
    PROVE  /\ HeardOf(Tail(q), Append(v, k), p)
           /\ NoPong(q, v, p) => NoPong(Tail(q), Append(v, k), p)
           /\ ~Mute(q, v, p)
  <1>1. /\ 1 \in 1..Len(q) /\ q[1] = About(k, p) /\ Len(Tail(q)) \in Nat
        /\ \A i \in 1..Len(Tail(q)) : /\ i + 1 \in 1..Len(q) /\ Tail(q)[i] = q[i + 1]
                                      /\ i + 1 # 1 /\ ~(i + 1 < 1)
    BY TailFacts
  <1>2. About(k, p).id = p BY AboutFacts
  <1>3. ~Mute(q, v, p) BY <1>1, <1>2 DEF Mute
  <1>4. \A i \in 1..Len(Tail(q)) : Tail(q)[i] # About(k, p) BY <1>1, <1>2 DEF HeardOf
  <1>5. /\ \A i, j \in 1..Len(Tail(q)) :
              Tail(q)[i] = About("timeout", p) /\ Tail(q)[j] = About("pong", p) => i < j
        /\ \A i, j \in 1..Len(Tail(q)) : Tail(q)[i].id = p /\ Tail(q)[j] = Tail(q)[i] => i = j
    BY HeardTail DEF HeardOf
  <1>6. CASE k = "timeout"
    <2>1. v = <<>> BY <1>1, <1>6 DEF HeardOf
    <2>2. Append(v, k) = <<"timeout">> BY <1>6, <2>1
    <2>3. HeardOf(Tail(q), Append(v, k), p) BY <1>4, <1>5, <1>6, <2>2 DEF HeardOf, Stories
    <2>4. NoPong(q, v, p) => NoPong(Tail(q), Append(v, k), p) BY <1>1, <2>2 DEF NoPong
    <2> QED BY <1>3, <2>3, <2>4
  <1>7. CASE k = "pong"
    <2>1. v \in {<<>>, <<"timeout">>} BY <1>1, <1>7 DEF HeardOf
    <2>2. Append(v, k) \in {<<"pong">>, <<"timeout", "pong">>}
      <3>1. Append(<<>>, "pong") = <<"pong">> OBVIOUS
      <3> QED BY <1>7, <2>1, <3>1, PongAfterTimeout
    <2>3. \A i \in 1..Len(Tail(q)) : Tail(q)[i] # About("timeout", p)
      BY <1>1, <1>7 DEF HeardOf
    <2>4. HeardOf(Tail(q), Append(v, k), p)
      BY <1>4, <1>5, <1>7, <2>2, <2>3 DEF HeardOf, Stories
    <2>5. ~NoPong(q, v, p) BY <1>1, <1>7 DEF NoPong
    <2> QED BY <1>3, <2>4, <2>5
  <1> QED BY <1>6, <1>7

\* The tracking of a ping on the queue of XMPPPing.
LEMMA AddsAppend ==
    ASSUME NEW q \in Seq(PingBlocks), NEW e \in PingBlocks, NEW p
    PROVE  /\ e # About("addID", p) => (AddWaits(Append(q, e), p) <=> AddWaits(q, p))
           /\ OneAdd(q, p) /\ (e # About("addID", p) \/ ~AddWaits(q, p)) => OneAdd(Append(q, e), p)
  <1>1. AddWaits(q, p) => AddWaits(Append(q, e), p) BY AppendFacts DEF AddWaits
  <1>2. \A i \in 1..Len(Append(q, e)) :
            \/ i \in 1..Len(q) /\ Append(q, e)[i] = q[i]
            \/ i = Len(q) + 1 /\ Append(q, e)[i] = e
    BY AppendFacts
  <1>3. e # About("addID", p) /\ AddWaits(Append(q, e), p) => AddWaits(q, p)
    BY <1>2 DEF AddWaits
  <1>4. OneAdd(q, p) /\ (e # About("addID", p) \/ ~AddWaits(q, p)) => OneAdd(Append(q, e), p)
    BY <1>2 DEF OneAdd, AddWaits
  <1> QED BY <1>1, <1>3, <1>4

LEMMA AddsTail ==
    ASSUME NEW q \in Seq(PingBlocks), q # <<>>, NEW p, OneAdd(q, p)
    PROVE  /\ OneAdd(Tail(q), p)
           /\ AddWaits(Tail(q), p) => AddWaits(q, p)
           /\ Head(q) = About("addID", p) => AddWaits(q, p) /\ ~AddWaits(Tail(q), p)
  <1>1. /\ \A i \in 1..Len(Tail(q)) : i + 1 \in 1..Len(q) /\ Tail(q)[i] = q[i + 1] /\ i + 1 # 1
        /\ \A i, j \in 1..Len(Tail(q)) : i + 1 = j + 1 => i = j
        /\ 1 \in 1..Len(q) /\ q[1] = Head(q)
    BY TailFacts
  <1>2. OneAdd(Tail(q), p) BY <1>1 DEF OneAdd
  <1>3. AddWaits(Tail(q), p) => AddWaits(q, p) BY <1>1 DEF AddWaits
  <1>4. Head(q) = About("addID", p) => AddWaits(q, p) /\ ~AddWaits(Tail(q), p)
    BY <1>1 DEF OneAdd, AddWaits
  <1> QED BY <1>2, <1>3, <1>4

\* Steps that say nothing of a ping.
LEMMA HeardQuiet ==
    ASSUME Inv, Heard, UNCHANGED <<verdicts, tracked, armed>>,
           NEW e, NEW f,
           \/ moduleQueue' = moduleQueue
           \/ moduleQueue' = Append(moduleQueue, e) /\ e \in ModuleBlocks /\ e.id \notin Pings
           \/ moduleQueue # <<>> /\ moduleQueue' = Tail(moduleQueue),
           \/ pingQueue' = pingQueue
           \/ pingQueue' = Append(pingQueue, f) /\ f \in PingBlocks /\ f.kind # "addID"
    PROVE  Heard'
  <1> SUFFICES ASSUME NEW p \in Pings
               PROVE  HeardIn(moduleQueue, pingQueue, verdicts[p], p)'
    BY DEF Heard
  <1>1. HeardIn(moduleQueue, pingQueue, verdicts[p], p) BY DEF Heard
  <1>2. /\ HeardOf(moduleQueue, verdicts[p], p) => HeardOf(moduleQueue', verdicts[p], p)
        /\ Mute(moduleQueue, verdicts[p], p) => Mute(moduleQueue', verdicts[p], p)
        /\ NoPong(moduleQueue, verdicts[p], p) => NoPong(moduleQueue', verdicts[p], p)
    <2>1. CASE moduleQueue' = Append(moduleQueue, e) /\ e \in ModuleBlocks /\ e.id \notin Pings
      <3>1. e.id # p BY <2>1
      <3> QED BY <2>1, <3>1, QueueTypes, HeardAppend
    <2>2. CASE moduleQueue # <<>> /\ moduleQueue' = Tail(moduleQueue)
      BY <2>2, QueueTypes, HeardTail
    <2>3. CASE moduleQueue' = moduleQueue BY <2>3
    <2> QED BY <2>1, <2>2, <2>3
  <1>3. /\ AddWaits(pingQueue', p) <=> AddWaits(pingQueue, p)
        /\ OneAdd(pingQueue, p) => OneAdd(pingQueue', p)
    <2>1. CASE pingQueue' = Append(pingQueue, f) /\ f \in PingBlocks /\ f.kind # "addID"
      <3>1. f # About("addID", p) BY <2>1, AboutFacts
      <3> QED BY <2>1, <3>1, QueueTypes, AddsAppend
    <2>2. CASE pingQueue' = pingQueue BY <2>2
    <2> QED BY <2>1, <2>2
  <1> QED BY <1>1, <1>2, <1>3 DEF HeardIn

LEMMA EventNames == \A k : Event(k).id = "none" /\ "none" \notin Pings /\ Event(k).kind = k
  BY PingsAssumption DEF Event, PingsAssumption

LEMMA HeardStream == ASSUME Inv, Heard, Stream PROVE Heard'
  <1>1. CASE DidAuthenticate \/ DidDisconnect \/ ReceiveOther
    <2>1. PICK k \in {"didAuthenticate", "didDisconnect", "received"} :
              moduleQueue' = Append(moduleQueue, Event(k))
      BY <1>1 DEF DidAuthenticate, DidDisconnect, ReceiveOther
    <2>2. UNCHANGED <<verdicts, tracked, armed>>
          /\ (pingQueue' = pingQueue \/ pingQueue' = Append(pingQueue, Event("didDisconnect")))
      BY <1>1 DEF DidAuthenticate, DidDisconnect, ReceiveOther, trackVars, histVars
    <2>3. Event(k) \in ModuleBlocks /\ Event("didDisconnect") \in PingBlocks BY BlockKinds
    <2> QED BY <2>1, <2>2, <2>3, EventNames, HeardQuiet
  <1>2. CASE WritePing
    BY <1>2, HeardQuiet DEF WritePing, trackVars, histVars
  <1>3. CASE ReceivePong
    <2>1. PICK p \in wire : /\ moduleQueue' = Append(moduleQueue, Event("received"))
                            /\ pingQueue' = Append(pingQueue, About("iq", p))
                            /\ UNCHANGED <<verdicts, tracked, armed>>
      BY <1>3 DEF ReceivePong, trackVars, histVars
    <2>2. p \in Pings BY DEF Inv, TypeOK
    <2>3. /\ Event("received") \in ModuleBlocks /\ About("iq", p) \in PingBlocks
          /\ About("iq", p).kind # "addID"
      BY <2>2, BlockKinds
    <2> QED BY <2>1, <2>3, EventNames, HeardQuiet
  <1> QED BY <1>1, <1>2, <1>3 DEF Stream

LEMMA HeardAutoPing == ASSUME Inv, Heard, AutoPingBlock PROVE Heard'
  <1>1. CASE HandleDidAuthenticate \/ HandleReceived \/ HandleDidDisconnect
    BY <1>1, HeardQuiet
    DEF HandleDidAuthenticate, HandleReceived, HandleDidDisconnect, Taking, Rest, trackVars
  <1>2. ASSUME NEW k \in {"pong", "timeout"}, HandleVerdict(k) PROVE Heard'
    <2> DEFINE r == Head(moduleQueue).id
    <2>1. /\ moduleQueue # <<>> /\ Head(moduleQueue).kind = k /\ moduleQueue' = Tail(moduleQueue)
          /\ verdicts' = [verdicts EXCEPT ![r] = Append(@, k)]
          /\ UNCHANGED <<pingQueue, tracked, armed>>
      BY <1>2 DEF HandleVerdict, Taking, Rest, trackVars
    <2>2. r \in Pings /\ Head(moduleQueue) = About(k, r)
      <3>1. Head(moduleQueue) \in ModuleBlocks BY <2>1, QueueTypes, TailFacts
      <3>2. Head(moduleQueue) \notin {Event(j) : j \in {"didAuthenticate", "didDisconnect", "received"}}
        BY <2>1, EventNames
      <3>3. Head(moduleQueue) \in [kind : {"pong", "timeout"}, id : Pings]
        BY <3>1, <3>2 DEF ModuleBlocks
      <3> QED BY <2>1, <3>3 DEF About
    <2>3. /\ verdicts'[r] = Append(verdicts[r], k)
          /\ \A p \in Pings : p # r => verdicts'[p] = verdicts[p]
      BY <2>1, <2>2 DEF Inv, TypeOK
    <2> HIDE DEF r
    <2> SUFFICES ASSUME NEW p \in Pings
                 PROVE  HeardIn(moduleQueue, pingQueue, verdicts[p], p)'
      BY DEF Heard
    <2>4. HeardIn(moduleQueue, pingQueue, verdicts[p], p) BY DEF Heard
    <2>5. CASE p # r
      BY <2>1, <2>3, <2>4, <2>5, QueueTypes, HeardTail DEF HeardIn
    <2>6. CASE p = r
      <3>1. /\ HeardOf(moduleQueue', verdicts'[p], p) /\ ~Mute(moduleQueue, verdicts[p], p)
            /\ NoPong(moduleQueue, verdicts[p], p) => NoPong(moduleQueue', verdicts'[p], p)
        BY <2>1, <2>2, <2>3, <2>4, <2>6, QueueTypes, HeardTold DEF HeardIn
      <3> QED BY <2>1, <2>4, <3>1 DEF HeardIn
    <2> QED BY <2>5, <2>6
  <1> QED BY <1>1, <1>2 DEF AutoPingBlock

\* A ping that nothing mentions is sent.
LEMMA HeardFire == ASSUME Inv, Heard, HandlePingIntervalTimerFire PROVE Heard'
  <1>1. PICK r \in Fresh : /\ pingQueue' = Append(pingQueue, About("addID", r))
                           /\ verdicts' = [verdicts EXCEPT ![r] = <<>>]
    BY DEF HandlePingIntervalTimerFire
  <1>2. UNCHANGED <<moduleQueue, tracked, armed>>
    BY DEF HandlePingIntervalTimerFire, trackVars
  <1>3. /\ r \in Pings /\ r \notin tracked
        /\ \A i \in 1..Len(moduleQueue) : moduleQueue[i].id # r
        /\ ~AddWaits(pingQueue, r)
    <2>1. r \in Pings /\ r \notin tracked /\ r \notin Ids(moduleQueue) /\ r \notin Ids(pingQueue)
      BY DEF Fresh, Known
    <2>2. DOMAIN moduleQueue = 1..Len(moduleQueue) /\ DOMAIN pingQueue = 1..Len(pingQueue)
      BY QueueTypes
    <2>3. \A i \in 1..Len(moduleQueue) : moduleQueue[i].id # r BY <2>1, <2>2 DEF Ids
    <2>4. ~AddWaits(pingQueue, r) BY <2>1, <2>2, AboutFacts DEF Ids, AddWaits
    <2> QED BY <2>1, <2>3, <2>4
  <1>4. /\ verdicts'[r] = <<>>
        /\ \A p \in Pings : p # r => verdicts'[p] = verdicts[p]
    BY <1>1, <1>3 DEF Inv, TypeOK
  <1>5. About("addID", r) \in PingBlocks BY <1>3, BlockKinds
  <1> SUFFICES ASSUME NEW p \in Pings
               PROVE  HeardIn(moduleQueue, pingQueue, verdicts[p], p)'
    BY DEF Heard
  <1>6. HeardIn(moduleQueue, pingQueue, verdicts[p], p) BY DEF Heard
  <1>7. CASE p # r
    <2>1. About("addID", r) # About("addID", p) BY <1>7, AboutFacts
    <2>2. /\ AddWaits(pingQueue', p) <=> AddWaits(pingQueue, p)
          /\ OneAdd(pingQueue, p) => OneAdd(pingQueue', p)
      BY <1>1, <1>5, <2>1, QueueTypes, AddsAppend
    <2> QED BY <1>2, <1>4, <1>6, <1>7, <2>2 DEF HeardIn
  <1>8. CASE p = r
    <2>1. OneAdd(pingQueue', p) BY <1>1, <1>3, <1>5, <1>6, <1>8, QueueTypes, AddsAppend DEF HeardIn
    <2>2. Mute(moduleQueue', verdicts'[p], p) BY <1>2, <1>3, <1>4, <1>8 DEF Mute
    <2>3. HeardOf(moduleQueue', verdicts'[p], p)
      BY <1>2, <1>3, <1>4, <1>8, AboutFacts DEF HeardOf, Stories
    <2> QED BY <1>2, <1>3, <1>8, <2>1, <2>2, <2>3 DEF HeardIn
  <1> QED BY <1>7, <1>8

LEMMA HeardPing == ASSUME Inv, Heard, PingBlock PROVE Heard'
  <1>1. /\ pingQueue # <<>> /\ pingQueue' = Tail(pingQueue) /\ verdicts' = verdicts
    BY DEF PingBlock, HandleAddID, HandleIQ, HandlePingDidDisconnect, PingTaking, PingRest, histVars
  <1>2. Head(pingQueue) \in PingBlocks BY <1>1, QueueTypes, TailFacts
  <1> SUFFICES ASSUME NEW p \in Pings
               PROVE  HeardIn(moduleQueue, pingQueue, verdicts[p], p)'
    BY DEF Heard
  <1>3. HeardIn(moduleQueue, pingQueue, verdicts[p], p) BY DEF Heard
  <1>4. /\ OneAdd(pingQueue', p)
        /\ AddWaits(pingQueue', p) => AddWaits(pingQueue, p)
        /\ Head(pingQueue) = About("addID", p) => AddWaits(pingQueue, p) /\ ~AddWaits(pingQueue', p)
    BY <1>1, <1>3, QueueTypes, AddsTail DEF HeardIn
  <1>5. CASE HandlePingDidDisconnect
    <2>1. moduleQueue' = moduleQueue /\ tracked' = {} /\ armed' = {}
      BY <1>5 DEF HandlePingDidDisconnect, RemoveAllIDs
    <2> QED BY <1>1, <1>3, <1>4, <2>1 DEF HeardIn
  <1>6. CASE HandleAddID
    <2> DEFINE r == Head(pingQueue).id
    <2>1. /\ moduleQueue' = moduleQueue /\ Head(pingQueue).kind = "addID"
          /\ tracked' = tracked \cup {r}
          /\ armed' = IF TimesOut THEN armed \cup {r} ELSE armed
      BY <1>6 DEF HandleAddID, PingTaking
    <2>2. Head(pingQueue) = About("addID", r)
      <3>1. Head(pingQueue) # Event("didDisconnect") BY <2>1, EventNames
      <3>2. Head(pingQueue) \in [kind : {"addID", "iq"}, id : Pings]
        BY <1>2, <3>1 DEF PingBlocks
      <3> QED BY <2>1, <3>2 DEF About
    <2> HIDE DEF r
    <2>3. CASE p # r BY <1>1, <1>3, <1>4, <2>1, <2>3 DEF HeardIn
    <2>4. CASE p = r
      <3>1. Mute(moduleQueue, verdicts[p], p) BY <1>3, <1>4, <2>2, <2>4 DEF HeardIn
      <3>2. NoPong(moduleQueue, verdicts[p], p) BY <3>1, AboutFacts DEF Mute, NoPong
      <3>3. ~AddWaits(pingQueue', p) BY <1>4, <2>2, <2>4
      <3> QED BY <1>1, <1>3, <1>4, <2>1, <3>1, <3>2, <3>3 DEF HeardIn
    <2> QED BY <2>3, <2>4
  <1>7. CASE HandleIQ
    <2> DEFINE r == Head(pingQueue).id
    <2>1. CASE r \in tracked
      <3>1. /\ tracked' = tracked \ {r} /\ armed' = armed \ {r}
            /\ moduleQueue' = Append(moduleQueue, About("pong", r))
        BY <1>7, <2>1 DEF HandleIQ, Untracks, PingTells
      <3>2. r \in Pings /\ About("pong", r) \in ModuleBlocks
        <4>1. r \in Pings BY <2>1 DEF Inv, TypeOK
        <4> QED BY <4>1, BlockKinds
      <3> HIDE DEF r
      <3>3. CASE p # r
        <4>1. About("pong", r).id # p BY <3>3, AboutFacts
        <4>2. /\ HeardOf(moduleQueue, verdicts[p], p) => HeardOf(moduleQueue', verdicts[p], p)
              /\ Mute(moduleQueue, verdicts[p], p) => Mute(moduleQueue', verdicts[p], p)
              /\ NoPong(moduleQueue, verdicts[p], p) => NoPong(moduleQueue', verdicts[p], p)
          BY <3>1, <3>2, <4>1, QueueTypes, HeardAppend
        <4> QED BY <1>1, <1>3, <1>4, <3>1, <3>3, <4>2 DEF HeardIn
      <3>4. CASE p = r
        <4>1. NoPong(moduleQueue, verdicts[p], p) /\ ~AddWaits(pingQueue, p)
          BY <1>3, <2>1, <3>4 DEF HeardIn, r
        <4>2. HeardOf(moduleQueue', verdicts[p], p)
          BY <1>3, <3>1, <3>4, <4>1, QueueTypes, HeardPong DEF HeardIn
        <4> QED BY <1>1, <1>3, <1>4, <3>1, <3>4, <4>1, <4>2 DEF HeardIn
      <3> QED BY <3>3, <3>4
    <2>2. CASE r \notin tracked
      <3>1. UNCHANGED <<tracked, armed, moduleQueue>>
        BY <1>7, <2>2 DEF HandleIQ, trackVars
      <3> QED BY <1>1, <1>3, <1>4, <3>1 DEF HeardIn
    <2> QED BY <2>1, <2>2
  <1> QED BY <1>5, <1>6, <1>7 DEF PingBlock

LEMMA HeardTracker == ASSUME Inv, Heard, NEW r \in Pings, TrackerFires(r) PROVE Heard'
  <1>1. /\ r \in armed /\ armed' = armed \ {r} /\ UNCHANGED <<tracked, pingQueue, verdicts>>
        /\ moduleQueue' = Append(moduleQueue, About("timeout", r))
    BY DEF TrackerFires, PingTells, PingRest, histVars
  <1>2. About("timeout", r) \in ModuleBlocks BY BlockKinds
  <1> SUFFICES ASSUME NEW p \in Pings
               PROVE  HeardIn(moduleQueue, pingQueue, verdicts[p], p)'
    BY DEF Heard
  <1>3. HeardIn(moduleQueue, pingQueue, verdicts[p], p) BY DEF Heard
  <1>4. CASE p # r
    <2>1. About("timeout", r).id # p BY <1>4, AboutFacts
    <2>2. /\ HeardOf(moduleQueue, verdicts[p], p) => HeardOf(moduleQueue', verdicts[p], p)
          /\ Mute(moduleQueue, verdicts[p], p) => Mute(moduleQueue', verdicts[p], p)
          /\ NoPong(moduleQueue, verdicts[p], p) => NoPong(moduleQueue', verdicts[p], p)
      BY <1>1, <1>2, <2>1, QueueTypes, HeardAppend
    <2> QED BY <1>1, <1>3, <1>4, <2>2 DEF HeardIn
  <1>5. CASE p = r
    <2>1. Mute(moduleQueue, verdicts[p], p) BY <1>1, <1>3, <1>5 DEF HeardIn
    <2>2. p \in tracked /\ ~AddWaits(pingQueue, p)
      BY <1>1, <1>3, <1>5 DEF HeardIn, Inv, TypeOK
    <2>3. HeardOf(moduleQueue', verdicts[p], p) /\ NoPong(moduleQueue', verdicts[p], p)
      BY <1>1, <1>5, <2>1, QueueTypes, HeardTimeout
    <2> QED BY <1>1, <1>3, <1>5, <2>2, <2>3 DEF HeardIn
  <1> QED BY <1>4, <1>5

LEMMA HeardNext == ASSUME Inv, Heard, [Next]_vars PROVE Heard'
  <1>1. CASE Elapses \/ \E positive \in BOOLEAN : SetPingInterval(positive)
    BY <1>1, HeardQuiet DEF Elapses, SetPingInterval, Rest, trackVars
  <1>2. CASE UNCHANGED vars
    BY <1>2, HeardQuiet DEF vars, trackVars, histVars
  <1> QED
    BY <1>1, <1>2, HeardStream, HeardAutoPing, HeardFire, HeardPing, HeardTracker DEF Next

LEMMA HeardInit == ASSUME Init PROVE Heard
  <1>1. /\ moduleQueue = <<>> /\ pingQueue = <<>> /\ tracked = {} /\ armed = {}
        /\ \A p \in Pings : verdicts[p] = <<>>
    BY DEF Init
  <1>2. 1..Len(moduleQueue) = {} /\ 1..Len(pingQueue) = {} BY <1>1
  <1> QED BY <1>1, <1>2 DEF Heard, HeardIn, HeardOf, Mute, NoPong, AddWaits, OneAdd, Stories

-----------------------------------------------------------------------------
(* The theorems.                                                               *)

LEMMA InitInv == ASSUME Init PROVE Inv
  <1>e. /\ <<>> \in Seq(ModuleBlocks) /\ <<>> \in Seq(PingBlocks) /\ <<>> \in Seq(Pings)
        /\ <<>> \in Seq({"pong", "timeout"}) /\ Len(<<>>) = 0 /\ DOMAIN <<>> = {}
    OBVIOUS
  <1>1. TypeOK BY <1>e DEF Init, TypeOK
  <1>2. Awaited BY DEF Init, Awaited, AwaitingEnds, AwaitedBehind
  <1>3. Monitored BY <1>e DEF Init, Monitored, MonitorsWhileUp, LastTurn, LastTurnIs, TimerEnabled
  <1>4. Forgotten BY DEF Init, Forgotten, OldPingsForgotten, OldOrdered
  <1> QED BY <1>1, <1>2, <1>3, <1>4 DEF Inv, Awaited, Monitored, Forgotten

LEMMA NextInv == ASSUME Inv, [Next]_vars PROVE Inv'
  <1>1. CASE Stream
    BY <1>1, DidAuthenticateInv, DidDisconnectInv, WritePingInv, ReceivePongInv, ReceiveOtherInv
    DEF Stream
  <1>2. CASE AutoPingBlock
    BY <1>2, HandleDidAuthenticateInv, HandleReceivedInv, HandleDidDisconnectInv, HandleVerdictInv
    DEF AutoPingBlock
  <1>3. CASE PingBlock
    BY <1>3, HandleAddIDInv, HandleIQInv, HandlePingDidDisconnectInv DEF PingBlock
  <1>4. CASE HandlePingIntervalTimerFire BY <1>4, TimerFireInv
  <1>5. CASE Elapses BY <1>5, ElapsesInv
  <1>6. CASE \E positive \in BOOLEAN : SetPingInterval(positive) BY <1>6, SetPingIntervalInv
  <1>7. CASE \E p \in Pings : TrackerFires(p) BY <1>7, TrackerFiresInv
  <1>8. CASE UNCHANGED vars
    <2>1. UNCHANGED <<authenticated, outbox, wire, moduleQueue, pingInterval, pingIntervalTimer,
                      lastReceiveTime, awaitingPingResponse, pingQueue, tracked, armed, verdicts,
                      old>>
      BY <1>8 DEF vars, streamVars, autoVars, trackVars, histVars
    <2>2. TypeOK' BY <2>1 DEF Inv, TypeOK
    <2>3. Awaited' /\ Monitored' /\ Forgotten'
      BY <2>1, AwaitedFrame, MonitoredFrame, ForgottenFrame
    <2> QED BY <2>2, <2>3 DEF Inv, Awaited, Monitored, Forgotten
  <1> QED BY <1>1, <1>2, <1>3, <1>4, <1>5, <1>6, <1>7, <1>8 DEF Next

LEMMA InvIsInvariant == Spec => []Inv
  <1>1. Init => Inv BY InitInv
  <1>2. Inv /\ [Next]_vars => Inv' BY NextInv
  <1> QED BY <1>1, <1>2, PTL DEF Spec

\* Every variable stays in its domain, and only pings in the dictionary have a timer.
THEOREM TypeCorrect == Spec => []TypeOK
  <1>1. Inv => TypeOK BY DEF Inv
  <1> QED BY <1>1, InvIsInvariant, PTL

\* XMPPAutoPing is never left awaiting a ping that XMPPPing has forgotten: between
\* didDisconnect on the one queue and on the other no order of the blocks loses the end.
THEOREM WaitingEnds == Spec => []AwaitingEnds
  <1>1. Inv => AwaitingEnds BY DEF Inv
  <1> QED BY <1>1, InvIsInvariant, PTL

\* The interval timer runs exactly while the stream is authenticated and pinging is enabled,
\* but for callbacks on the way; setPingInterval:, which reads the state of the stream at
\* once, cannot get out of step with them.
THEOREM MonitoringCorrect == Spec => []MonitorsWhileUp
  <1>1. Inv => MonitorsWhileUp BY DEF Inv
  <1> QED BY <1>1, InvIsInvariant, PTL

\* xmppStreamDidDisconnect: of XMPPPing forgets every ping sent before the disconnection.
THEOREM OldForgotten == Spec => []OldPingsForgotten
  <1>1. Inv => OldPingsForgotten BY DEF Inv
  <1> QED BY <1>1, InvIsInvariant, PTL

\* invokeForID:withObject: cancels the timer of a ping that is answered: no timeout is reported
\* after the pong, whatever waits between the two queues.
THEOREM PongsFinal == Spec => []PongIsFinal
  <1>1. Init => Inv /\ Heard BY InitInv, HeardInit
  <1>2. (Inv /\ Heard) /\ [Next]_vars => (Inv /\ Heard)' BY NextInv, HeardNext
  <1>3. Heard => PongIsFinal BY DEF Heard, HeardIn, HeardOf, Stories, PongIsFinal
  <1> QED BY <1>1, <1>2, <1>3, PTL DEF Spec

=============================================================================
