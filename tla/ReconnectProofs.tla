--------------------------- MODULE ReconnectProofs ---------------------------
(* Proofs about Reconnect, for every bound and every configuration.            *)
(*                                                                             *)
(* What the module does with a callback is right only because of what is       *)
(* before and behind it on the moduleQueue.  The inductive invariant Inv adds  *)
(* this order to the properties: before the stream is up again after a         *)
(* didDisconnect, a didConnect follows it on the queue; and a conflict waits   *)
(* behind the didConnect of its own connection.                                *)
EXTENDS Reconnect, TLAPS

Is(queue, i, kind) == queue[i].kind = kind

\* A didConnect waits behind every didDisconnect.
ReopenedIn(queue) ==
    \A i \in 1..Len(queue) : Is(queue, i, "didDisconnect")
        => \E j \in 1..Len(queue) : j > i /\ Is(queue, j, "didConnect")

\* A didConnect waits between a didDisconnect and a conflict.
BetweenIn(queue) ==
    \A i, k \in 1..Len(queue) : i < k /\ Is(queue, i, "didDisconnect") /\ Is(queue, k, "conflict")
        => \E j \in 1..Len(queue) : i < j /\ j < k /\ Is(queue, j, "didConnect")

\* A didConnect waits before every conflict.
BeforeIn(queue) ==
    \A k \in 1..Len(queue) : Is(queue, k, "conflict")
        => \E j \in 1..Len(queue) : j < k /\ Is(queue, j, "didConnect")

ReopeningQueued == stream \in Up => ReopenedIn(moduleQueue)
ConflictQueued  == BetweenIn(moduleQueue)
ConflictBehind  == process /\ ~manuallyStarted => BeforeIn(moduleQueue)
ProcessFlag     == process => manuallyStarted \/ shouldReconnect
HaltedUnwanted  == halted => ~manuallyStarted /\ ~shouldReconnect

QueueOrder == ReopeningQueued /\ ConflictQueued /\ ConflictBehind
Flagged    == ProcessFlag /\ HaltedUnwanted

Inv ==
    /\ TypeOK /\ QuietWhenUp /\ ProcessIsEquipped /\ MonitorsForProcess
    /\ QueueOrder /\ Flagged

-----------------------------------------------------------------------------
(* Queues of blocks.                                                           *)

\* Posting a block keeps the queue a queue, the blocks before it, and puts it last.
LEMMA AppendFacts ==
    ASSUME NEW q \in Seq(BlockSet), NEW e \in BlockSet
    PROVE  /\ Append(q, e) \in Seq(BlockSet)
           /\ Len(Append(q, e)) = Len(q) + 1
           /\ \A i \in 1..Len(q) : Append(q, e)[i] = q[i]
           /\ Append(q, e)[Len(q) + 1] = e
  OBVIOUS

LEMMA TailFacts ==
    ASSUME NEW q \in Seq(BlockSet), q # <<>>
    PROVE  /\ Tail(q) \in Seq(BlockSet)
           /\ Len(q) \in Nat /\ Len(q) > 0 /\ Len(Tail(q)) = Len(q) - 1
           /\ \A i \in 1..Len(Tail(q)) : i + 1 \in 1..Len(q) /\ Tail(q)[i] = q[i + 1]
           /\ Head(q) = q[1] /\ Head(q) \in BlockSet
  OBVIOUS

\* A queue in which no didDisconnect is last stays so when anything else is posted.
LEMMA ReopenedAppend ==
    ASSUME NEW q \in Seq(BlockSet), NEW e \in BlockSet, ReopenedIn(q), e.kind # "didDisconnect"
    PROVE  ReopenedIn(Append(q, e))
  <1> SUFFICES ASSUME NEW i \in 1..Len(Append(q, e)), Is(Append(q, e), i, "didDisconnect")
               PROVE  \E j \in 1..Len(Append(q, e)) : j > i /\ Is(Append(q, e), j, "didConnect")
    BY DEF ReopenedIn
  <1>1. i \in 1..Len(q) BY AppendFacts DEF Is
  <1>2. Is(q, i, "didDisconnect") BY <1>1, AppendFacts DEF Is
  <1>3. PICK j \in 1..Len(q) : j > i /\ Is(q, j, "didConnect") BY <1>1, <1>2 DEF ReopenedIn
  <1> QED BY <1>3, AppendFacts DEF Is

\* Posting didConnect is the reopening of everything before it.
LEMMA ReopenedByConnect ==
    ASSUME NEW q \in Seq(BlockSet), NEW e \in BlockSet, e.kind = "didConnect"
    PROVE  ReopenedIn(Append(q, e))
  <1> SUFFICES ASSUME NEW i \in 1..Len(Append(q, e)), Is(Append(q, e), i, "didDisconnect")
               PROVE  \E j \in 1..Len(Append(q, e)) : j > i /\ Is(Append(q, e), j, "didConnect")
    BY DEF ReopenedIn
  <1>1. i \in 1..Len(q) BY AppendFacts DEF Is
  <1>2. Is(Append(q, e), Len(q) + 1, "didConnect") BY AppendFacts DEF Is
  <1> QED BY <1>1, <1>2, AppendFacts

LEMMA ReopenedTail ==
    ASSUME NEW q \in Seq(BlockSet), q # <<>>, ReopenedIn(q)
    PROVE  ReopenedIn(Tail(q))
  <1> SUFFICES ASSUME NEW i \in 1..Len(Tail(q)), Is(Tail(q), i, "didDisconnect")
               PROVE  \E j \in 1..Len(Tail(q)) : j > i /\ Is(Tail(q), j, "didConnect")
    BY DEF ReopenedIn
  <1>1. i + 1 \in 1..Len(q) /\ Is(q, i + 1, "didDisconnect") BY TailFacts DEF Is
  <1>2. PICK j \in 1..Len(q) : j > i + 1 /\ Is(q, j, "didConnect") BY <1>1 DEF ReopenedIn
  <1>3. j - 1 \in 1..Len(Tail(q)) /\ j - 1 > i BY <1>2, TailFacts
  <1>4. Tail(q)[j - 1] = q[(j - 1) + 1] BY <1>3, TailFacts
  <1>5. Is(Tail(q), j - 1, "didConnect") BY <1>2, <1>4 DEF Is
  <1> QED BY <1>3, <1>5

\* A conflict is posted while the stream is up, when all before it was reopened.
LEMMA BetweenAppend ==
    ASSUME NEW q \in Seq(BlockSet), NEW e \in BlockSet, BetweenIn(q),
           e.kind = "conflict" => ReopenedIn(q)
    PROVE  BetweenIn(Append(q, e))
  <1> SUFFICES ASSUME NEW i \in 1..Len(Append(q, e)), NEW k \in 1..Len(Append(q, e)), i < k,
                      Is(Append(q, e), i, "didDisconnect"), Is(Append(q, e), k, "conflict")
               PROVE  \E j \in 1..Len(Append(q, e)) : i < j /\ j < k /\ Is(Append(q, e), j, "didConnect")
    BY DEF BetweenIn
  <1>1. i \in 1..Len(q) BY AppendFacts
  <1>2. Is(q, i, "didDisconnect") BY <1>1, AppendFacts DEF Is
  <1>3. CASE k = Len(q) + 1
    <2>1. e.kind = "conflict" BY <1>3, AppendFacts DEF Is
    <2>2. PICK j \in 1..Len(q) : j > i /\ Is(q, j, "didConnect") BY <1>1, <1>2, <2>1 DEF ReopenedIn
    <2> QED BY <1>3, <2>2, AppendFacts DEF Is
  <1>4. CASE k # Len(q) + 1
    <2>1. k \in 1..Len(q) BY <1>4, AppendFacts
    <2>2. Is(q, k, "conflict") BY <2>1, AppendFacts DEF Is
    <2>3. PICK j \in 1..Len(q) : i < j /\ j < k /\ Is(q, j, "didConnect")
      BY <1>1, <1>2, <2>1, <2>2 DEF BetweenIn
    <2> QED BY <2>3, AppendFacts DEF Is
  <1> QED BY <1>3, <1>4

LEMMA BetweenTail ==
    ASSUME NEW q \in Seq(BlockSet), q # <<>>, BetweenIn(q)
    PROVE  BetweenIn(Tail(q))
  <1> SUFFICES ASSUME NEW i \in 1..Len(Tail(q)), NEW k \in 1..Len(Tail(q)), i < k,
                      Is(Tail(q), i, "didDisconnect"), Is(Tail(q), k, "conflict")
               PROVE  \E j \in 1..Len(Tail(q)) : i < j /\ j < k /\ Is(Tail(q), j, "didConnect")
    BY DEF BetweenIn
  <1>1. i + 1 \in 1..Len(q) /\ Is(q, i + 1, "didDisconnect") BY TailFacts DEF Is
  <1>2. k + 1 \in 1..Len(q) /\ Is(q, k + 1, "conflict") BY TailFacts DEF Is
  <1>3. PICK j \in 1..Len(q) : i + 1 < j /\ j < k + 1 /\ Is(q, j, "didConnect")
    BY <1>1, <1>2 DEF BetweenIn
  <1>4. j - 1 \in 1..Len(Tail(q)) /\ i < j - 1 /\ j - 1 < k BY <1>3, TailFacts
  <1>5. Tail(q)[j - 1] = q[(j - 1) + 1] BY <1>4, TailFacts
  <1>6. Is(Tail(q), j - 1, "didConnect") BY <1>3, <1>5 DEF Is
  <1> QED BY <1>4, <1>6

LEMMA BeforeAppend ==
    ASSUME NEW q \in Seq(BlockSet), NEW e \in BlockSet, BeforeIn(q),
           e.kind = "conflict" => \E j \in 1..Len(q) : Is(q, j, "didConnect")
    PROVE  BeforeIn(Append(q, e))
  <1> SUFFICES ASSUME NEW k \in 1..Len(Append(q, e)), Is(Append(q, e), k, "conflict")
               PROVE  \E j \in 1..Len(Append(q, e)) : j < k /\ Is(Append(q, e), j, "didConnect")
    BY DEF BeforeIn
  <1>1. CASE k = Len(q) + 1
    <2>1. e.kind = "conflict" BY <1>1, AppendFacts DEF Is
    <2>2. PICK j \in 1..Len(q) : Is(q, j, "didConnect") BY <2>1
    <2> QED BY <1>1, <2>2, AppendFacts DEF Is
  <1>2. CASE k # Len(q) + 1
    <2>1. k \in 1..Len(q) BY <1>2, AppendFacts
    <2>2. Is(q, k, "conflict") BY <2>1, AppendFacts DEF Is
    <2>3. PICK j \in 1..Len(q) : j < k /\ Is(q, j, "didConnect") BY <2>1, <2>2 DEF BeforeIn
    <2> QED BY <2>3, AppendFacts DEF Is
  <1> QED BY <1>1, <1>2

\* Without the didConnect that a conflict waits behind the order is kept; and a
\* didDisconnect that is taken leaves a didConnect before every conflict.
LEMMA BeforeTail ==
    ASSUME NEW q \in Seq(BlockSet), q # <<>>, BeforeIn(q), Head(q).kind # "didConnect"
    PROVE  BeforeIn(Tail(q))
  <1> SUFFICES ASSUME NEW k \in 1..Len(Tail(q)), Is(Tail(q), k, "conflict")
               PROVE  \E j \in 1..Len(Tail(q)) : j < k /\ Is(Tail(q), j, "didConnect")
    BY DEF BeforeIn
  <1>1. k + 1 \in 1..Len(q) /\ Is(q, k + 1, "conflict") BY TailFacts DEF Is
  <1>2. PICK j \in 1..Len(q) : j < k + 1 /\ Is(q, j, "didConnect") BY <1>1 DEF BeforeIn
  <1>3. j # 1 BY <1>2, TailFacts DEF Is
  <1>4. j - 1 \in 1..Len(Tail(q)) /\ j - 1 < k BY <1>2, <1>3, TailFacts
  <1>5. Tail(q)[j - 1] = q[(j - 1) + 1] BY <1>4, TailFacts
  <1>6. Is(Tail(q), j - 1, "didConnect") BY <1>2, <1>5 DEF Is
  <1> QED BY <1>4, <1>6

LEMMA BeforeAfterDisconnect ==
    ASSUME NEW q \in Seq(BlockSet), q # <<>>, BetweenIn(q), Head(q).kind = "didDisconnect"
    PROVE  BeforeIn(Tail(q))
  <1> SUFFICES ASSUME NEW k \in 1..Len(Tail(q)), Is(Tail(q), k, "conflict")
               PROVE  \E j \in 1..Len(Tail(q)) : j < k /\ Is(Tail(q), j, "didConnect")
    BY DEF BeforeIn
  <1>1. k + 1 \in 1..Len(q) /\ Is(q, k + 1, "conflict") BY TailFacts DEF Is
  <1>2. 1 \in 1..Len(q) /\ 1 < k + 1 /\ Is(q, 1, "didDisconnect") BY TailFacts DEF Is
  <1>3. PICK j \in 1..Len(q) : 1 < j /\ j < k + 1 /\ Is(q, j, "didConnect")
    BY <1>1, <1>2 DEF BetweenIn
  <1>4. j - 1 \in 1..Len(Tail(q)) /\ j - 1 < k BY <1>3, TailFacts
  <1>5. Tail(q)[j - 1] = q[(j - 1) + 1] BY <1>4, TailFacts
  <1>6. Is(Tail(q), j - 1, "didConnect") BY <1>3, <1>5 DEF Is
  <1> QED BY <1>4, <1>6

-----------------------------------------------------------------------------
(* Steps that post a block, take one, or leave the queue alone.                *)

StreamSet == {"disconnected", "resolving", "connecting", "closing"} \cup Up

ModuleKept == UNCHANGED <<network, autoReconnect, flagVars, planVars, previous, histVars>>

LEMMA EventTypes ==
    /\ \A k \in {"told", "didConnect", "didAuthenticate", "conflict", "didDisconnect"} :
          Event(k) \in BlockSet /\ Event(k).kind = k
    /\ \A yes \in BOOLEAN, f \in Flags :
          Answer(yes, f) \in BlockSet /\ Answer(yes, f).kind \in {"yes", "no"}
  BY DEF Event, Answer, BlockSet

\* A stream that comes up unheard, or goes down, without a callback changes nothing.
LEMMA SilentStep ==
    ASSUME Inv, ModuleKept, UNCHANGED <<moduleQueue, queries>>,
           stream' \in StreamSet, stream' \in Up => stream \in Up
    PROVE  Inv'
  <1> USE DEF ModuleKept, flagVars, planVars, histVars
  <1>1. TypeOK' BY DEF Inv, TypeOK, StreamSet
  <1>2. QuietWhenUp' BY DEF Inv, QuietWhenUp, Waiting
  <1>3. ProcessIsEquipped' /\ MonitorsForProcess' BY DEF Inv, ProcessIsEquipped, MonitorsForProcess
  <1>4. QueueOrder'
    BY DEF Inv, QueueOrder, ReopeningQueued, ConflictQueued, ConflictBehind, ReopenedIn,
           BetweenIn, BeforeIn, Is
  <1>5. Flagged' BY DEF Inv, Flagged, ProcessFlag, HaltedUnwanted
  <1> QED BY <1>1, <1>2, <1>3, <1>4, <1>5 DEF Inv

\* A process that goes on while the stream is up has not heard of didConnect yet.
LEMMA ProcessHasNotHeard ==
    ASSUME Inv, process, stream \in Up
    PROVE  \E j \in 1..Len(moduleQueue) : Is(moduleQueue, j, "didConnect")
  <1>1. Waiting("didConnect") BY DEF Inv, ProcessIsEquipped, QuietWhenUp
  <1>2. DOMAIN moduleQueue = 1..Len(moduleQueue) BY DEF Inv, TypeOK
  <1> QED BY <1>1, <1>2 DEF Waiting, Is

\* The order of the queue is kept by what is posted in the right state of the stream.
LEMMA PostStep ==
    ASSUME Inv, NEW e \in BlockSet, ModuleKept, moduleQueue' = Append(moduleQueue, e),
           queries' \in Seq(Flags), stream' \in StreamSet,
           stream' \in Up => e.kind = "didConnect" \/ (stream \in Up /\ e.kind # "didDisconnect"),
           e.kind = "conflict" => stream \in Up
    PROVE  Inv'
  <1> USE DEF ModuleKept, flagVars, planVars, histVars
  <1>q. moduleQueue \in Seq(BlockSet) BY DEF Inv, TypeOK
  <1>1. TypeOK' BY <1>q, AppendFacts DEF Inv, TypeOK, StreamSet
  <1>2. QuietWhenUp'
    <2> SUFFICES ASSUME stream' \in Up, ~Waiting("didConnect")'
                 PROVE  reconnectTimer' = "none" /\ ~reachability' /\ ~restart'
      BY DEF QuietWhenUp
    <2>1. DOMAIN moduleQueue' = 1..Len(moduleQueue) + 1 BY <1>q, AppendFacts
    <2>2. e.kind # "didConnect" BY <2>1, <1>q, AppendFacts DEF Waiting
    <2>3. \A i \in DOMAIN moduleQueue : i \in DOMAIN moduleQueue' /\ moduleQueue'[i] = moduleQueue[i]
      BY <1>q, AppendFacts
    <2>4. ~Waiting("didConnect") BY <2>3 DEF Waiting
    <2> QED BY <2>2, <2>4 DEF Inv, QuietWhenUp
  <1>3. ProcessIsEquipped' /\ MonitorsForProcess' BY DEF Inv, ProcessIsEquipped, MonitorsForProcess
  <1>4. ReopeningQueued'
    BY <1>q, ReopenedAppend, ReopenedByConnect DEF Inv, QueueOrder, ReopeningQueued
  <1>5. ConflictQueued' BY <1>q, BetweenAppend DEF Inv, QueueOrder, ReopeningQueued, ConflictQueued
  <1>6. ConflictBehind'
    <2> SUFFICES ASSUME process, ~manuallyStarted PROVE BeforeIn(moduleQueue')
      BY DEF ConflictBehind
    <2>1. BeforeIn(moduleQueue) BY DEF Inv, QueueOrder, ConflictBehind
    <2>2. e.kind = "conflict" => \E j \in 1..Len(moduleQueue) : Is(moduleQueue, j, "didConnect")
      BY ProcessHasNotHeard
    <2> QED BY <1>q, <2>1, <2>2, BeforeAppend
  <1>7. Flagged' BY DEF Inv, Flagged, ProcessFlag, HaltedUnwanted
  <1> QED BY <1>1, <1>2, <1>3, <1>4, <1>5, <1>6, <1>7 DEF Inv, QueueOrder

\* Taking the first block keeps what is said of the order; what is not taken still waits.
LEMMA TakeStep ==
    ASSUME Inv, TakesFirst
    PROVE  /\ moduleQueue \in Seq(BlockSet) /\ moduleQueue # <<>> /\ Head(moduleQueue) \in BlockSet
           /\ moduleQueue' \in Seq(BlockSet)
           /\ ReopenedIn(moduleQueue) => ReopenedIn(moduleQueue')
           /\ BetweenIn(moduleQueue')
           /\ Waiting("didConnect") /\ Head(moduleQueue).kind # "didConnect"
                => Waiting("didConnect")'
  <1>q. moduleQueue \in Seq(BlockSet) /\ moduleQueue # <<>> /\ moduleQueue' = Tail(moduleQueue)
    BY DEF Inv, TypeOK, TakesFirst
  <1>1. moduleQueue' \in Seq(BlockSet) /\ Head(moduleQueue) \in BlockSet BY <1>q, TailFacts
  <1>2. ReopenedIn(moduleQueue) => ReopenedIn(moduleQueue') BY <1>q, ReopenedTail
  <1>3. BetweenIn(moduleQueue') BY <1>q, BetweenTail DEF Inv, QueueOrder, ConflictQueued
  <1>4. ASSUME Waiting("didConnect"), Head(moduleQueue).kind # "didConnect"
        PROVE  Waiting("didConnect")'
    <2>1. PICK i \in DOMAIN moduleQueue : moduleQueue[i].kind = "didConnect" BY <1>4 DEF Waiting
    <2>2. i # 1 BY <2>1, <1>4, <1>q, TailFacts
    <2>3. i - 1 \in DOMAIN moduleQueue' /\ moduleQueue'[i - 1] = moduleQueue[(i - 1) + 1]
      BY <1>q, <2>1, <2>2, TailFacts
    <2>4. (i - 1) + 1 = i BY <1>q, <2>1
    <2> QED BY <2>1, <2>3, <2>4 DEF Waiting
  <1> QED BY <1>q, <1>1, <1>2, <1>3, <1>4

-----------------------------------------------------------------------------
(* The stream.                                                                 *)

LEMMA StreamInv == ASSUME Inv, Stream PROVE Inv'
  <1> USE DEF StreamStep, moduleVars, ModuleKept, Posted, Up, StreamSet
  <1>t. queries' = queries => queries' \in Seq(Flags) BY DEF Inv, TypeOK
  <1>1. CASE Resolved BY <1>1, SilentStep DEF Resolved
  <1>2. CASE DidConnect BY <1>2, <1>t, PostStep, EventTypes DEF DidConnect
  <1>3. CASE DidAuthenticate BY <1>3, <1>t, PostStep, EventTypes DEF DidAuthenticate
  <1>4. CASE Refused BY <1>4, SilentStep DEF Refused
  <1>5. CASE ConnectFails BY <1>5, <1>t, PostStep, EventTypes DEF ConnectFails
  <1>6. CASE Lost BY <1>6, <1>t, PostStep, EventTypes DEF Lost
  <1>7. CASE Replaced BY <1>7, <1>t, PostStep, EventTypes DEF Replaced
  <1>8. CASE Closed BY <1>8, <1>t, PostStep, EventTypes DEF Closed
  <1> QED BY <1>1, <1>2, <1>3, <1>4, <1>5, <1>6, <1>7, <1>8 DEF Stream

\* disconnect during the resolution posts two callbacks, and neither is a conflict.
LEMMA DisconnectsResolving ==
    ASSUME Inv, stream = "resolving", stream' = "disconnected", ModuleKept, UNCHANGED queries,
           moduleQueue' = Append(Posted("told"), Event("didDisconnect"))
    PROVE  Inv'
  <1> USE DEF ModuleKept, flagVars, planVars, histVars
  <1>q. moduleQueue \in Seq(BlockSet) BY DEF Inv, TypeOK
  <1>e. /\ Event("told") \in BlockSet /\ Event("told").kind = "told"
        /\ Event("didDisconnect") \in BlockSet /\ Event("didDisconnect").kind = "didDisconnect"
    BY EventTypes
  <1>p. Posted("told") \in Seq(BlockSet) BY <1>q, <1>e, AppendFacts DEF Posted
  <1>0. moduleQueue' \in Seq(BlockSet) BY <1>p, <1>e, AppendFacts
  <1>1. TypeOK' BY <1>0 DEF Inv, TypeOK
  <1>2. QuietWhenUp' BY DEF QuietWhenUp, Up
  <1>3. ProcessIsEquipped' /\ MonitorsForProcess' BY DEF Inv, ProcessIsEquipped, MonitorsForProcess
  <1>4. ReopeningQueued' BY DEF ReopeningQueued, Up
  <1>5. ConflictQueued'
    <2>1. BetweenIn(Posted("told"))
      BY <1>q, <1>e, BetweenAppend DEF Posted, Inv, QueueOrder, ConflictQueued
    <2> QED BY <1>p, <1>e, <2>1, BetweenAppend DEF ConflictQueued
  <1>6. ConflictBehind'
    <2> SUFFICES ASSUME process, ~manuallyStarted PROVE BeforeIn(moduleQueue')
      BY DEF ConflictBehind
    <2>1. BeforeIn(moduleQueue) BY DEF Inv, QueueOrder, ConflictBehind
    <2>2. BeforeIn(Posted("told")) BY <1>q, <1>e, <2>1, BeforeAppend DEF Posted
    <2> QED BY <1>p, <1>e, <2>2, BeforeAppend
  <1>7. Flagged' BY DEF Inv, Flagged, ProcessFlag, HaltedUnwanted
  <1> QED BY <1>1, <1>2, <1>3, <1>4, <1>5, <1>6, <1>7 DEF Inv, QueueOrder

-----------------------------------------------------------------------------
(* The application.                                                            *)

LEMMA SetUpTypes ==
    ASSUME reconnectTimer \in {"none", "armed", "spent"}
    PROVE  /\ TimerSetUp \in {"none", "armed", "spent"}
           /\ (TimerRepeats \/ TimerDelayed) => TimerSetUp # "none"
  BY DEF TimerSetUp

LEMMA ManualStartInv == ASSUME Inv, ManualStart PROVE Inv'
  <1>1. CASE stream = "disconnected" /\ ~manuallyStarted
    <2> USE <1>1 DEF ManualStart, Rest, SetsUp
    <2>t. reconnectTimer \in {"none", "armed", "spent"} BY DEF Inv, TypeOK
    <2>1. TypeOK' BY <2>t, SetUpTypes DEF Inv, TypeOK
    <2>2. QuietWhenUp' BY DEF QuietWhenUp, Up
    <2>3. ProcessIsEquipped' BY <2>t, SetUpTypes DEF ProcessIsEquipped
    <2>4. MonitorsForProcess' BY DEF MonitorsForProcess
    <2>5. QueueOrder'
      BY DEF Inv, QueueOrder, ReopeningQueued, ConflictQueued, ConflictBehind, ReopenedIn,
             BetweenIn, Is
    <2>6. Flagged' BY DEF Flagged, ProcessFlag, HaltedUnwanted
    <2> QED BY <2>1, <2>2, <2>3, <2>4, <2>5, <2>6 DEF Inv
  <1>2. CASE ~(stream = "disconnected" /\ ~manuallyStarted)
    <2>1. ModuleKept /\ UNCHANGED <<stream, moduleQueue, queries>>
      BY <1>2 DEF ManualStart, Rest, ModuleKept, flagVars, planVars, histVars
    <2>2. stream' \in StreamSet /\ (stream' \in Up => stream \in Up)
      BY <2>1 DEF Inv, TypeOK, StreamSet
    <2> QED BY <2>1, <2>2, SilentStep
  <1> QED BY <1>1, <1>2

\* After stop no flag is set and nothing is planned, so that only the queue counts.
LEMMA StopsInv ==
    ASSUME Inv, Stops, moduleQueue' \in Seq(BlockSet), BetweenIn(moduleQueue'),
           ReopenedIn(moduleQueue) => ReopenedIn(moduleQueue')
    PROVE  Inv'
  <1> USE DEF Stops, ClearsFlags, TearsDown, Rest
  <1>1. TypeOK' BY DEF Inv, TypeOK
  <1>2. QuietWhenUp' BY DEF QuietWhenUp
  <1>3. ProcessIsEquipped' /\ MonitorsForProcess' BY DEF ProcessIsEquipped, MonitorsForProcess
  <1>4. QueueOrder' BY DEF Inv, QueueOrder, ReopeningQueued, ConflictQueued, ConflictBehind
  <1>5. Flagged' BY DEF Flagged, ProcessFlag, HaltedUnwanted
  <1> QED BY <1>1, <1>2, <1>3, <1>4, <1>5 DEF Inv

LEMMA SetAutoReconnectInv ==
    ASSUME Inv, NEW flag \in BOOLEAN, SetAutoReconnect(flag) PROVE Inv'
  <1> USE DEF SetAutoReconnect, moduleVars, flagVars, planVars, histVars
  <1>1. TypeOK' BY DEF Inv, TypeOK
  <1>2. QuietWhenUp' BY DEF Inv, QuietWhenUp, Waiting
  <1>3. ProcessIsEquipped' /\ MonitorsForProcess' BY DEF Inv, ProcessIsEquipped, MonitorsForProcess
  <1>4. QueueOrder'
    BY DEF Inv, QueueOrder, ReopeningQueued, ConflictQueued, ConflictBehind, ReopenedIn,
           BetweenIn, BeforeIn, Is
  <1>5. Flagged' BY DEF Inv, Flagged, ProcessFlag, HaltedUnwanted
  <1> QED BY <1>1, <1>2, <1>3, <1>4, <1>5 DEF Inv

LEMMA ApplicationInv == ASSUME Inv, Application PROVE Inv'
  <1>t. queries' = queries => queries' \in Seq(Flags) BY DEF Inv, TypeOK
  <1>1. CASE AppConnects
    BY <1>1, SilentStep
    DEF AppConnects, Connecting, StreamStep, moduleVars, ModuleKept, Up, StreamSet
  <1>2. CASE Authenticates
    BY <1>2, SilentStep DEF Authenticates, StreamStep, moduleVars, ModuleKept, Up, StreamSet
  <1>3. CASE AppDisconnects
    <2>1. CASE stream = "resolving" /\ stream' = "disconnected"
      BY <1>3, <2>1, DisconnectsResolving
      DEF AppDisconnects, StreamStep, moduleVars, ModuleKept, Up
    <2>2. CASE stream' = "closing"
      BY <1>3, <2>2, <1>t, PostStep, EventTypes
      DEF AppDisconnects, StreamStep, moduleVars, ModuleKept, Up, StreamSet, Posted
    <2> QED BY <1>3, <2>1, <2>2 DEF AppDisconnects, StreamStep
  <1>4. CASE ManualStart BY <1>4, ManualStartInv
  <1>5. CASE Stop
    <2>1. moduleQueue' \in Seq(BlockSet) BY <1>5 DEF Stop, Inv, TypeOK
    <2>2. BetweenIn(moduleQueue') /\ (ReopenedIn(moduleQueue) => ReopenedIn(moduleQueue'))
      BY <1>5 DEF Stop, Inv, QueueOrder, ConflictQueued
    <2> QED BY <1>5, <2>1, <2>2, StopsInv DEF Stop
  <1>6. CASE \E flag \in BOOLEAN : SetAutoReconnect(flag) BY <1>6, SetAutoReconnectInv
  <1> QED BY <1>1, <1>2, <1>3, <1>4, <1>5, <1>6 DEF Application

-----------------------------------------------------------------------------
(* The callbacks that the module takes from its queue.                         *)

LEMMA HandleDidConnectInv == ASSUME Inv, HandleDidConnect PROVE Inv'
  <1> USE DEF HandleDidConnect, Taking, EndsRestart, TearsDown, Rest
  <1>q. moduleQueue' \in Seq(BlockSet) /\ BetweenIn(moduleQueue')
        /\ (ReopenedIn(moduleQueue) => ReopenedIn(moduleQueue'))
    BY TakeStep
  <1>1. TypeOK' BY <1>q DEF Inv, TypeOK
  <1>2. QuietWhenUp' BY DEF QuietWhenUp
  <1>3. ProcessIsEquipped' /\ MonitorsForProcess' BY DEF ProcessIsEquipped, MonitorsForProcess
  <1>4. QueueOrder' BY <1>q DEF Inv, QueueOrder, ReopeningQueued, ConflictQueued, ConflictBehind
  <1>5. Flagged' BY DEF Inv, Flagged, ProcessFlag, HaltedUnwanted
  <1> QED BY <1>1, <1>2, <1>3, <1>4, <1>5 DEF Inv

\* Any callback but didConnect that leaves the plan and the process as they are.
LEMMA TakePlanKept ==
    ASSUME Inv, TakesFirst, Head(moduleQueue).kind # "didConnect",
           UNCHANGED <<planVars, process, manuallyStarted>>,
           stream' \in Up => stream \in Up
    PROVE  /\ QuietWhenUp' /\ ProcessIsEquipped' /\ MonitorsForProcess' /\ QueueOrder'
  <1> USE DEF planVars
  <1>q. /\ moduleQueue \in Seq(BlockSet) /\ moduleQueue # <<>>
        /\ BetweenIn(moduleQueue')
        /\ (ReopenedIn(moduleQueue) => ReopenedIn(moduleQueue'))
        /\ (Waiting("didConnect") => Waiting("didConnect")')
    BY TakeStep
  <1>1. QuietWhenUp' BY <1>q DEF Inv, QuietWhenUp
  <1>2. ProcessIsEquipped' /\ MonitorsForProcess' BY DEF Inv, ProcessIsEquipped, MonitorsForProcess
  <1>3. ReopeningQueued' /\ ConflictQueued'
    BY <1>q DEF Inv, QueueOrder, ReopeningQueued, ConflictQueued
  <1>4. ConflictBehind' BY <1>q, BeforeTail DEF Inv, QueueOrder, ConflictBehind, TakesFirst
  <1> QED BY <1>1, <1>2, <1>3, <1>4 DEF QueueOrder

LEMMA HandleDidAuthenticateInv == ASSUME Inv, HandleDidAuthenticate PROVE Inv'
  <1> USE DEF HandleDidAuthenticate, Taking, Rest
  <1>1. QuietWhenUp' /\ ProcessIsEquipped' /\ MonitorsForProcess' /\ QueueOrder'
    BY TakePlanKept
  <1>q. moduleQueue' \in Seq(BlockSet) BY TakeStep
  <1>2. TypeOK' BY <1>q DEF Inv, TypeOK, planVars
  <1>3. Flagged' BY DEF Flagged, ProcessFlag, HaltedUnwanted
  <1> QED BY <1>1, <1>2, <1>3 DEF Inv

\* The process of an earlier disconnection has been ended by the didConnect before the
\* conflict, so that only one that was started manually is left.
LEMMA HandleConflictInv == ASSUME Inv, HandleConflict PROVE Inv'
  <1> USE DEF HandleConflict, Taking, Rest
  <1>1. QuietWhenUp' /\ ProcessIsEquipped' /\ MonitorsForProcess' /\ QueueOrder'
    BY TakePlanKept
  <1>q. moduleQueue \in Seq(BlockSet) /\ moduleQueue # <<>> /\ moduleQueue' \in Seq(BlockSet)
    BY TakeStep
  <1>2. TypeOK' BY <1>q DEF Inv, TypeOK, planVars
  <1>3. process => manuallyStarted
    <2> SUFFICES ASSUME process, ~manuallyStarted PROVE FALSE
      OBVIOUS
    <2>1. BeforeIn(moduleQueue) BY DEF Inv, QueueOrder, ConflictBehind
    <2>2. 1 \in 1..Len(moduleQueue) /\ Is(moduleQueue, 1, "conflict") BY <1>q, TailFacts DEF Is
    <2>3. PICK j \in 1..Len(moduleQueue) : j < 1 BY <2>1, <2>2 DEF BeforeIn
    <2> QED BY <2>3
  <1>4. Flagged' BY <1>3 DEF Flagged, ProcessFlag, HaltedUnwanted
  <1> QED BY <1>1, <1>2, <1>4 DEF Inv

\* When a didDisconnect is taken the stream is not up, or a didConnect still waits; a
\* process that begins here has a didConnect before every conflict.
LEMMA HandleDidDisconnectInv == ASSUME Inv, HandleDidDisconnect PROVE Inv'
  <1> USE DEF HandleDidDisconnect, Taking, Rest, flagVars
  <1>q. /\ moduleQueue \in Seq(BlockSet) /\ moduleQueue # <<>> /\ moduleQueue' \in Seq(BlockSet)
        /\ BetweenIn(moduleQueue')
        /\ (ReopenedIn(moduleQueue) => ReopenedIn(moduleQueue'))
        /\ (Waiting("didConnect") => Waiting("didConnect")')
    BY TakeStep
  <1>t. reconnectTimer \in {"none", "armed", "spent"} BY DEF Inv, TypeOK
  <1>1. TypeOK' BY <1>q, <1>t, SetUpTypes DEF Inv, TypeOK, SetsUp
  <1>2. QuietWhenUp'
    <2> SUFFICES ASSUME stream \in Up PROVE Waiting("didConnect")' BY DEF QuietWhenUp
    <2>1. ReopenedIn(moduleQueue) BY DEF Inv, QueueOrder, ReopeningQueued
    <2>2. 1 \in 1..Len(moduleQueue) /\ Is(moduleQueue, 1, "didDisconnect")
      BY <1>q, TailFacts DEF Is
    <2>3. PICK j \in 1..Len(moduleQueue) : Is(moduleQueue, j, "didConnect")
      BY <2>1, <2>2 DEF ReopenedIn
    <2>4. Waiting("didConnect") BY <2>3, <1>q DEF Waiting, Is
    <2> QED BY <2>4, <1>q
  <1>3. ProcessIsEquipped' BY <1>t, SetUpTypes DEF Inv, ProcessIsEquipped, SetsUp
  <1>4. MonitorsForProcess' BY DEF Inv, MonitorsForProcess, SetsUp
  <1>5. ReopeningQueued' /\ ConflictQueued'
    BY <1>q DEF Inv, QueueOrder, ReopeningQueued, ConflictQueued
  <1>6. ConflictBehind'
    <2>1. BeforeIn(moduleQueue')
      BY <1>q, BeforeAfterDisconnect DEF Inv, QueueOrder, ConflictQueued, TakesFirst
    <2> QED BY <2>1 DEF ConflictBehind
  <1>7. Flagged'
    BY DEF Inv, Flagged, ProcessFlag, HaltedUnwanted, BeginsProcess
  <1> QED BY <1>1, <1>2, <1>3, <1>4, <1>5, <1>6, <1>7 DEF Inv, QueueOrder

LEMMA HandleYesInv == ASSUME Inv, HandleYes PROVE Inv'
  <1> USE DEF HandleYes, Taking, Rest, histVars
  <1>q. moduleQueue' \in Seq(BlockSet) /\ Head(moduleQueue) \in BlockSet BY TakeStep
  <1>s. stream' \in StreamSet /\ (stream' \in Up => stream \in Up)
    BY DEF Inv, TypeOK, StreamSet, StreamAfterConnect, Connecting, Up
  <1>1. QuietWhenUp' /\ ProcessIsEquipped' /\ MonitorsForProcess' /\ QueueOrder'
    BY <1>s, TakePlanKept
  <1>2. Head(moduleQueue).flags \in Flags \cup {"none"} BY <1>q DEF BlockSet
  <1>3. TypeOK' BY <1>q, <1>s, <1>2 DEF Inv, TypeOK, StreamSet, planVars
  <1>4. Flagged' BY DEF Inv, Flagged, ProcessFlag, HaltedUnwanted
  <1> QED BY <1>1, <1>3, <1>4 DEF Inv

LEMMA HandleNoInv == ASSUME Inv, HandleNo PROVE Inv'
  <1> USE DEF HandleNo, Taking, Rest, histVars
  <1>q. moduleQueue' \in Seq(BlockSet) BY TakeStep
  <1>1. QuietWhenUp' /\ ProcessIsEquipped' /\ MonitorsForProcess' /\ QueueOrder'
    BY TakePlanKept
  <1>2. queries \in Seq(Flags) /\ network \in Flags BY DEF Inv, TypeOK
  <1>3. Append(queries, network) \in Seq(Flags) BY <1>2
  <1>4. TypeOK' BY <1>q, <1>3 DEF Inv, TypeOK, planVars
  <1>5. Flagged' BY DEF Inv, Flagged, ProcessFlag, HaltedUnwanted
  <1> QED BY <1>1, <1>4, <1>5 DEF Inv

LEMMA HandleFirstInv == ASSUME Inv, HandleFirst PROVE Inv'
  <1>1. CASE HandleTold
    <2>1. TakesFirst BY <1>1 DEF HandleTold, Taking
    <2> QED BY <1>1, <2>1, TakeStep, StopsInv DEF HandleTold
  <1> QED BY <1>1, HandleDidConnectInv, HandleDidAuthenticateInv, HandleConflictInv,
             HandleDidDisconnectInv, HandleYesInv, HandleNoInv DEF HandleFirst

-----------------------------------------------------------------------------
(* Timers, the network and the delegates.                                      *)

LEMMA AbortTypes ==
    ASSUME Inv
    PROVE  StreamAfterAbort \in StreamSet /\ (StreamAfterAbort \in Up => StreamAfterAbort = stream)
  BY DEF Inv, TypeOK, StreamAfterAbort, StreamSet, Up

\* A step outside of the queue that keeps the process and brings up no stream keeps the
\* invariant, if what it assigns has its type and the plan only shrinks.
LEMMA OtherStep ==
    ASSUME Inv, TypeOK', UNCHANGED <<moduleQueue, manuallyStarted, shouldReconnect, reachability,
                                     process, halted>>,
           stream' \in Up => stream \in Up,
           restart' => restart, reconnectTimer' = "none" <=> reconnectTimer = "none"
    PROVE  Inv'
  <1>1. QuietWhenUp' BY DEF Inv, QuietWhenUp, Waiting
  <1>2. ProcessIsEquipped' /\ MonitorsForProcess' BY DEF Inv, ProcessIsEquipped, MonitorsForProcess
  <1>3. QueueOrder'
    BY DEF Inv, QueueOrder, ReopeningQueued, ConflictQueued, ConflictBehind, ReopenedIn,
           BetweenIn, BeforeIn, Is
  <1>4. Flagged' BY DEF Inv, Flagged, ProcessFlag, HaltedUnwanted
  <1> QED BY <1>1, <1>2, <1>3, <1>4 DEF Inv

LEMMA TimerFiresInv == ASSUME Inv, TimerFires PROVE Inv'
  <1> USE DEF TimerFires, MaybeAttempt, Rest, histVars
  <1>1. queries \in Seq(Flags) /\ Append(queries, network) \in Seq(Flags) BY DEF Inv, TypeOK
  <1>2. stream' \in StreamSet /\ (stream' \in Up => stream \in Up)
    BY AbortTypes DEF Inv, TypeOK, StreamSet
  <1>3. TypeOK' BY <1>1, <1>2 DEF Inv, TypeOK, StreamSet
  <1> QED BY <1>2, <1>3, OtherStep

LEMMA RestartFiresInv == ASSUME Inv, RestartFires PROVE Inv'
  <1> USE DEF RestartFires, MaybeAttempt, Rest, histVars
  <1>1. queries \in Seq(Flags) /\ Append(queries, network) \in Seq(Flags) BY DEF Inv, TypeOK
  <1>2. stream' \in StreamSet /\ (stream' \in Up => stream \in Up)
    BY AbortTypes DEF Inv, TypeOK, StreamSet
  <1>3. TypeOK' BY <1>1, <1>2 DEF Inv, TypeOK, StreamSet
  <1> QED BY <1>2, <1>3, OtherStep

LEMMA NetworkChangesInv == ASSUME Inv, NetworkChanges PROVE Inv'
  <1> USE DEF NetworkChanges, MaybeAttempt, histVars, planVars
  <1>1. queries \in Seq(Flags) /\ Append(queries, network') \in Seq(Flags) BY DEF Inv, TypeOK
  <1>2. stream' \in StreamSet /\ (stream' \in Up => stream \in Up)
    BY AbortTypes DEF Inv, TypeOK, StreamSet
  <1>3. TypeOK' BY <1>1, <1>2 DEF Inv, TypeOK, StreamSet
  <1> QED BY <1>2, <1>3, OtherStep

LEMMA RemoveAtType ==
    ASSUME NEW S, NEW s \in Seq(S), NEW i \in DOMAIN s
    PROVE  RemoveAt(s, i) \in Seq(S) /\ Len(RemoveAt(s, i)) = Len(s) - 1
  BY DEF RemoveAt

LEMMA DelegatesAnswerInv ==
    ASSUME Inv, NEW yes \in BOOLEAN, DelegatesAnswer(yes) PROVE Inv'
  <1>1. PICK i \in DOMAIN queries :
            /\ moduleQueue' = Append(moduleQueue, Answer(yes, queries[i]))
            /\ queries' = RemoveAt(queries, i)
    BY DEF DelegatesAnswer
  <1>2. queries \in Seq(Flags) BY DEF Inv, TypeOK
  <1>3. queries' \in Seq(Flags) /\ queries[i] \in Flags BY <1>1, <1>2, RemoveAtType
  <1>4. Answer(yes, queries[i]) \in BlockSet /\ Answer(yes, queries[i]).kind \in {"yes", "no"}
    BY <1>3, EventTypes
  <1>5. ModuleKept /\ stream' = stream /\ stream \in StreamSet
    BY DEF DelegatesAnswer, ModuleKept, Rest, Inv, TypeOK, StreamSet
  <1> QED BY <1>1, <1>3, <1>4, <1>5, PostStep

-----------------------------------------------------------------------------
(* The theorems.                                                               *)

LEMMA InitInv == ASSUME Init PROVE Inv
  <1>e. <<>> \in Seq(BlockSet) /\ <<>> \in Seq(Flags) /\ Len(<<>>) = 0 OBVIOUS
  <1>1. TypeOK BY <1>e DEF Init, TypeOK
  <1>2. QuietWhenUp /\ ProcessIsEquipped /\ MonitorsForProcess
    BY DEF Init, QuietWhenUp, ProcessIsEquipped, MonitorsForProcess, Up
  <1>3. QueueOrder
    BY <1>e DEF Init, QueueOrder, ReopeningQueued, ConflictQueued, ConflictBehind, BetweenIn, Up
  <1>4. Flagged BY DEF Init, Flagged, ProcessFlag, HaltedUnwanted
  <1> QED BY <1>1, <1>2, <1>3, <1>4 DEF Inv

LEMMA NextInv == ASSUME Inv, Next PROVE Inv'
  <1>1. CASE Application BY <1>1, ApplicationInv
  <1>2. CASE Stream BY <1>2, StreamInv
  <1>3. CASE Module
    BY <1>3, HandleFirstInv, TimerFiresInv, RestartFiresInv, NetworkChangesInv, DelegatesAnswerInv
    DEF Module
  <1> QED BY <1>1, <1>2, <1>3 DEF Next

LEMMA StutterInv == ASSUME Inv, UNCHANGED vars PROVE Inv'
  <1>1. ModuleKept /\ UNCHANGED <<stream, moduleQueue, queries>>
    BY DEF vars, moduleVars, ModuleKept
  <1>2. stream' \in StreamSet /\ (stream' \in Up => stream \in Up)
    BY <1>1 DEF Inv, TypeOK, StreamSet
  <1> QED BY <1>1, <1>2, SilentStep

LEMMA InvIsInvariant == Spec => []Inv
  <1>1. Init => Inv BY InitInv
  <1>2. Inv /\ [Next]_vars => Inv' BY NextInv, StutterInv
  <1> QED BY <1>1, <1>2, PTL DEF Spec

\* Every variable stays in its domain.
THEOREM TypeCorrect == Spec => []TypeOK
  <1>1. Inv => TypeOK BY DEF Inv
  <1> QED BY <1>1, InvIsInvariant, PTL

\* "The stream is up so we can stop our reconnect attempts now": xmppStreamDidConnect: leaves
\* nothing that could act on the open stream, and nothing begins until it is lost.
THEOREM QuietOnceUp == Spec => []QuietWhenUp
  <1>1. Inv => QuietWhenUp BY DEF Inv
  <1> QED BY <1>1, InvIsInvariant, PTL

\* A reconnect process has its timer and its network monitor, whatever was called in between.
THEOREM ProcessEquipped == Spec => []ProcessIsEquipped
  <1>1. Inv => ProcessIsEquipped BY DEF Inv
  <1> QED BY <1>1, InvIsInvariant, PTL

\* The timer and the monitor are there only for a reconnect process.
THEOREM NothingIdle == Spec => []MonitorsForProcess
  <1>1. Inv => MonitorsForProcess BY DEF Inv
  <1> QED BY <1>1, InvIsInvariant, PTL

\* While autoReconnect is set the attempts of a process are wanted: a conflict, which takes the
\* wish back, is only ever handled after the process of its connection has ended.
THEOREM ProcessWanted == Spec => []ProcessIsWantedUnchanged
  <1>1. Inv => ProcessIsWantedUnchanged
    BY DEF Inv, Flagged, ProcessFlag, ProcessIsWantedUnchanged, Wanted
  <1> QED BY <1>1, InvIsInvariant, PTL

\* The length of what the delegates are asked changes as the actions say.
LEMMA AsksOnlyWanted ==
    ASSUME Inv, [Next]_vars, ~Wanted
    PROVE  Len(queries') <= Len(queries)
  <1>q. queries \in Seq(Flags) /\ Len(queries) \in Nat BY DEF Inv, TypeOK
  <1>s. queries' = queries => Len(queries') <= Len(queries) BY <1>q
  <1>1. CASE Application
    BY <1>1, <1>s
    DEF Application, AppConnects, Authenticates, AppDisconnects, StreamStep, moduleVars,
        ManualStart, Stop, Stops, SetAutoReconnect
  <1>2. CASE Stream
    BY <1>2, <1>s
    DEF Stream, Resolved, DidConnect, DidAuthenticate, Refused, ConnectFails, Lost, Replaced,
        Closed, StreamStep, moduleVars
  <1>3. CASE HandleFirst
    BY <1>3, <1>s
    DEF HandleFirst, HandleTold, Stops, HandleDidConnect, HandleDidAuthenticate, HandleConflict,
        HandleDidDisconnect, HandleYes, HandleNo
  <1>4. CASE TimerFires \/ RestartFires \/ NetworkChanges
    BY <1>4, <1>s DEF TimerFires, RestartFires, NetworkChanges, MaybeAttempt
  <1>5. CASE \E yes \in BOOLEAN : DelegatesAnswer(yes)
    <2>1. PICK i \in DOMAIN queries : queries' = RemoveAt(queries, i) BY <1>5 DEF DelegatesAnswer
    <2> QED BY <2>1, <1>q, RemoveAtType
  <1>6. CASE UNCHANGED vars BY <1>6, <1>s DEF vars, moduleVars
  <1> QED BY <1>1, <1>2, <1>3, <1>4, <1>5, <1>6 DEF Next, Module

\* Once stopped, told to disconnect, or replaced by another client, no delegate is asked for
\* another attempt until the stream has authenticated again or manualStart is called.
THEOREM StopHolds == Spec => StopEnds
  <1>1. Inv /\ [Next]_vars => [halted /\ halted' => Len(queries') <= Len(queries)]_vars
    BY AsksOnlyWanted DEF Inv, Flagged, HaltedUnwanted, Wanted
  <1> QED BY <1>1, InvIsInvariant, PTL DEF Spec, StopEnds

\* The module aborts a stream that was connected only before it has heard of didConnect.
LEMMA AbortIsUnheard ==
    ASSUME Inv, Next, stream = "authenticating", stream' = "closing", ~Waiting("didConnect")
    PROVE  Len(moduleQueue') > Len(moduleQueue)
  <1>q. moduleQueue \in Seq(BlockSet) BY DEF Inv, TypeOK
  <1>n. reconnectTimer = "none" /\ ~reachability /\ ~restart BY DEF Inv, QuietWhenUp, Up
  <1>p. \A k \in {"told", "conflict"} : Len(Posted(k)) > Len(moduleQueue)
    BY <1>q, EventTypes, AppendFacts DEF Posted
  <1>1. CASE Application
    BY <1>1, <1>p
    DEF Application, AppConnects, Authenticates, AppDisconnects, StreamStep, ManualStart, Stop,
        Stops, SetAutoReconnect
  <1>2. CASE Stream
    BY <1>2, <1>p
    DEF Stream, Resolved, DidConnect, DidAuthenticate, Refused, ConnectFails, Lost, Replaced,
        Closed, StreamStep
  <1>3. CASE HandleFirst
    BY <1>3
    DEF HandleFirst, HandleTold, Stops, HandleDidConnect, HandleDidAuthenticate, HandleConflict,
        HandleDidDisconnect, HandleYes, HandleNo, StreamAfterConnect
  <1>4. CASE TimerFires \/ RestartFires \/ NetworkChanges
    BY <1>4, <1>n DEF TimerFires, RestartFires, NetworkChanges
  <1>5. CASE \E yes \in BOOLEAN : DelegatesAnswer(yes) BY <1>5 DEF DelegatesAnswer
  <1> QED BY <1>1, <1>2, <1>3, <1>4, <1>5 DEF Next, Module

\* The timer, the monitor and a delayed restart tear down attempts, and never a stream whose
\* didConnect the module has handled.
THEOREM AbortsOnlyAttempts == Spec => AbortsUnheardOnly
  <1>1. Inv /\ [Next]_vars
         => [stream = "authenticating" /\ stream' = "closing" /\ ~Waiting("didConnect")
               => Len(moduleQueue') > Len(moduleQueue)]_vars
    BY AbortIsUnheard
  <1> QED BY <1>1, InvIsInvariant, PTL DEF Spec, AbortsUnheardOnly

=============================================================================
