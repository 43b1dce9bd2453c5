---------------------------- MODULE RosterProofs ----------------------------
(* Theorems about Roster, for any sets of contacts and settings, queues and    *)
(* kept presence of any length, and any number of connections and changes.     *)
EXTENDS Roster, TLAPS

-----------------------------------------------------------------------------
(* What blocks say of a contact.                                               *)

Speaks(b, c) == b.kind = "result" \/ (b.kind = "push" /\ b.jid = c)
Ends(b)      == b.kind = "didDisconnect"
Turns(b, c)  == Speaks(b, c) \/ Ends(b)
Said(b, c)   == IF b.kind = "result" THEN b.items[c] ELSE b.item
Gone(b, c)   == Ends(b) \/ (Speaks(b, c) /\ Said(b, c) = "absent")

Unlisted(user) == user \in {"absent", "seen"}
Agrees(user, item) ==
    /\ item = "both" => user = "both"
    /\ item = "none" => user \in {"none", "absent", "seen"}
    /\ item = "absent" => Unlisted(user)

-----------------------------------------------------------------------------
(* The invariant.  q is the queue of the module, has its hasRoster, u the user *)
(* c as it is stored and item c on the server.                                 *)

Quiet(q, i, c) == \A k \in 1..Len(q) : i < k => ~Turns(q[k], c)
Silent(q, c)   == \A k \in 1..Len(q) : ~Turns(q[k], c)

\* The last word about c is that of the server.
LastWord(q, has, u, item, c) ==
    \/ \E i \in 1..Len(q) : Speaks(q[i], c) /\ Said(q[i], c) = item /\ Quiet(q, i, c)
    \/ Silent(q, c) /\ has /\ Agrees(u, item)

\* Nothing is known of c.
Unknown(q, has, u, c) ==
    \/ \E i \in 1..Len(q) : Ends(q[i]) /\ Quiet(q, i, c)
    \/ Silent(q, c) /\ (has => Unlisted(u))

\* Before a roster without c is handled c is no user, unless the connection ended or hasRoster
\* is false.
GoneBefore(q, n, has, u, c) ==
    \/ \E j \in 1..Len(q) :
          /\ j < n /\ Gone(q[j], c)
          /\ \A k \in 1..Len(q) : j < k /\ k < n => ~Turns(q[k], c)
    \/ (\A k \in 1..Len(q) : k < n => ~Turns(q[k], c)) /\ (has => Unlisted(u))

AbsentStays(q, has, u, c) ==
    \A n \in 1..Len(q) :
        q[n].kind = "result" /\ q[n].items[c] = "absent" => GoneBefore(q, n, has, u, c)

\* A push comes after a roster of its connection.
RosterBefore(q, n, has) ==
    \/ \E j \in 1..Len(q) :
          /\ j < n /\ q[j].kind = "result"
          /\ \A k \in 1..Len(q) : j < k /\ k < n => ~Ends(q[k])
    \/ has /\ \A k \in 1..Len(q) : k < n => ~Ends(q[k])

PushesAfter(q, has) ==
    \A n \in 1..Len(q) : q[n].kind = "push" => RosterBefore(q, n, has)

Matching(c) ==
    /\ interested => LastWord(moduleQueue, hasRoster, users[c], roster[c], c)
    /\ ~interested => Unknown(moduleQueue, hasRoster, users[c], c)
    /\ AbsentStays(moduleQueue, hasRoster, users[c], c)

\* A contact that was "both" at all times.
Friend(c) ==
    /\ roster[c] = "both"
    /\ \A i \in 1..Len(moduleQueue) :
          Speaks(moduleQueue[i], c) => Said(moduleQueue[i], c) = "both"
    /\ ~config.rosterless /\ ~guessed => c \notin asked /\ (hasRoster => users[c] = "both")

\* Presence is kept only while a fetch is timed, whose end it waits for.
KeptIsTimed ==
    /\ earlyPresenceElements # <<>> => requestedRoster /\ ~hasRoster
    /\ requestedRoster /\ ~hasRoster => armed # {}

Words ==
    /\ \A c \in Contacts \ strangers : Friend(c)
    /\ PushesAfter(moduleQueue, hasRoster)
    /\ \A c \in Contacts : Matching(c)

Inv == TypeOK /\ KeptIsTimed /\ Words

-----------------------------------------------------------------------------
(* Sequences.                                                                  *)

LEMMA AppendFacts ==
    ASSUME NEW S, NEW q \in Seq(S), NEW e \in S
    PROVE  /\ Append(q, e) \in Seq(S) /\ Len(q) \in Nat
           /\ Len(Append(q, e)) = Len(q) + 1
           /\ \A i \in 1..Len(q) : i \in 1..Len(Append(q, e)) /\ Append(q, e)[i] = q[i]
           /\ Append(q, e)[Len(q) + 1] = e
           /\ \A i \in 1..Len(Append(q, e)) : i \in 1..Len(q) \/ i = Len(q) + 1
  OBVIOUS

LEMMA TailFacts ==
    ASSUME NEW S, NEW q \in Seq(S), q # <<>>
    PROVE  /\ Tail(q) \in Seq(S) /\ Head(q) \in S /\ Head(q) = q[1] /\ Len(q) \in Nat
           /\ Len(Tail(q)) = Len(q) - 1 /\ 1 \in 1..Len(q)
           /\ \A i \in 1..Len(Tail(q)) : i + 1 \in 1..Len(q) /\ Tail(q)[i] = q[i + 1]
           /\ \A i \in 1..Len(q) : i = 1 \/ (i - 1 \in 1..Len(Tail(q)) /\ Tail(q)[i - 1] = q[i])
  OBVIOUS

LEMMA BlockKinds ==
    /\ \A k \in {"didAuthenticate", "didDisconnect", "fetch", "didSendUnavailable"} :
          Event(k) \in Blocks /\ Event(k).kind = k
    /\ \A id \in Ids, items \in [Contacts -> Items] :
          /\ Result(id, items) \in Blocks /\ Result(id, items).kind = "result"
          /\ Result(id, items).items = items
    /\ \A c \in Contacts, item \in Items :
          /\ Push(c, item) \in Blocks /\ Push(c, item).kind = "push"
          /\ Push(c, item).jid = c /\ Push(c, item).item = item
    /\ \A t \in {"available", "unavailable", "subscribe", "answer"}, c \in Contacts :
          Presence(t, c) \in Blocks /\ Presence(t, c).kind = "presence"
  BY DEF Blocks, Event, Result, Push, Presence, Presences

LEMMA KindsOfBlocks ==
    ASSUME NEW b \in Blocks
    PROVE  /\ b.kind = "result" => b.id \in Ids /\ b.items \in [Contacts -> Items]
           /\ b.kind = "push" => b.jid \in Contacts /\ b.item \in Items
           /\ b.kind = "presence" => b \in Presences
  BY DEF Blocks, Event, Presences

-----------------------------------------------------------------------------
(* What a new block does to the words about c.                                 *)

LEMMA AppendOther ==
    ASSUME NEW q \in Seq(Blocks), NEW e \in Blocks, NEW has, NEW u, NEW item, NEW c, ~Turns(e, c)
    PROVE  /\ LastWord(q, has, u, item, c) => LastWord(Append(q, e), has, u, item, c)
           /\ Unknown(q, has, u, c) => Unknown(Append(q, e), has, u, c)
  <1> DEFINE r == Append(q, e)
  <1>1. /\ Len(q) \in Nat
        /\ \A i \in 1..Len(q) : i \in 1..Len(r) /\ r[i] = q[i]
        /\ \A i \in 1..Len(r) : (i \in 1..Len(q) /\ r[i] = q[i]) \/ r[i] = e
    BY AppendFacts
  <1> HIDE DEF r
  <1>2. \A i \in 1..Len(q) : Quiet(q, i, c) => Quiet(r, i, c) BY <1>1 DEF Quiet
  <1>3. Silent(q, c) => Silent(r, c) BY <1>1 DEF Silent
  <1>4. LastWord(q, has, u, item, c) => LastWord(r, has, u, item, c)
    BY <1>1, <1>2, <1>3 DEF LastWord
  <1>5. Unknown(q, has, u, c) => Unknown(r, has, u, c) BY <1>1, <1>2, <1>3 DEF Unknown
  <1> QED BY <1>4, <1>5 DEF r

LEMMA AppendSaid ==
    ASSUME NEW q \in Seq(Blocks), NEW e \in Blocks, NEW has, NEW u, NEW c, Speaks(e, c)
    PROVE  LastWord(Append(q, e), has, u, Said(e, c), c)
  <1> DEFINE r == Append(q, e)
  <1>1. Len(r) = Len(q) + 1 /\ Len(q) \in Nat /\ r[Len(q) + 1] = e BY AppendFacts
  <1> HIDE DEF r
  <1>2. Len(r) \in 1..Len(r) /\ r[Len(r)] = e /\ Quiet(r, Len(r), c) BY <1>1 DEF Quiet
  <1>3. LastWord(r, has, u, Said(e, c), c) BY <1>2 DEF LastWord
  <1> QED BY <1>3 DEF r

LEMMA AppendEnd ==
    ASSUME NEW q \in Seq(Blocks), NEW e \in Blocks, NEW has, NEW u, NEW c, Ends(e)
    PROVE  Unknown(Append(q, e), has, u, c)
  <1> DEFINE r == Append(q, e)
  <1>1. Len(r) = Len(q) + 1 /\ Len(q) \in Nat /\ r[Len(q) + 1] = e BY AppendFacts
  <1> HIDE DEF r
  <1>2. Len(r) \in 1..Len(r) /\ r[Len(r)] = e /\ Quiet(r, Len(r), c) BY <1>1 DEF Quiet
  <1>3. Unknown(r, has, u, c) BY <1>2 DEF Unknown
  <1> QED BY <1>3 DEF r

\* A roster without c is sent only when the last word about c says so, or there is none.
LEMMA AppendAbsent ==
    ASSUME NEW q \in Seq(Blocks), NEW e \in Blocks, NEW has, NEW u, NEW c,
           AbsentStays(q, has, u, c),
           e.kind = "result" /\ e.items[c] = "absent" =>
               Unknown(q, has, u, c) \/ LastWord(q, has, u, "absent", c)
    PROVE  AbsentStays(Append(q, e), has, u, c)
  <1> DEFINE r == Append(q, e)
  <1>1. /\ Len(r) = Len(q) + 1 /\ Len(q) \in Nat /\ r[Len(q) + 1] = e
        /\ \A i \in 1..Len(q) : i \in 1..Len(r) /\ r[i] = q[i]
        /\ \A i \in 1..Len(r) : i \in 1..Len(q) \/ i = Len(q) + 1
    BY AppendFacts
  <1> HIDE DEF r
  <1>2. ASSUME NEW n \in 1..Len(q), GoneBefore(q, n, has, u, c)
        PROVE  GoneBefore(r, n, has, u, c)
    <2>1. \A k \in 1..Len(r) : k < n => k \in 1..Len(q) /\ r[k] = q[k] BY <1>1
    <2>2. CASE (\A k \in 1..Len(q) : k < n => ~Turns(q[k], c)) /\ (has => Unlisted(u))
      BY <2>1, <2>2 DEF GoneBefore
    <2>3. CASE \E j \in 1..Len(q) :
                  /\ j < n /\ Gone(q[j], c)
                  /\ \A k \in 1..Len(q) : j < k /\ k < n => ~Turns(q[k], c)
      BY <1>1, <2>1, <2>3 DEF GoneBefore
    <2> QED BY <1>2, <2>2, <2>3 DEF GoneBefore
  <1>3. ASSUME e.kind = "result", e.items[c] = "absent"
        PROVE  GoneBefore(r, Len(q) + 1, has, u, c)
    <2>1. \A k \in 1..Len(r) : k < Len(q) + 1 => k \in 1..Len(q) /\ r[k] = q[k] BY <1>1
    <2>2. CASE \E i \in 1..Len(q) : Gone(q[i], c) /\ Quiet(q, i, c)
      <3>1. PICK i \in 1..Len(q) : Gone(q[i], c) /\ Quiet(q, i, c) BY <2>2
      <3>2. i \in 1..Len(r) /\ i < Len(q) + 1 /\ Gone(r[i], c) BY <1>1, <3>1
      <3>3. \A k \in 1..Len(r) : i < k /\ k < Len(q) + 1 => ~Turns(r[k], c)
        BY <2>1, <3>1 DEF Quiet
      <3> QED BY <3>2, <3>3 DEF GoneBefore
    <2>3. CASE Silent(q, c) /\ (has => Unlisted(u)) BY <2>1, <2>3 DEF GoneBefore, Silent
    <2> QED BY <1>3, <2>2, <2>3 DEF Unknown, LastWord, Gone, Agrees
  <1>4. AbsentStays(r, has, u, c)
    BY <1>1, <1>2, <1>3 DEF AbsentStays
  <1> QED BY <1>4 DEF r

LEMMA AppendPushes ==
    ASSUME NEW q \in Seq(Blocks), NEW e \in Blocks, NEW has, PushesAfter(q, has),
           e.kind = "push" => \/ \E j \in 1..Len(q) :
                                    /\ q[j].kind = "result"
                                    /\ \A k \in 1..Len(q) : j < k => ~Ends(q[k])
                              \/ has /\ \A k \in 1..Len(q) : ~Ends(q[k])
    PROVE  PushesAfter(Append(q, e), has)
  <1> DEFINE r == Append(q, e)
  <1>1. /\ Len(r) = Len(q) + 1 /\ Len(q) \in Nat /\ r[Len(q) + 1] = e
        /\ \A i \in 1..Len(q) : i \in 1..Len(r) /\ r[i] = q[i]
        /\ \A i \in 1..Len(r) : i \in 1..Len(q) \/ i = Len(q) + 1
    BY AppendFacts
  <1> HIDE DEF r
  <1>2. ASSUME NEW n \in 1..Len(q), RosterBefore(q, n, has) PROVE RosterBefore(r, n, has)
    <2>1. \A k \in 1..Len(r) : k < n => k \in 1..Len(q) /\ r[k] = q[k] BY <1>1
    <2> QED BY <1>1, <1>2, <2>1 DEF RosterBefore
  <1>3. ASSUME e.kind = "push" PROVE RosterBefore(r, Len(q) + 1, has)
    <2>1. \A k \in 1..Len(r) : k < Len(q) + 1 => k \in 1..Len(q) /\ r[k] = q[k] BY <1>1
    <2> QED BY <1>1, <1>3, <2>1 DEF RosterBefore
  <1>4. PushesAfter(r, has) BY <1>1, <1>2, <1>3 DEF PushesAfter
  <1> QED BY <1>4 DEF r

\* Where the server pushes, the roster of the connection is on the queue or was handled.
LEMMA RosterOfConnection ==
    ASSUME NEW q \in Seq(Blocks), NEW has, NEW u, NEW item, NEW c,
           PushesAfter(q, has), LastWord(q, has, u, item, c)
    PROVE  \/ \E j \in 1..Len(q) :
                 q[j].kind = "result" /\ \A k \in 1..Len(q) : j < k => ~Ends(q[k])
           \/ has /\ \A k \in 1..Len(q) : ~Ends(q[k])
  <1>1. CASE Silent(q, c) /\ has BY <1>1 DEF Silent, Turns
  <1>2. CASE \E i \in 1..Len(q) : Speaks(q[i], c) /\ Quiet(q, i, c)
    <2>1. PICK i \in 1..Len(q) : Speaks(q[i], c) /\ Quiet(q, i, c) BY <1>2
    <2>2. \A k \in 1..Len(q) : i < k => ~Ends(q[k]) BY <2>1 DEF Quiet, Turns
    <2>3. CASE q[i].kind = "result" BY <2>2, <2>3
    <2>4. CASE q[i].kind = "push"
      <3>1. RosterBefore(q, i, has) BY <2>4 DEF PushesAfter
      <3>2. ~Ends(q[i]) BY <2>4 DEF Ends
      <3>3. \A k \in 1..Len(q) : k < i \/ k = i \/ i < k BY <2>1
      <3>4. CASE has /\ \A k \in 1..Len(q) : k < i => ~Ends(q[k]) BY <2>2, <3>2, <3>3, <3>4
      <3>5. CASE \E j \in 1..Len(q) :
                    /\ j < i /\ q[j].kind = "result"
                    /\ \A k \in 1..Len(q) : j < k /\ k < i => ~Ends(q[k])
        BY <2>2, <3>2, <3>3, <3>5
      <3> QED BY <3>1, <3>4, <3>5 DEF RosterBefore
    <2> QED BY <2>1, <2>3, <2>4 DEF Speaks
  <1> QED BY <1>1, <1>2 DEF LastWord

-----------------------------------------------------------------------------
(* What becomes of the words about c when a block is handled, or a timer       *)
(* fires.                                                                      *)

\* The block that is handled sets c as it says, an end of the connection clears hasRoster, and
\* other blocks leave c alone but for a user that is seen.
Heeds(b, c, has, u, has2, u2) ==
    /\ Speaks(b, c) => has2 /\ Agrees(u2, Said(b, c))
    /\ Ends(b) => ~has2
    /\ ~Turns(b, c) => has2 = has /\ (u2 = u \/ (u = "absent" /\ u2 = "seen"))

LEMMA TailWords ==
    ASSUME NEW q \in Seq(Blocks), q # <<>>, NEW c, NEW item, NEW has \in BOOLEAN, NEW u,
           NEW has2 \in BOOLEAN, NEW u2, Heeds(Head(q), c, has, u, has2, u2)
    PROVE  /\ LastWord(q, has, u, item, c) => LastWord(Tail(q), has2, u2, item, c)
           /\ Unknown(q, has, u, c) => Unknown(Tail(q), has2, u2, c)
  <1> DEFINE r == Tail(q)
             h == Head(q)
  <1>1. /\ h = q[1] /\ Len(q) \in Nat /\ Len(r) = Len(q) - 1 /\ 1 \in 1..Len(q)
        /\ \A i \in 1..Len(r) : i + 1 \in 1..Len(q) /\ r[i] = q[i + 1]
        /\ \A i \in 1..Len(q) : i = 1 \/ (i - 1 \in 1..Len(r) /\ r[i - 1] = q[i])
    BY TailFacts
  <1>2. Heeds(h, c, has, u, has2, u2) OBVIOUS
  <1> HIDE DEF r, h
  <1>3. \A i \in 1..Len(q) : Quiet(q, i, c) /\ i # 1 => Quiet(r, i - 1, c)
    BY <1>1 DEF Quiet
  <1>4. Quiet(q, 1, c) => Silent(r, c) BY <1>1 DEF Quiet, Silent
  <1>5. Silent(q, c) => Silent(r, c) /\ ~Turns(h, c) BY <1>1 DEF Silent
  <1>6. ASSUME LastWord(q, has, u, item, c) PROVE LastWord(r, has2, u2, item, c)
    <2>1. CASE Silent(q, c) /\ has /\ Agrees(u, item)
      <3>1. has2 /\ Agrees(u2, item)
        BY <1>2, <1>5, <2>1 DEF Heeds, Agrees, Unlisted
      <3> QED BY <1>5, <2>1, <3>1 DEF LastWord
    <2>2. CASE \E i \in 1..Len(q) : Speaks(q[i], c) /\ Said(q[i], c) = item /\ Quiet(q, i, c)
      <3>1. PICK i \in 1..Len(q) : Speaks(q[i], c) /\ Said(q[i], c) = item /\ Quiet(q, i, c)
        BY <2>2
      <3>2. CASE i = 1 BY <1>1, <1>2, <1>4, <3>1, <3>2 DEF LastWord, Heeds
      <3>3. CASE i # 1
        <4>1. i - 1 \in 1..Len(r) /\ r[i - 1] = q[i] /\ Quiet(r, i - 1, c)
          BY <1>1, <1>3, <3>1, <3>3
        <4> QED BY <3>1, <4>1 DEF LastWord
      <3> QED BY <3>2, <3>3
    <2> QED BY <1>6, <2>1, <2>2 DEF LastWord
  <1>7. ASSUME Unknown(q, has, u, c) PROVE Unknown(r, has2, u2, c)
    <2>1. CASE Silent(q, c) /\ (has => Unlisted(u))
      <3>1. has2 => Unlisted(u2) BY <1>2, <1>5, <2>1 DEF Heeds, Unlisted
      <3> QED BY <1>5, <2>1, <3>1 DEF Unknown
    <2>2. CASE \E i \in 1..Len(q) : Ends(q[i]) /\ Quiet(q, i, c)
      <3>1. PICK i \in 1..Len(q) : Ends(q[i]) /\ Quiet(q, i, c) BY <2>2
      <3>2. CASE i = 1 BY <1>1, <1>2, <1>4, <3>1, <3>2 DEF Unknown, Heeds
      <3>3. CASE i # 1
        <4>1. i - 1 \in 1..Len(r) /\ r[i - 1] = q[i] /\ Quiet(r, i - 1, c)
          BY <1>1, <1>3, <3>1, <3>3
        <4> QED BY <3>1, <4>1 DEF Unknown
      <3> QED BY <3>2, <3>3
    <2> QED BY <1>7, <2>1, <2>2 DEF Unknown
  <1> QED BY <1>6, <1>7 DEF r

LEMMA TailAbsent ==
    ASSUME NEW q \in Seq(Blocks), q # <<>>, NEW c, NEW has \in BOOLEAN, NEW u,
           NEW has2 \in BOOLEAN, NEW u2, Heeds(Head(q), c, has, u, has2, u2),
           AbsentStays(q, has, u, c)
    PROVE  AbsentStays(Tail(q), has2, u2, c)
  <1> DEFINE r == Tail(q)
             h == Head(q)
  <1>1. /\ h = q[1] /\ Len(q) \in Nat /\ Len(r) = Len(q) - 1 /\ 1 \in 1..Len(q)
        /\ \A i \in 1..Len(r) : i + 1 \in 1..Len(q) /\ r[i] = q[i + 1]
        /\ \A i \in 1..Len(q) : i = 1 \/ (i - 1 \in 1..Len(r) /\ r[i - 1] = q[i])
    BY TailFacts
  <1>2. Heeds(h, c, has, u, has2, u2) OBVIOUS
  <1> HIDE DEF r, h
  <1>3. ASSUME NEW n \in 1..Len(r), GoneBefore(q, n + 1, has, u, c)
        PROVE  GoneBefore(r, n, has2, u2, c)
    <2>1. CASE (\A k \in 1..Len(q) : k < n + 1 => ~Turns(q[k], c)) /\ (has => Unlisted(u))
      <3>1. ~Turns(h, c) BY <1>1, <2>1
      <3>2. has2 => Unlisted(u2) BY <1>2, <2>1, <3>1 DEF Heeds, Unlisted
      <3>3. \A k \in 1..Len(r) : k < n => ~Turns(r[k], c) BY <1>1, <2>1
      <3> QED BY <3>2, <3>3 DEF GoneBefore
    <2>2. CASE \E j \in 1..Len(q) :
                  /\ j < n + 1 /\ Gone(q[j], c)
                  /\ \A k \in 1..Len(q) : j < k /\ k < n + 1 => ~Turns(q[k], c)
      <3>1. PICK j \in 1..Len(q) :
                  /\ j < n + 1 /\ Gone(q[j], c)
                  /\ \A k \in 1..Len(q) : j < k /\ k < n + 1 => ~Turns(q[k], c)
        BY <2>2
      <3>2. \A k \in 1..Len(r) : j < k + 1 /\ k < n => ~Turns(r[k], c) BY <1>1, <3>1
      <3>3. CASE j = 1
        <4>1. Gone(h, c) BY <1>1, <3>1, <3>3
        <4>2. has2 => Unlisted(u2) BY <1>2, <4>1 DEF Heeds, Gone, Agrees
        <4>3. \A k \in 1..Len(r) : k < n => ~Turns(r[k], c) BY <1>1, <3>2, <3>3
        <4> QED BY <4>2, <4>3 DEF GoneBefore
      <3>4. CASE j # 1
        <4>1. j - 1 \in 1..Len(r) /\ r[j - 1] = q[j] /\ j - 1 < n BY <1>1, <3>1, <3>4
        <4>2. \A k \in 1..Len(r) : j - 1 < k /\ k < n => ~Turns(r[k], c) BY <1>1, <3>1, <3>2
        <4> QED BY <3>1, <4>1, <4>2 DEF GoneBefore
      <3> QED BY <3>3, <3>4
    <2> QED BY <1>3, <2>1, <2>2 DEF GoneBefore
  <1>4. AbsentStays(r, has2, u2, c) BY <1>1, <1>3 DEF AbsentStays
  <1> QED BY <1>4 DEF r

\* A roster without c that is handled finds c no user if hasRoster is set.
LEMMA HeadAbsent ==
    ASSUME NEW q \in Seq(Blocks), q # <<>>, NEW c, NEW has, NEW u, AbsentStays(q, has, u, c),
           Head(q).kind = "result", Head(q).items[c] = "absent", has
    PROVE  Unlisted(u)
  <1>1. 1 \in 1..Len(q) /\ Head(q) = q[1] BY TailFacts
  <1>2. GoneBefore(q, 1, has, u, c) BY <1>1 DEF AbsentStays
  <1> QED BY <1>2 DEF GoneBefore

\* A push that is handled finds hasRoster set.
LEMMA HeadPush ==
    ASSUME NEW q \in Seq(Blocks), q # <<>>, NEW has, PushesAfter(q, has), Head(q).kind = "push"
    PROVE  has
  <1>1. 1 \in 1..Len(q) /\ Head(q) = q[1] BY TailFacts
  <1>2. RosterBefore(q, 1, has) BY <1>1 DEF PushesAfter
  <1> QED BY <1>2 DEF RosterBefore

LEMMA TailPushes ==
    ASSUME NEW q \in Seq(Blocks), q # <<>>, NEW has \in BOOLEAN, NEW has2 \in BOOLEAN,
           PushesAfter(q, has), Head(q).kind = "result" => has2, ~Ends(Head(q)) /\ has => has2
    PROVE  PushesAfter(Tail(q), has2)
  <1> DEFINE r == Tail(q)
             h == Head(q)
  <1>1. /\ h = q[1] /\ Len(q) \in Nat /\ Len(r) = Len(q) - 1 /\ 1 \in 1..Len(q)
        /\ \A i \in 1..Len(r) : i + 1 \in 1..Len(q) /\ r[i] = q[i + 1]
        /\ \A i \in 1..Len(q) : i = 1 \/ (i - 1 \in 1..Len(r) /\ r[i - 1] = q[i])
    BY TailFacts
  <1>2. (h.kind = "result" => has2) /\ (~Ends(h) /\ has => has2) OBVIOUS
  <1> HIDE DEF r, h
  <1>3. ASSUME NEW n \in 1..Len(r), RosterBefore(q, n + 1, has) PROVE RosterBefore(r, n, has2)
    <2>1. CASE has /\ \A k \in 1..Len(q) : k < n + 1 => ~Ends(q[k])
      <3>1. ~Ends(h) BY <1>1, <2>1
      <3>2. \A k \in 1..Len(r) : k < n => ~Ends(r[k]) BY <1>1, <2>1
      <3> QED BY <1>2, <2>1, <3>1, <3>2 DEF RosterBefore
    <2>2. CASE \E j \in 1..Len(q) :
                  /\ j < n + 1 /\ q[j].kind = "result"
                  /\ \A k \in 1..Len(q) : j < k /\ k < n + 1 => ~Ends(q[k])
      <3>1. PICK j \in 1..Len(q) :
                  /\ j < n + 1 /\ q[j].kind = "result"
                  /\ \A k \in 1..Len(q) : j < k /\ k < n + 1 => ~Ends(q[k])
        BY <2>2
      <3>2. \A k \in 1..Len(r) : j < k + 1 /\ k < n => ~Ends(r[k]) BY <1>1, <3>1
      <3>3. CASE j = 1
        <4>1. \A k \in 1..Len(r) : k < n => ~Ends(r[k]) BY <1>1, <3>2, <3>3
        <4> QED BY <1>1, <1>2, <3>1, <3>3, <4>1 DEF RosterBefore
      <3>4. CASE j # 1
        <4>1. j - 1 \in 1..Len(r) /\ r[j - 1] = q[j] /\ j - 1 < n BY <1>1, <3>1, <3>4
        <4>2. \A k \in 1..Len(r) : j - 1 < k /\ k < n => ~Ends(r[k]) BY <1>1, <3>1, <3>2
        <4> QED BY <3>1, <4>1, <4>2 DEF RosterBefore
      <3> QED BY <3>3, <3>4
    <2> QED BY <1>3, <2>1, <2>2 DEF RosterBefore
  <1>4. PushesAfter(r, has2) BY <1>1, <1>3 DEF PushesAfter
  <1> QED BY <1>4 DEF r

\* The timer of a fetch.
LEMMA TimerWords ==
    ASSUME NEW q \in Seq(Blocks), NEW c, NEW item, NEW has \in BOOLEAN, NEW u, NEW u2,
           has => u2 = u, ~has => Unlisted(u2)
    PROVE  /\ LastWord(q, has, u, item, c) => LastWord(q, TRUE, u2, item, c)
           /\ Unknown(q, has, u, c) => Unknown(q, TRUE, u2, c)
           /\ AbsentStays(q, has, u, c) => AbsentStays(q, TRUE, u2, c)
           /\ PushesAfter(q, has) => PushesAfter(q, TRUE)
  <1>1. LastWord(q, has, u, item, c) => LastWord(q, TRUE, u2, item, c) BY DEF LastWord
  <1>2. Unknown(q, has, u, c) => Unknown(q, TRUE, u2, c) BY DEF Unknown
  <1>3. \A n \in 1..Len(q) : GoneBefore(q, n, has, u, c) => GoneBefore(q, n, TRUE, u2, c)
    BY DEF GoneBefore
  <1>4. AbsentStays(q, has, u, c) => AbsentStays(q, TRUE, u2, c) BY <1>3 DEF AbsentStays
  <1>5. PushesAfter(q, has) => PushesAfter(q, TRUE) BY DEF PushesAfter, RosterBefore
  <1> QED BY <1>1, <1>2, <1>4, <1>5

-----------------------------------------------------------------------------
(* The stream, the application and the server.                                 *)

known == <<roster, interested, config, strangers, hasRoster, users, guessed, asked>>

LEMMA UnchangedWords ==
    ASSUME Words, UNCHANGED <<known, moduleQueue>>
    PROVE  Words'
  BY DEF Words, known, Friend, Matching

\* A block that says nothing of contacts is added to the queue.
LEMMA QuietWords ==
    ASSUME TypeOK, Words, NEW e \in Blocks, e.kind \notin {"result", "push", "didDisconnect"},
           moduleQueue' = Append(moduleQueue, e), UNCHANGED known
    PROVE  Words'
  <1>1. moduleQueue \in Seq(Blocks) BY DEF TypeOK, ModuleOK
  <1>2. \A c : ~Turns(e, c) BY DEF Turns, Speaks, Ends
  <1>3. PushesAfter(moduleQueue, hasRoster)' BY <1>1, AppendPushes DEF Words, known
  <1>4. ASSUME NEW c \in Contacts, Matching(c) PROVE Matching(c)'
    <2>1. AbsentStays(moduleQueue, hasRoster, users[c], c)' BY <1>1, <1>4, AppendAbsent DEF Matching, known
    <2>2. (interested => LastWord(moduleQueue, hasRoster, users[c], roster[c], c))'
      BY <1>1, <1>2, <1>4, AppendOther DEF Matching, known
    <2>3. (~interested => Unknown(moduleQueue, hasRoster, users[c], c))'
      BY <1>1, <1>2, <1>4, AppendOther DEF Matching, known
    <2> QED BY <2>1, <2>2, <2>3 DEF Matching
  <1>5. ASSUME NEW c \in Contacts, Friend(c) PROVE Friend(c)'
    <2>1. \A i \in 1..Len(moduleQueue') :
             (i \in 1..Len(moduleQueue) /\ moduleQueue'[i] = moduleQueue[i]) \/ moduleQueue'[i] = e
      BY <1>1, AppendFacts
    <2> QED BY <1>2, <1>5, <2>1 DEF Friend, known, Turns
  <1> QED BY <1>3, <1>4, <1>5 DEF Words, known

LEMMA OutsideInv ==
    ASSUME Inv, Outside, moduleQueue' \in Seq(Blocks)
    PROVE  KeptIsTimed' /\ ModuleOK' /\ StoreOK'
  <1>1. KeptIsTimed' BY DEF Inv, KeptIsTimed, Outside, moduleVars
  <1>2. ModuleOK' BY DEF Inv, TypeOK, ModuleOK, Outside, moduleVars, toldVars
  <1>3. StoreOK' BY DEF Inv, TypeOK, StoreOK, Outside, storeVars
  <1> QED BY <1>1, <1>2, <1>3

LEMMA PostsInv ==
    ASSUME Inv, Outside, NEW e \in Blocks, moduleQueue' = Append(moduleQueue, e)
    PROVE  KeptIsTimed' /\ ModuleOK' /\ StoreOK'
  <1>1. moduleQueue' \in Seq(Blocks) BY AppendFacts DEF Inv, TypeOK, ModuleOK
  <1> QED BY <1>1, OutsideInv

LEMMA StaysInv ==
    ASSUME Inv, Outside, UNCHANGED <<roster, interested, strangers, moduleQueue>>
    PROVE  KeptIsTimed' /\ ModuleOK' /\ StoreOK' /\ Words'
  <1>1. KeptIsTimed' /\ ModuleOK' /\ StoreOK' BY OutsideInv DEF Inv, TypeOK, ModuleOK
  <1>2. Words' BY UnchangedWords DEF Inv, Outside, known, moduleVars, storeVars, toldVars
  <1> QED BY <1>1, <1>2

LEMMA DidAuthenticateInv == ASSUME Inv, DidAuthenticate PROVE Inv'
  <1>1. PICK e \in Blocks : /\ e.kind \notin {"result", "push", "didDisconnect"}
                            /\ moduleQueue' = Append(moduleQueue, e)
    BY BlockKinds DEF DidAuthenticate, Posts
  <1>2. Words'
    BY <1>1, QuietWords DEF Inv, DidAuthenticate, Outside, known, serverVars, moduleVars, storeVars, toldVars
  <1>3. KeptIsTimed' /\ ModuleOK' /\ StoreOK' BY <1>1, PostsInv DEF DidAuthenticate
  <1>4. StreamOK' BY DEF Inv, TypeOK, StreamOK, DidAuthenticate, serverVars, streamVars
  <1>5. ServerOK' BY DEF Inv, TypeOK, ServerOK, DidAuthenticate, serverVars
  <1> QED BY <1>2, <1>3, <1>4, <1>5 DEF Inv, TypeOK

LEMMA SendUnavailableInv == ASSUME Inv, SendUnavailable PROVE Inv'
  <1>1. PICK e \in Blocks : /\ e.kind \notin {"result", "push", "didDisconnect"}
                            /\ moduleQueue' = Append(moduleQueue, e)
    BY BlockKinds DEF SendUnavailable, Posts
  <1>2. Words'
    BY <1>1, QuietWords DEF Inv, SendUnavailable, Outside, known, serverVars, moduleVars, storeVars, toldVars
  <1>3. KeptIsTimed' /\ ModuleOK' /\ StoreOK' BY <1>1, PostsInv DEF SendUnavailable
  <1>4. StreamOK' BY DEF Inv, TypeOK, StreamOK, SendUnavailable, serverVars, streamVars
  <1>5. ServerOK' BY DEF Inv, TypeOK, ServerOK, SendUnavailable, serverVars, Changes
  <1> QED BY <1>2, <1>3, <1>4, <1>5 DEF Inv, TypeOK

LEMMA FetchRosterInv == ASSUME Inv, FetchRoster PROVE Inv'
  <1>1. PICK e \in Blocks : /\ e.kind \notin {"result", "push", "didDisconnect"}
                            /\ moduleQueue' = Append(moduleQueue, e)
    BY BlockKinds DEF FetchRoster, Posts
  <1>2. Words'
    BY <1>1, QuietWords DEF Inv, FetchRoster, Outside, known, serverVars, moduleVars, storeVars, toldVars
  <1>3. KeptIsTimed' /\ ModuleOK' /\ StoreOK' BY <1>1, PostsInv DEF FetchRoster
  <1>4. StreamOK' BY DEF Inv, TypeOK, StreamOK, FetchRoster, serverVars, streamVars
  <1>5. ServerOK' BY DEF Inv, TypeOK, ServerOK, FetchRoster, serverVars, Changes
  <1> QED BY <1>2, <1>3, <1>4, <1>5 DEF Inv, TypeOK

LEMMA ServerSendsPresenceInv == ASSUME Inv, NEW c \in Contacts, ServerSendsPresence(c) PROVE Inv'
  <1>1. PICK e \in Blocks : /\ e.kind \notin {"result", "push", "didDisconnect"}
                            /\ moduleQueue' = Append(moduleQueue, e)
    BY BlockKinds DEF ServerSendsPresence, Posts
  <1>2. Words'
    BY <1>1, QuietWords DEF Inv, ServerSendsPresence, Outside, known, serverVars, moduleVars, storeVars, toldVars
  <1>3. KeptIsTimed' /\ ModuleOK' /\ StoreOK' BY <1>1, PostsInv DEF ServerSendsPresence
  <1>4. StreamOK' BY DEF Inv, TypeOK, StreamOK, ServerSendsPresence, serverVars, streamVars
  <1>5. ServerOK' BY DEF Inv, TypeOK, ServerOK, ServerSendsPresence, serverVars
  <1> QED BY <1>2, <1>3, <1>4, <1>5 DEF Inv, TypeOK

LEMMA ServerSendsRequestInv == ASSUME Inv, NEW c \in Contacts, ServerSendsRequest(c) PROVE Inv'
  <1>1. PICK e \in Blocks : /\ e.kind \notin {"result", "push", "didDisconnect"}
                            /\ moduleQueue' = Append(moduleQueue, e)
    BY BlockKinds DEF ServerSendsRequest, Posts
  <1>2. Words'
    BY <1>1, QuietWords DEF Inv, ServerSendsRequest, Outside, known, serverVars, moduleVars, storeVars, toldVars
  <1>3. KeptIsTimed' /\ ModuleOK' /\ StoreOK' BY <1>1, PostsInv DEF ServerSendsRequest
  <1>4. StreamOK' BY DEF Inv, TypeOK, StreamOK, ServerSendsRequest, serverVars, streamVars
  <1>5. ServerOK' BY DEF Inv, TypeOK, ServerOK, ServerSendsRequest, serverVars, Changes
  <1> QED BY <1>2, <1>3, <1>4, <1>5 DEF Inv, TypeOK

LEMMA ServerSendsAnswerInv == ASSUME Inv, NEW c \in Contacts, ServerSendsAnswer(c) PROVE Inv'
  <1>1. PICK e \in Blocks : /\ e.kind \notin {"result", "push", "didDisconnect"}
                            /\ moduleQueue' = Append(moduleQueue, e)
    BY BlockKinds DEF ServerSendsAnswer, Posts
  <1>2. Words'
    BY <1>1, QuietWords DEF Inv, ServerSendsAnswer, Outside, known, serverVars, moduleVars, storeVars, toldVars
  <1>3. KeptIsTimed' /\ ModuleOK' /\ StoreOK' BY <1>1, PostsInv DEF ServerSendsAnswer
  <1>4. StreamOK' BY DEF Inv, TypeOK, StreamOK, ServerSendsAnswer, serverVars, streamVars
  <1>5. ServerOK' BY DEF Inv, TypeOK, ServerOK, ServerSendsAnswer, serverVars, Changes
  <1> QED BY <1>2, <1>3, <1>4, <1>5 DEF Inv, TypeOK

LEMMA SendAvailableInv == ASSUME Inv, SendAvailable PROVE Inv'
  <1>1. KeptIsTimed' /\ ModuleOK' /\ StoreOK' /\ Words' BY StaysInv DEF SendAvailable, serverVars
  <1>2. StreamOK' BY DEF Inv, TypeOK, StreamOK, SendAvailable, serverVars, streamVars
  <1>3. ServerOK' BY DEF Inv, TypeOK, ServerOK, SendAvailable, serverVars
  <1> QED BY <1>1, <1>2, <1>3 DEF Inv, TypeOK

LEMMA ServerSeesPresenceInv == ASSUME Inv, ServerSeesPresence PROVE Inv'
  <1>1. KeptIsTimed' /\ ModuleOK' /\ StoreOK' /\ Words' BY StaysInv DEF ServerSeesPresence, serverVars
  <1>2. StreamOK' BY DEF Inv, TypeOK, StreamOK, ServerSeesPresence, serverVars, streamVars
  <1>3. ServerOK' BY DEF Inv, TypeOK, ServerOK, ServerSeesPresence, serverVars
  <1> QED BY <1>1, <1>2, <1>3 DEF Inv, TypeOK

LEMMA ContactComesOrGoesInv == ASSUME Inv, NEW c \in Contacts, ContactComesOrGoes(c) PROVE Inv'
  <1>1. KeptIsTimed' /\ ModuleOK' /\ StoreOK' /\ Words' BY StaysInv DEF ContactComesOrGoes, serverVars
  <1>2. StreamOK' BY DEF Inv, TypeOK, StreamOK, ContactComesOrGoes, serverVars, streamVars
  <1>3. ServerOK' BY DEF Inv, TypeOK, ServerOK, ContactComesOrGoes, serverVars, Changes
  <1> QED BY <1>1, <1>2, <1>3 DEF Inv, TypeOK

\* The end of the connection is the last word about everyone.
LEMMA DidDisconnectInv == ASSUME Inv, DidDisconnect PROVE Inv'
  <1> DEFINE e == Event("didDisconnect")
  <1>1. e \in Blocks /\ e.kind = "didDisconnect" BY BlockKinds
  <1> HIDE DEF e
  <1>2. moduleQueue \in Seq(Blocks) /\ moduleQueue' = Append(moduleQueue, e)
    BY DEF e, Inv, TypeOK, ModuleOK, DidDisconnect, Posts
  <1>3. /\ UNCHANGED <<roster, config, strangers, hasRoster, users, guessed, asked>>
        /\ interested' = FALSE
    BY DEF DidDisconnect, Outside, moduleVars, storeVars, toldVars
  <1>4. KeptIsTimed' /\ ModuleOK' /\ StoreOK' BY <1>1, <1>2, PostsInv DEF DidDisconnect
  <1>5. StreamOK' BY DEF Inv, TypeOK, StreamOK, DidDisconnect
  <1>6. ServerOK' BY DEF Inv, TypeOK, ServerOK, DidDisconnect
  <1>7. PushesAfter(moduleQueue, hasRoster)' BY <1>1, <1>2, <1>3, AppendPushes DEF Inv, Words
  <1>8. ASSUME NEW c \in Contacts, Matching(c) PROVE Matching(c)'
    <2>1. AbsentStays(moduleQueue, hasRoster, users[c], c)'
      BY <1>1, <1>2, <1>3, <1>8, AppendAbsent DEF Matching
    <2>2. Unknown(moduleQueue, hasRoster, users[c], c)' BY <1>1, <1>2, <1>3, AppendEnd DEF Ends
    <2> QED BY <1>3, <2>1, <2>2 DEF Matching
  <1>9. ASSUME NEW c \in Contacts, Friend(c) PROVE Friend(c)'
    <2>1. \A i \in 1..Len(moduleQueue') :
             (i \in 1..Len(moduleQueue) /\ moduleQueue'[i] = moduleQueue[i]) \/ moduleQueue'[i] = e
      BY <1>1, <1>2, AppendFacts
    <2> QED BY <1>1, <1>3, <1>9, <2>1 DEF Friend, Speaks
  <1>10. Words' BY <1>3, <1>7, <1>8, <1>9 DEF Inv, Words
  <1> QED BY <1>4, <1>5, <1>6, <1>10 DEF Inv, TypeOK

\* A roster is the last word about everyone.
LEMMA ServerAnswersFetchInv == ASSUME Inv, NEW id \in Ids, ServerAnswersFetch(id) PROVE Inv'
  <1> DEFINE e == Result(id, roster)
  <1>1. e \in Blocks /\ e.kind = "result" /\ e.items = roster
    BY BlockKinds DEF Inv, TypeOK, ServerOK
  <1> HIDE DEF e
  <1>2. moduleQueue \in Seq(Blocks) /\ moduleQueue' = Append(moduleQueue, e)
    BY DEF e, Inv, TypeOK, ModuleOK, ServerAnswersFetch, Posts
  <1>3. /\ UNCHANGED <<roster, config, strangers, hasRoster, users, guessed, asked>>
        /\ interested' = TRUE /\ interested \in BOOLEAN
    BY DEF Inv, TypeOK, StreamOK, ServerAnswersFetch, Outside, moduleVars, storeVars, toldVars
  <1>4. KeptIsTimed' /\ ModuleOK' /\ StoreOK' BY <1>1, <1>2, PostsInv DEF ServerAnswersFetch
  <1>5. StreamOK' BY DEF Inv, TypeOK, StreamOK, ServerAnswersFetch, streamVars
  <1>6. ServerOK' BY DEF Inv, TypeOK, ServerOK, ServerAnswersFetch
  <1>7. PushesAfter(moduleQueue, hasRoster)' BY <1>1, <1>2, <1>3, AppendPushes DEF Inv, Words
  <1>8. ASSUME NEW c \in Contacts, Matching(c) PROVE Matching(c)'
    <2>1. roster[c] = "absent" =>
             \/ Unknown(moduleQueue, hasRoster, users[c], c)
             \/ LastWord(moduleQueue, hasRoster, users[c], "absent", c)
      BY <1>3, <1>8 DEF Matching
    <2>2. AbsentStays(moduleQueue, hasRoster, users[c], c)'
      BY <1>1, <1>2, <1>3, <1>8, <2>1, AppendAbsent DEF Matching
    <2>3. Speaks(e, c) /\ Said(e, c) = roster[c] BY <1>1 DEF Speaks, Said
    <2>4. LastWord(moduleQueue, hasRoster, users[c], roster[c], c)'
      BY <1>1, <1>2, <1>3, <2>3, AppendSaid
    <2> QED BY <1>3, <2>2, <2>4 DEF Matching
  <1>9. ASSUME NEW c \in Contacts, Friend(c) PROVE Friend(c)'
    <2>1. \A i \in 1..Len(moduleQueue') :
             (i \in 1..Len(moduleQueue) /\ moduleQueue'[i] = moduleQueue[i]) \/ moduleQueue'[i] = e
      BY <1>1, <1>2, AppendFacts
    <2>2. Speaks(e, c) => Said(e, c) = "both" BY <1>1, <1>9 DEF Friend, Said
    <2> QED BY <1>1, <1>3, <1>9, <2>1, <2>2 DEF Friend
  <1>10. Words' BY <1>3, <1>7, <1>8, <1>9 DEF Inv, Words
  <1> QED BY <1>4, <1>5, <1>6, <1>10 DEF Inv, TypeOK

\* The words on a queue to which a presence is added, or not.
LEMMA WithPresence ==
    ASSUME NEW q \in Seq(Blocks), NEW p \in Blocks, p.kind = "presence",
           NEW r, r = q \/ r = Append(q, p)
    PROVE  /\ r \in Seq(Blocks)
           /\ \A has : PushesAfter(q, has) => PushesAfter(r, has)
           /\ \A has, u, item, c :
                 /\ LastWord(q, has, u, item, c) => LastWord(r, has, u, item, c)
                 /\ Unknown(q, has, u, c) => Unknown(r, has, u, c)
                 /\ AbsentStays(q, has, u, c) => AbsentStays(r, has, u, c)
           /\ \A i \in 1..Len(r) : (i \in 1..Len(q) /\ r[i] = q[i]) \/ r[i] = p
  <1>1. CASE r = q BY <1>1
  <1>2. CASE r = Append(q, p)
    <2>1. \A c : ~Turns(p, c) BY DEF Turns, Speaks, Ends
    <2>2. r \in Seq(Blocks) /\ \A i \in 1..Len(r) : (i \in 1..Len(q) /\ r[i] = q[i]) \/ r[i] = p
      BY <1>2, AppendFacts
    <2>3. ASSUME NEW has, PushesAfter(q, has) PROVE PushesAfter(r, has)
      BY <1>2, <2>3, AppendPushes
    <2>4. ASSUME NEW has, NEW u, NEW item, NEW c
          PROVE  /\ LastWord(q, has, u, item, c) => LastWord(r, has, u, item, c)
                 /\ Unknown(q, has, u, c) => Unknown(r, has, u, c)
                 /\ AbsentStays(q, has, u, c) => AbsentStays(r, has, u, c)
      BY <1>2, <2>1, AppendOther, AppendAbsent
    <2> QED BY <2>2, <2>3, <2>4
  <1> QED BY <1>1, <1>2

LEMMA Concatenated ==
    ASSUME NEW S, NEW q \in Seq(S), NEW e \in S
    PROVE  q \o <<>> = q /\ q \o <<e>> = Append(q, e)
  OBVIOUS

\* A change of the roster on the server is the last word about its contact where the server
\* pushes, and nothing is known of the contact where it does not.
LEMMA RosterChangesInv ==
    ASSUME Inv, NEW d \in Contacts, NEW new \in Items, RosterChanges(d, new)
    PROVE  Inv'
  <1> DEFINE q == moduleQueue
             p == Presence("unavailable", d)
             e == Push(d, new)
             r == q \o (IF available /\ roster[d] = "both" THEN <<p>> ELSE <<>>)
  <1>1. /\ p \in Blocks /\ p.kind = "presence"
        /\ e \in Blocks /\ e.kind = "push" /\ e.jid = d /\ e.item = new
    BY BlockKinds
  <1>2. q \in Seq(Blocks) BY DEF Inv, TypeOK, ModuleOK
  <1>3. r = q \/ r = Append(q, p) BY <1>1, <1>2, Concatenated
  <1>4. r \in Seq(Blocks) BY <1>1, <1>2, <1>3, WithPresence
  <1>5. moduleQueue' = IF interested THEN Append(r, e) ELSE r
    BY <1>1, <1>4, Concatenated DEF RosterChanges
  <1> HIDE DEF p, e, r
  <1>6. UNCHANGED <<interested, config, hasRoster, users, guessed, asked>>
    BY DEF RosterChanges, Outside, moduleVars, storeVars, toldVars
  <1>7. /\ new # roster[d] /\ roster' = [roster EXCEPT ![d] = new]
        /\ strangers' = IF new = "both" THEN strangers ELSE strangers \cup {d}
    BY DEF RosterChanges
  <1>8. roster \in [Contacts -> Items] BY DEF Inv, TypeOK, ServerOK
  <1>9. moduleQueue' \in Seq(Blocks) BY <1>1, <1>4, <1>5, AppendFacts
  <1>10. KeptIsTimed' /\ ModuleOK' /\ StoreOK' BY <1>9, OutsideInv DEF RosterChanges
  <1>11. StreamOK' BY DEF Inv, TypeOK, StreamOK, RosterChanges, streamVars
  <1>12. ServerOK' BY DEF Inv, TypeOK, ServerOK, RosterChanges, Changes
  <1>13. PushesAfter(moduleQueue, hasRoster)'
    <2>1. PushesAfter(r, hasRoster) BY <1>1, <1>2, <1>3, WithPresence DEF Inv, Words
    <2>2. CASE ~interested BY <1>5, <1>6, <2>1, <2>2
    <2>3. CASE interested
      <3>1. LastWord(q, hasRoster, users[d], roster[d], d) BY <2>3 DEF Inv, Words, Matching
      <3>2. LastWord(r, hasRoster, users[d], roster[d], d)
        BY <1>1, <1>2, <1>3, <3>1, WithPresence
      <3> QED BY <1>1, <1>4, <1>5, <1>6, <2>1, <2>3, <3>2, RosterOfConnection, AppendPushes
    <2> QED BY <2>2, <2>3
  <1>14. ASSUME NEW c \in Contacts PROVE Matching(c)'
    <2>1. Matching(c) BY DEF Inv, Words
    <2>2. /\ interested => LastWord(r, hasRoster, users[c], roster[c], c)
          /\ ~interested => Unknown(r, hasRoster, users[c], c)
          /\ AbsentStays(r, hasRoster, users[c], c)
      BY <1>1, <1>2, <1>3, <2>1, WithPresence DEF Matching
    <2>3. AbsentStays(moduleQueue, hasRoster, users[c], c)'
      BY <1>1, <1>4, <1>5, <1>6, <2>2, AppendAbsent
    <2>4. CASE ~interested BY <1>5, <1>6, <2>2, <2>3, <2>4 DEF Matching
    <2>5. CASE interested /\ c = d
      <3>1. Speaks(e, c) /\ Said(e, c) = roster'[c]
        BY <1>1, <1>7, <1>8, <2>5 DEF Speaks, Said
      <3>2. LastWord(moduleQueue, hasRoster, users[c], roster[c], c)'
        BY <1>1, <1>4, <1>5, <1>6, <2>5, <3>1, AppendSaid
      <3> QED BY <1>6, <2>3, <2>5, <3>2 DEF Matching
    <2>6. CASE interested /\ c # d
      <3>1. ~Turns(e, c) /\ roster'[c] = roster[c]
        BY <1>1, <1>7, <1>8, <2>6 DEF Turns, Speaks, Ends
      <3>2. LastWord(moduleQueue, hasRoster, users[c], roster[c], c)'
        BY <1>1, <1>4, <1>5, <1>6, <2>2, <2>6, <3>1, AppendOther
      <3> QED BY <1>6, <2>3, <2>6, <3>2 DEF Matching
    <2> QED BY <2>4, <2>5, <2>6
  <1>15. ASSUME NEW c \in Contacts \ strangers' PROVE Friend(c)'
    <2>1. Friend(c) BY <1>7 DEF Inv, Words
    <2>2. roster'[c] = "both" BY <1>7, <1>8, <2>1 DEF Friend
    <2>3. Speaks(e, c) => c = d /\ new = "both" BY <1>1, <1>7 DEF Speaks
    <2>4. ~Speaks(e, c) BY <1>7, <2>1, <2>3 DEF Friend
    <2>5. ~Speaks(p, c) BY <1>1 DEF Speaks
    <2>6. \A i \in 1..Len(r) : (i \in 1..Len(q) /\ r[i] = q[i]) \/ r[i] = p
      BY <1>1, <1>2, <1>3, WithPresence
    <2>7. \A i \in 1..Len(moduleQueue') :
             (i \in 1..Len(r) /\ moduleQueue'[i] = r[i]) \/ moduleQueue'[i] = e
      BY <1>1, <1>4, <1>5, AppendFacts
    <2>8. \A i \in 1..Len(moduleQueue') :
             Speaks(moduleQueue'[i], c) => Said(moduleQueue'[i], c) = "both"
      BY <2>1, <2>4, <2>5, <2>6, <2>7 DEF Friend
    <2> QED BY <1>6, <2>1, <2>2, <2>8 DEF Friend
  <1>16. Words' BY <1>13, <1>14, <1>15 DEF Words
  <1> QED BY <1>10, <1>11, <1>12, <1>16 DEF Inv, TypeOK

-----------------------------------------------------------------------------
(* The handlers of XMPPRoster.                                                 *)

LEMMA TakenFacts ==
    ASSUME TypeOK, NEW kind, Taking(kind)
    PROVE  /\ moduleQueue \in Seq(Blocks) /\ moduleQueue # <<>>
           /\ Head(moduleQueue) \in Blocks /\ Head(moduleQueue).kind = kind
           /\ moduleQueue' = Tail(moduleQueue) /\ moduleQueue' \in Seq(Blocks)
  <1>1. moduleQueue \in Seq(Blocks) BY DEF TypeOK, ModuleOK
  <1> QED BY <1>1, TailFacts DEF Taking

LEMMA TakenWords ==
    ASSUME Inv, moduleQueue # <<>>, moduleQueue' = Tail(moduleQueue), Inside,
           hasRoster' \in BOOLEAN,
           Head(moduleQueue).kind = "result" => hasRoster',
           ~Ends(Head(moduleQueue)) /\ hasRoster => hasRoster',
           \A c \in Contacts :
              Heeds(Head(moduleQueue), c, hasRoster, users[c], hasRoster', users'[c]),
           \A c \in Contacts \ strangers :
              ~config.rosterless /\ ~guessed' => c \notin asked' /\ (hasRoster' => users'[c] = "both")
    PROVE  Words'
  <1>1. moduleQueue \in Seq(Blocks) /\ hasRoster \in BOOLEAN BY DEF Inv, TypeOK, ModuleOK
  <1>2. UNCHANGED <<roster, interested, config, strangers>> BY DEF Inside
  <1>3. PushesAfter(moduleQueue, hasRoster)' BY <1>1, TailPushes DEF Inv, Words
  <1>4. ASSUME NEW c \in Contacts PROVE Matching(c)'
    <2>1. Matching(c) BY DEF Inv, Words
    <2>2. Heeds(Head(moduleQueue), c, hasRoster, users[c], hasRoster', users'[c]) OBVIOUS
    <2>3. AbsentStays(moduleQueue, hasRoster, users[c], c)'
      BY <1>1, <2>1, <2>2, TailAbsent DEF Matching
    <2>4. (interested => LastWord(moduleQueue, hasRoster, users[c], roster[c], c))'
      BY <1>1, <1>2, <2>1, <2>2, TailWords DEF Matching
    <2>5. (~interested => Unknown(moduleQueue, hasRoster, users[c], c))'
      BY <1>1, <1>2, <2>1, <2>2, TailWords DEF Matching
    <2> QED BY <2>3, <2>4, <2>5 DEF Matching
  <1>5. ASSUME NEW c \in Contacts \ strangers PROVE Friend(c)'
    <2>1. Friend(c) BY DEF Inv, Words
    <2>2. \A i \in 1..Len(moduleQueue') :
             i + 1 \in 1..Len(moduleQueue) /\ moduleQueue'[i] = moduleQueue[i + 1]
      BY <1>1, TailFacts
    <2>3. \A i \in 1..Len(moduleQueue') :
             Speaks(moduleQueue'[i], c) => Said(moduleQueue'[i], c) = "both"
      BY <2>1, <2>2 DEF Friend
    <2> QED BY <1>2, <2>1, <2>3 DEF Friend
  <1> QED BY <1>2, <1>3, <1>4, <1>5 DEF Words

LEMMA InsideInv ==
    ASSUME TypeOK, Inside, asks' \subseteq Ids, ~up => asks' = {}
    PROVE  StreamOK' /\ ServerOK'
  <1>1. StreamOK' BY DEF TypeOK, StreamOK, Inside, streamVars
  <1>2. ServerOK' BY DEF TypeOK, ServerOK, Inside
  <1> QED BY <1>1, <1>2

\* Blocks that leave the users and hasRoster alone.
LEMMA IdleWords ==
    ASSUME Inv, NEW kind, kind \notin {"result", "push", "didDisconnect"}, Taking(kind), Inside,
           UNCHANGED <<hasRoster, users, toldVars>>
    PROVE  Words'
  <1>1. moduleQueue # <<>> /\ Head(moduleQueue).kind = kind /\ moduleQueue' = Tail(moduleQueue)
    BY DEF Taking
  <1>2. hasRoster' \in BOOLEAN /\ UNCHANGED <<hasRoster, users, guessed, asked>>
    BY DEF Inv, TypeOK, ModuleOK, toldVars
  <1>3. \A c : ~Turns(Head(moduleQueue), c) BY <1>1 DEF Turns, Speaks, Ends
  <1>4. \A c : Heeds(Head(moduleQueue), c, hasRoster, users[c], hasRoster', users'[c])
    BY <1>2, <1>3 DEF Heeds, Turns
  <1>5. \A c \in Contacts \ strangers :
           ~config.rosterless /\ ~guessed' => c \notin asked' /\ (hasRoster' => users'[c] = "both")
    BY <1>2 DEF Inv, Words, Friend
  <1> QED BY <1>1, <1>2, <1>4, <1>5, TakenWords

\* A fetch starts its timer.
LEMMA FetchInv ==
    ASSUME Inv, NEW kind \in {"didAuthenticate", "fetch"}, Taking(kind),
           FetchRosterVersion \/ UNCHANGED <<requestedRoster, armed, asks>>,
           UNCHANGED <<hasRoster, earlyPresenceElements, storeVars, toldVars>>, Inside
    PROVE  Inv'
  <1>1. Words' BY IdleWords DEF storeVars
  <1>2. \/ UNCHANGED <<requestedRoster, armed, asks>>
        \/ \E id \in Ids : /\ requestedRoster' = TRUE /\ armed' = armed \cup {id}
                           /\ asks' = IF up THEN asks \cup {id} ELSE asks
    BY DEF FetchRosterVersion, NewIds, Fresh
  <1>3. asks' \subseteq Ids /\ (~up => asks' = {}) BY <1>2 DEF Inv, TypeOK, StreamOK
  <1>4. StreamOK' /\ ServerOK' BY <1>3, InsideInv DEF Inv
  <1>5. KeptIsTimed' BY <1>2 DEF Inv, KeptIsTimed
  <1>6. armed' \subseteq Ids /\ requestedRoster' \in BOOLEAN BY <1>2 DEF Inv, TypeOK, ModuleOK
  <1>7. ModuleOK' BY <1>6, TakenFacts DEF Inv, TypeOK, ModuleOK, toldVars, Inside
  <1>8. StoreOK' BY DEF Inv, TypeOK, StoreOK, storeVars
  <1> QED BY <1>1, <1>4, <1>5, <1>7, <1>8 DEF Inv, TypeOK

LEMMA HandleDidAuthenticateInv == ASSUME Inv, HandleDidAuthenticate PROVE Inv'
  BY FetchInv DEF HandleDidAuthenticate

LEMMA HandleFetchInv == ASSUME Inv, HandleFetch PROVE Inv'
  BY FetchInv DEF HandleFetch

LEMMA HandleDidSendUnavailableInv == ASSUME Inv, HandleDidSendUnavailable PROVE Inv'
  <1>1. Words' BY IdleWords DEF HandleDidSendUnavailable
  <1>2. StreamOK' /\ ServerOK'
    BY InsideInv DEF Inv, TypeOK, StreamOK, HandleDidSendUnavailable
  <1>3. KeptIsTimed' BY DEF Inv, KeptIsTimed, HandleDidSendUnavailable
  <1>4. ModuleOK'
    BY TakenFacts DEF Inv, TypeOK, ModuleOK, HandleDidSendUnavailable, toldVars, Inside
  <1>5. StoreOK' BY DEF Inv, TypeOK, StoreOK, HandleDidSendUnavailable
  <1> QED BY <1>1, <1>2, <1>3, <1>4, <1>5 DEF Inv, TypeOK

LEMMA HandleDidDisconnectInv == ASSUME Inv, HandleDidDisconnect PROVE Inv'
  <1>1. /\ moduleQueue # <<>> /\ Head(moduleQueue).kind = "didDisconnect"
        /\ moduleQueue' = Tail(moduleQueue) /\ Inside
        /\ requestedRoster' = FALSE /\ hasRoster' = FALSE /\ earlyPresenceElements' = <<>>
        /\ resources' = {} /\ bareResources' = {}
        /\ guessed' = FALSE /\ asked' = {} /\ UNCHANGED <<asks, armed>>
        /\ users' = IF config.autoClear THEN NoItems ELSE users
    BY DEF HandleDidDisconnect, Taking, Forgets
  <1>2. Ends(Head(moduleQueue)) /\ \A c : ~Speaks(Head(moduleQueue), c)
    BY <1>1 DEF Ends, Speaks
  <1>3. \A c : Heeds(Head(moduleQueue), c, hasRoster, users[c], hasRoster', users'[c])
    BY <1>1, <1>2 DEF Heeds, Turns
  <1>4. Words' BY <1>1, <1>2, <1>3, TakenWords
  <1>5. StreamOK' /\ ServerOK' BY <1>1, InsideInv DEF Inv, TypeOK, StreamOK
  <1>6. KeptIsTimed' BY <1>1 DEF KeptIsTimed
  <1>7. moduleQueue' \in Seq(Blocks) BY TakenFacts DEF Inv, HandleDidDisconnect
  <1>8. ModuleOK'
    <2>1. earlyPresenceElements' \in Seq(Presences) /\ asked' \subseteq Contacts BY <1>1
    <2>2. requestedRoster' \in BOOLEAN /\ hasRoster' \in BOOLEAN /\ guessed' \in BOOLEAN BY <1>1
    <2>3. config' \in Configs /\ armed' \subseteq Ids
      BY <1>1 DEF Inv, TypeOK, ModuleOK, Inside
    <2> QED BY <1>7, <2>1, <2>2, <2>3 DEF ModuleOK
  <1>9. users' \in [Contacts -> Items \cup {"seen"}]
    BY <1>1 DEF Inv, TypeOK, StoreOK, NoItems, Items
  <1>10. StoreOK' BY <1>1, <1>9 DEF StoreOK
  <1> QED BY <1>4, <1>5, <1>6, <1>8, <1>10 DEF Inv, TypeOK

LEMMA HandlePushInv == ASSUME Inv, HandlePush PROVE Inv'
  <1> DEFINE b == Head(moduleQueue)
  <1>1. /\ moduleQueue # <<>> /\ b.kind = "push" /\ moduleQueue' = Tail(moduleQueue) /\ Inside
        /\ UNCHANGED <<asks, moduleVars, toldVars>>
    BY DEF HandlePush, Taking
  <1>2. moduleQueue \in Seq(Blocks) /\ b \in Blocks /\ moduleQueue' \in Seq(Blocks)
    BY TakenFacts DEF Inv, HandlePush
  <1>3. b.jid \in Contacts /\ b.item \in Items BY <1>1, <1>2, KindsOfBlocks
  <1>4. hasRoster BY <1>1, <1>2, HeadPush DEF Inv, Words
  <1>5. /\ users' = [users EXCEPT ![b.jid] = b.item]
        /\ resources' = IF b.item = "absent" THEN resources \ {b.jid} ELSE resources
        /\ bareResources' = IF b.item = "absent" THEN bareResources \ {b.jid} ELSE bareResources
    BY <1>4 DEF HandlePush
  <1> HIDE DEF b
  <1>6. users \in [Contacts -> Items \cup {"seen"}] BY DEF Inv, TypeOK, StoreOK
  <1>7. StoreOK' BY <1>3, <1>5, <1>6 DEF Inv, TypeOK, StoreOK
  <1>8. UNCHANGED <<hasRoster, requestedRoster, earlyPresenceElements, armed, guessed, asked>>
        /\ hasRoster' \in BOOLEAN
    BY <1>1 DEF Inv, TypeOK, ModuleOK, moduleVars, toldVars
  <1>9. ASSUME NEW c \in Contacts PROVE Heeds(b, c, hasRoster, users[c], hasRoster', users'[c])
    <2>1. ~Ends(b) /\ (Speaks(b, c) <=> b.jid = c) BY <1>1 DEF b, Ends, Speaks
    <2>2. CASE b.jid = c
      <3>1. Said(b, c) = b.item /\ users'[c] = b.item BY <1>1, <1>5, <1>6, <2>2 DEF b, Said
      <3>2. Agrees(users'[c], Said(b, c)) BY <3>1 DEF Agrees, Unlisted
      <3> QED BY <1>4, <1>8, <2>1, <2>2, <3>2 DEF Heeds, Turns
    <2>3. CASE b.jid # c
      <3>1. users'[c] = users[c] BY <1>5, <1>6, <2>3
      <3> QED BY <1>8, <2>1, <2>3, <3>1 DEF Heeds
    <2> QED BY <2>2, <2>3
  <1>10. ASSUME NEW c \in Contacts \ strangers, ~config.rosterless, ~guessed'
         PROVE  c \notin asked' /\ (hasRoster' => users'[c] = "both")
    <2>1. Friend(c) BY DEF Inv, Words
    <2>2. c \notin asked /\ users[c] = "both" BY <1>4, <1>8, <1>10, <2>1 DEF Friend
    <2>3. 1 \in 1..Len(moduleQueue) /\ b = moduleQueue[1] BY <1>1, <1>2, TailFacts DEF b
    <2>4. b.jid = c => b.item = "both"
      BY <1>1, <2>1, <2>3 DEF Friend, Speaks, Said, b
    <2> QED BY <1>5, <1>6, <1>8, <2>2, <2>4
  <1>11. Words' BY <1>1, <1>4, <1>8, <1>9, <1>10, TakenWords DEF b, Ends
  <1>12. StreamOK' /\ ServerOK' BY <1>1, InsideInv DEF Inv, TypeOK, StreamOK
  <1>13. KeptIsTimed' BY <1>8 DEF Inv, KeptIsTimed
  <1>14. ModuleOK' BY <1>1, <1>2, <1>8 DEF Inv, TypeOK, ModuleOK, Inside
  <1> QED BY <1>7, <1>11, <1>12, <1>13, <1>14 DEF Inv, TypeOK

\* What presences do to the users and to those who were asked about.
LEMMA AppliesFacts ==
    ASSUME NEW ps, NEW stored \in [Contacts -> Items \cup {"seen"}], NEW was,
           NEW bare, bare \subseteq Contacts, asked \subseteq Contacts,
           Applies(ps, stored, was, bare)
    PROVE  /\ StoreOK' /\ asked' \subseteq Contacts
           /\ \A c \in bareResources' :
                 c \in bare \/ \E i \in DOMAIN ps : ps[i] = Presence("answer", c)
           /\ \A c \in Contacts :
                 /\ users'[c] = stored[c] \/ (stored[c] = "absent" /\ users'[c] = "seen")
                 /\ ~config.rosterless => users'[c] = stored[c]
                 /\ stored[c] # "absent" /\ c \notin asked => c \notin asked'
  <1>1. users' \in [Contacts -> Items \cup {"seen"}] BY DEF Applies
  <1>2. resources' \subseteq Contacts /\ \A c \in resources' : users'[c] # "absent"
    BY DEF Applies, OnlineAfter
  <1>3. /\ asked' \subseteq Contacts /\ bareResources' \subseteq Contacts
        /\ \A c \in bareResources' : users'[c] # "absent"
        /\ \A c \in bareResources' :
              c \in bare \/ \E i \in DOMAIN ps : ps[i] = Presence("answer", c)
    BY DEF Applies
  <1>4. ASSUME NEW c \in Contacts
        PROVE  /\ users'[c] = stored[c] \/ (stored[c] = "absent" /\ users'[c] = "seen")
               /\ ~config.rosterless => users'[c] = stored[c]
    BY DEF Applies
  <1>5. ASSUME NEW c \in Contacts, stored[c] # "absent", c \notin asked PROVE c \notin asked'
    BY <1>5 DEF Applies
  <1> QED BY <1>1, <1>2, <1>3, <1>4, <1>5 DEF StoreOK

LEMMA HandlePresenceInv == ASSUME Inv, HandlePresence PROVE Inv'
  <1> DEFINE p == Head(moduleQueue)
  <1>1. /\ moduleQueue # <<>> /\ p.kind = "presence" /\ moduleQueue' = Tail(moduleQueue) /\ Inside
        /\ UNCHANGED <<asks, requestedRoster, hasRoster, armed, guessed>>
    BY DEF HandlePresence, Taking
  <1>2. moduleQueue \in Seq(Blocks) /\ p \in Blocks /\ moduleQueue' \in Seq(Blocks)
    BY TakenFacts DEF Inv, HandlePresence
  <1>3. p \in Presences BY <1>1, <1>2, KindsOfBlocks
  <1>4. /\ earlyPresenceElements \in Seq(Presences) /\ asked \subseteq Contacts
        /\ bareResources \subseteq Contacts
        /\ users \in [Contacts -> Items \cup {"seen"}] /\ hasRoster \in BOOLEAN
    BY DEF Inv, TypeOK, ModuleOK, StoreOK
  <1>5. \/ ~hasRoster /\ ~config.rosterless /\ Keeps(p) /\ UNCHANGED <<storeVars, asked>>
        \/ /\ hasRoster \/ config.rosterless
           /\ Applies(<<p>>, users, resources, bareResources) /\ UNCHANGED earlyPresenceElements
    BY DEF HandlePresence, Premature
  <1> HIDE DEF p
  <1>6. ~Ends(p) /\ \A c : ~Turns(p, c) BY <1>1 DEF Turns, Speaks, Ends
  <1>7. StreamOK' /\ ServerOK' BY <1>1, InsideInv DEF Inv, TypeOK, StreamOK
  <1>8. CASE ~hasRoster /\ ~config.rosterless /\ Keeps(p) /\ UNCHANGED <<storeVars, asked>>
    <2>1. UNCHANGED <<users, resources, bareResources, asked>> BY <1>8 DEF storeVars
    <2>2. Words' BY <1>1, <1>8, <2>1, IdleWords DEF HandlePresence, toldVars
    <2>3. KeptIsTimed' BY <1>1, <1>8 DEF Inv, KeptIsTimed, Keeps
    <2>4. earlyPresenceElements' \in Seq(Presences) BY <1>3, <1>4, <1>8, AppendFacts DEF Keeps
    <2>5. ModuleOK' BY <1>1, <1>2, <2>1, <2>4 DEF Inv, TypeOK, ModuleOK, Inside
    <2>6. StoreOK' BY <2>1 DEF Inv, TypeOK, StoreOK
    <2> QED BY <1>7, <2>2, <2>3, <2>5, <2>6 DEF Inv, TypeOK
  <1>9. CASE /\ hasRoster \/ config.rosterless
             /\ Applies(<<p>>, users, resources, bareResources) /\ UNCHANGED earlyPresenceElements
    <2>1. /\ StoreOK' /\ asked' \subseteq Contacts
          /\ \A c \in Contacts :
                /\ users'[c] = users[c] \/ (users[c] = "absent" /\ users'[c] = "seen")
                /\ ~config.rosterless => users'[c] = users[c]
                /\ users[c] # "absent" /\ c \notin asked => c \notin asked'
      BY <1>4, <1>9, AppliesFacts
    <2>2. \A c \in Contacts : Heeds(p, c, hasRoster, users[c], hasRoster', users'[c])
      BY <1>1, <1>6, <2>1 DEF Heeds, Turns
    <2>3. ASSUME NEW c \in Contacts \ strangers, ~config.rosterless, ~guessed'
          PROVE  c \notin asked' /\ (hasRoster' => users'[c] = "both")
      <3>1. c \notin asked /\ users[c] = "both" BY <1>1, <1>9, <2>3 DEF Inv, Words, Friend
      <3> QED BY <2>1, <2>3, <3>1
    <2>4. p.kind # "result" /\ hasRoster' \in BOOLEAN /\ (hasRoster => hasRoster') BY <1>1, <1>4
    <2>5. Words' BY <1>1, <2>2, <2>3, <2>4, TakenWords DEF p
    <2>6. KeptIsTimed' BY <1>1, <1>9 DEF Inv, KeptIsTimed
    <2>7. ModuleOK' BY <1>1, <1>2, <1>9, <2>1 DEF Inv, TypeOK, ModuleOK, Inside
    <2> QED BY <1>7, <2>1, <2>5, <2>6, <2>7 DEF Inv, TypeOK
  <1> QED BY <1>5, <1>8, <1>9

\* What a roster does, or a timer that takes its place.
LEMMA RosterFacts ==
    ASSUME Inv, NEW items \in [Contacts -> Items], HandleFetchRosterQueryIQ(items)
    PROVE  /\ StoreOK' /\ asked' \subseteq Contacts /\ earlyPresenceElements' = <<>>
           /\ hasRoster' = TRUE
           /\ \A c \in Contacts :
                 /\ hasRoster => users'[c] = IF items[c] = "absent" THEN users[c] ELSE items[c]
                 /\ ~hasRoster => IF items[c] = "both" THEN users'[c] = "both"
                                                       ELSE Unlisted(users'[c])
                 /\ (hasRoster \/ items[c] = "both") /\ c \notin asked => c \notin asked'
  <1>1. /\ users \in [Contacts -> Items \cup {"seen"}] /\ asked \subseteq Contacts
        /\ hasRoster \in BOOLEAN /\ resources \subseteq Contacts /\ bareResources \subseteq Contacts
        /\ \A c \in resources \cup bareResources : users[c] # "absent"
    BY DEF Inv, TypeOK, ModuleOK, StoreOK
  <1>2. CASE hasRoster
    <2>1. /\ users' = Updated(items)
          /\ UNCHANGED <<resources, bareResources, hasRoster, earlyPresenceElements, asked>>
      BY <1>2 DEF HandleFetchRosterQueryIQ
    <2>2. earlyPresenceElements' = <<>> BY <1>2, <2>1 DEF Inv, KeptIsTimed
    <2>3. users' \in [Contacts -> Items \cup {"seen"}] BY <1>1, <2>1 DEF Updated
    <2>4. \A c \in Contacts : users'[c] = IF items[c] = "absent" THEN users[c] ELSE items[c]
      BY <2>1 DEF Updated
    <2>5. StoreOK' BY <1>1, <2>1, <2>3, <2>4 DEF StoreOK
    <2> QED BY <1>1, <1>2, <2>1, <2>2, <2>4, <2>5
  <1>3. CASE ~hasRoster
    <2> DEFINE stored == Population(items)
    <2>1. /\ hasRoster' = TRUE /\ earlyPresenceElements' = <<>>
          /\ Applies(earlyPresenceElements, stored, {}, {})
      BY <1>3 DEF HandleFetchRosterQueryIQ
    <2>2. stored \in [Contacts -> Items \cup {"seen"}] BY DEF Population, Items
    <2>3. \A c \in Contacts : stored[c] = IF items[c] = "both" THEN "both" ELSE "absent"
      BY DEF Population, Items
    <2> HIDE DEF stored
    <2>4. /\ StoreOK' /\ asked' \subseteq Contacts
          /\ \A c \in Contacts :
                /\ users'[c] = stored[c] \/ (stored[c] = "absent" /\ users'[c] = "seen")
                /\ stored[c] # "absent" /\ c \notin asked => c \notin asked'
      <3> DEFINE none == {}
      <3>1. none \subseteq Contacts /\ Applies(earlyPresenceElements, stored, none, none) BY <2>1
      <3> HIDE DEF none
      <3> QED BY <1>1, <2>2, <3>1, AppliesFacts
    <2> QED BY <1>3, <2>1, <2>3, <2>4 DEF Unlisted
  <1> QED BY <1>1, <1>2, <1>3

LEMMA HandleResultInv == ASSUME Inv, HandleResult PROVE Inv'
  <1> DEFINE b == Head(moduleQueue)
  <1>1. /\ moduleQueue # <<>> /\ b.kind = "result" /\ moduleQueue' = Tail(moduleQueue) /\ Inside
        /\ armed' = armed \ {b.id} /\ HandleFetchRosterQueryIQ(b.items)
        /\ UNCHANGED <<asks, requestedRoster, guessed>>
    BY DEF HandleResult, Taking
  <1>2. moduleQueue \in Seq(Blocks) /\ b \in Blocks /\ moduleQueue' \in Seq(Blocks)
    BY TakenFacts DEF Inv, HandleResult
  <1>3. b.items \in [Contacts -> Items] BY <1>1, <1>2, KindsOfBlocks
  <1> HIDE DEF b
  <1>4. /\ StoreOK' /\ asked' \subseteq Contacts /\ earlyPresenceElements' = <<>>
        /\ hasRoster' = TRUE
        /\ \A c \in Contacts :
              /\ hasRoster => users'[c] = IF b.items[c] = "absent" THEN users[c] ELSE b.items[c]
              /\ ~hasRoster => IF b.items[c] = "both" THEN users'[c] = "both"
                                                      ELSE Unlisted(users'[c])
              /\ (hasRoster \/ b.items[c] = "both") /\ c \notin asked => c \notin asked'
    BY <1>1, <1>3, RosterFacts
  <1>5. ASSUME NEW c \in Contacts PROVE Heeds(b, c, hasRoster, users[c], hasRoster', users'[c])
    <2>1. ~Ends(b) /\ Speaks(b, c) /\ Said(b, c) = b.items[c] BY <1>1 DEF Ends, Speaks, Said
    <2>2. hasRoster /\ b.items[c] = "absent" => Unlisted(users[c])
      BY <1>1, <1>2, HeadAbsent DEF Inv, Words, Matching, b
    <2>3. b.items[c] \in Items /\ hasRoster \in BOOLEAN BY <1>3 DEF Inv, TypeOK, ModuleOK
    <2>4. Agrees(users'[c], b.items[c])
      BY <1>4, <2>2, <2>3 DEF Agrees, Unlisted, Items
    <2> QED BY <1>4, <2>1, <2>4 DEF Heeds, Turns
  <1>6. ASSUME NEW c \in Contacts \ strangers, ~config.rosterless, ~guessed'
        PROVE  c \notin asked' /\ (hasRoster' => users'[c] = "both")
    <2>1. Friend(c) BY DEF Inv, Words
    <2>2. 1 \in 1..Len(moduleQueue) /\ b = moduleQueue[1] BY <1>1, <1>2, TailFacts DEF b
    <2>3. b.items[c] = "both" BY <1>1, <2>1, <2>2 DEF Friend, Speaks, Said
    <2>4. c \notin asked BY <1>1, <1>6, <2>1 DEF Friend
    <2>5. hasRoster \in BOOLEAN BY DEF Inv, TypeOK, ModuleOK
    <2> QED BY <1>4, <2>3, <2>4, <2>5
  <1>7. hasRoster' \in BOOLEAN /\ hasRoster' BY <1>4
  <1>8. Words' BY <1>1, <1>5, <1>6, <1>7, TakenWords DEF b
  <1>9. StreamOK' /\ ServerOK' BY <1>1, InsideInv DEF Inv, TypeOK, StreamOK
  <1>10. KeptIsTimed' BY <1>4 DEF KeptIsTimed
  <1>11. armed' \subseteq Ids /\ earlyPresenceElements' \in Seq(Presences)
    BY <1>1, <1>4 DEF Inv, TypeOK, ModuleOK
  <1>12. ModuleOK' BY <1>1, <1>2, <1>4, <1>7, <1>11 DEF Inv, TypeOK, ModuleOK, Inside
  <1> QED BY <1>4, <1>8, <1>9, <1>10, <1>12 DEF Inv, TypeOK

LEMMA TimerFiresInv == ASSUME Inv, NEW id \in Ids, TimerFires(id) PROVE Inv'
  <1>1. /\ armed' = armed \ {id} /\ guessed' = (guessed \/ ~hasRoster) /\ Inside
        /\ HandleFetchRosterQueryIQ(NoItems) /\ UNCHANGED <<asks, moduleQueue, requestedRoster>>
    BY DEF TimerFires
  <1>2. NoItems \in [Contacts -> Items] /\ \A c \in Contacts : NoItems[c] = "absent"
    BY DEF NoItems, Items
  <1>3. /\ StoreOK' /\ asked' \subseteq Contacts /\ earlyPresenceElements' = <<>>
        /\ hasRoster' = TRUE
        /\ \A c \in Contacts : /\ hasRoster => users'[c] = users[c]
                               /\ ~hasRoster => Unlisted(users'[c])
                               /\ hasRoster /\ c \notin asked => c \notin asked'
    BY <1>1, <1>2, RosterFacts
  <1>4. moduleQueue \in Seq(Blocks) /\ hasRoster \in BOOLEAN /\ guessed \in BOOLEAN
    BY DEF Inv, TypeOK, ModuleOK
  <1>5. UNCHANGED <<roster, interested, config, strangers>> BY <1>1 DEF Inside
  <1>6. PushesAfter(moduleQueue, hasRoster) => PushesAfter(moduleQueue, TRUE)
    BY <1>4 DEF PushesAfter, RosterBefore
  <1>7. ASSUME NEW c \in Contacts PROVE Matching(c)'
    <2>1. Matching(c) BY DEF Inv, Words
    <2>2. /\ \A item : LastWord(moduleQueue, hasRoster, users[c], item, c) =>
                       LastWord(moduleQueue, TRUE, users'[c], item, c)
          /\ Unknown(moduleQueue, hasRoster, users[c], c) =>
             Unknown(moduleQueue, TRUE, users'[c], c)
          /\ AbsentStays(moduleQueue, hasRoster, users[c], c) =>
             AbsentStays(moduleQueue, TRUE, users'[c], c)
      BY <1>3, <1>4, TimerWords
    <2> QED BY <1>1, <1>3, <1>5, <2>1, <2>2 DEF Matching
  <1>8. ASSUME NEW c \in Contacts \ strangers PROVE Friend(c)'
    <2>1. Friend(c) BY DEF Inv, Words
    <2>2. guessed' \/ (hasRoster /\ ~guessed) BY <1>1, <1>4
    <2> QED BY <1>1, <1>3, <1>5, <2>1, <2>2 DEF Friend
  <1>9. Words' BY <1>1, <1>3, <1>5, <1>6, <1>7, <1>8 DEF Inv, Words
  <1>10. StreamOK' /\ ServerOK' BY <1>1, InsideInv DEF Inv, TypeOK, StreamOK
  <1>11. KeptIsTimed' BY <1>3 DEF KeptIsTimed
  <1>12. /\ armed' \subseteq Ids /\ earlyPresenceElements' \in Seq(Presences)
         /\ guessed' \in BOOLEAN /\ hasRoster' \in BOOLEAN
    BY <1>1, <1>3, <1>4 DEF Inv, TypeOK, ModuleOK
  <1>13. ModuleOK' BY <1>1, <1>3, <1>12 DEF Inv, TypeOK, ModuleOK, Inside
  <1> QED BY <1>3, <1>9, <1>10, <1>11, <1>13 DEF Inv, TypeOK

-----------------------------------------------------------------------------
(* The presence of contacts.  The invariant says of places on the queue, and   *)
(* of its end, what the last block before them was that bears on the matter.   *)

\* The last of the blocks of T before place n is one of W, or base where there is none.
LastOf(q, n, W, T, base) ==
    \/ \E j \in 1..Len(q) :
          /\ j < n /\ q[j] \in W
          /\ \A k \in 1..Len(q) : j < k /\ k < n => q[k] \notin T
    \/ (\A k \in 1..Len(q) : k < n => q[k] \notin T) /\ base

AtEnd(q, W, T, base) == LastOf(q, Len(q) + 1, W, T, base)

\* It is so before each block of M that no block of E follows.
EachOf(q, M, E, W, T, base) ==
    \A n \in 1..Len(q) :
        q[n] \in M /\ (\A k \in 1..Len(q) : n < k => q[k] \notin E) => LastOf(q, n, W, T, base)

Ending        == {b \in Blocks : Ends(b)}
Rosters       == {b \in Blocks : b.kind = "result"}
Without(c)    == {b \in Rosters : b.items[c] # "both"}
Authenticates == {Event("didAuthenticate")}

\* Blocks after which c has a resource, blocks after which it has none, and both.
Comes(c)      == {Presence("available", c)}
Goes(c)       == {b \in Blocks : \/ b = Presence("unavailable", c)
                                 \/ b.kind = "push" /\ b.jid = c /\ b.item = "absent"
                                 \/ b.kind \in {"didDisconnect", "didSendUnavailable"}}
Says(c, here) == IF here THEN Comes(c) ELSE Goes(c)
Telling(c)    == Comes(c) \cup Goes(c)

\* Blocks after which c is a user, or there is no roster.
Turning(c)    == {b \in Blocks : Turns(b, c)}
Listing(c)    == {b \in Turning(c) : Ends(b) \/ Said(b, c) = "both"}

\* What XMPPRoster and the server hold of the presence of c.
Counted(c) ==
    IF hasRoster \/ config.rosterless THEN c \in resources
                                      ELSE c \in OnlineAfter(earlyPresenceElements, {})
Here(c) == roster[c] = "both" /\ available /\ c \in online

\* A timer took the place of the roster, or a roster came although there is to be none.
NotEnding == \A i \in 1..Len(moduleQueue) : moduleQueue[i] \notin Ending
Spoiled   == IF config.rosterless THEN hasRoster ELSE guessed

ServerTells ==
    /\ \A c \in owed : roster[c] = "both"
    /\ ~available => owed = {}
    /\ available /\ ~shown => left
    /\ ~up => AtEnd(moduleQueue, Ending, Ending \cup Rosters, TRUE)
    /\ ~interested => AtEnd(moduleQueue, Ending, Ending \cup Rosters, hasRoster => guessed)

\* Presence is handled with a fetch requested on its connection.
Requested ==
    config.autoFetch =>
        /\ up => AtEnd(moduleQueue, Authenticates, Authenticates \cup Ending, requestedRoster)
        /\ EachOf(moduleQueue, Presences, {}, Authenticates, Authenticates \cup Ending,
                  requestedRoster)

\* A contact that comes is a user by then, if there is a roster.
Listed(c) ==
    ~config.rosterless =>
        EachOf(moduleQueue, Comes(c), {}, Listing(c), Turning(c),
               hasRoster /\ ~guessed => users[c] = "both")

\* A roster that is not to list c finds no presence of c that is kept, and the last word about
\* the presence of c is what the server holds.
ToldRoster(c) ==
    ~left => EachOf(moduleQueue, Without(c), Ending, Goes(c), Telling(c), ~Counted(c))
ToldLast(c) ==
    (up => ~left) /\ c \notin owed =>
        \/ AtEnd(moduleQueue, Says(c, Here(c)), Telling(c), Counted(c) <=> Here(c))
        \/ Here(c) /\ Spoiled /\ NotEnding

PresenceInv ==
    /\ config.rosterless => earlyPresenceElements = <<>>
    /\ ServerTells /\ Requested
    /\ config.rosterless \/ config.autoFetch =>
           \A c \in Contacts : Listed(c) /\ ToldRoster(c) /\ ToldLast(c)

-----------------------------------------------------------------------------
(* Lemmas about places.                                                        *)

LEMMA LastAppend ==
    ASSUME NEW q \in Seq(Blocks), NEW e \in Blocks, NEW W, NEW T, NEW base
    PROVE  /\ \A n \in 1..Len(q) + 1 :
                 LastOf(q, n, W, T, base) => LastOf(Append(q, e), n, W, T, base)
           /\ e \in W => AtEnd(Append(q, e), W, T, base)
           /\ e \notin T /\ AtEnd(q, W, T, base) => AtEnd(Append(q, e), W, T, base)
  <1> DEFINE r == Append(q, e)
  <1>1. /\ Len(r) = Len(q) + 1 /\ Len(q) \in Nat /\ r[Len(q) + 1] = e
        /\ \A i \in 1..Len(q) : i \in 1..Len(r) /\ r[i] = q[i]
        /\ \A i \in 1..Len(r) : i \in 1..Len(q) \/ i = Len(q) + 1
    BY AppendFacts
  <1> HIDE DEF r
  <1>2. ASSUME NEW n \in 1..Len(q) + 1, LastOf(q, n, W, T, base) PROVE LastOf(r, n, W, T, base)
    <2>1. \A k \in 1..Len(r) : k < n => k \in 1..Len(q) /\ r[k] = q[k] BY <1>1
    <2>2. CASE (\A k \in 1..Len(q) : k < n => q[k] \notin T) /\ base
      BY <2>1, <2>2 DEF LastOf
    <2>3. CASE \E j \in 1..Len(q) :
                  /\ j < n /\ q[j] \in W
                  /\ \A k \in 1..Len(q) : j < k /\ k < n => q[k] \notin T
      BY <1>1, <2>1, <2>3 DEF LastOf
    <2> QED BY <1>2, <2>2, <2>3 DEF LastOf
  <1>3. ASSUME e \in W PROVE AtEnd(r, W, T, base)
    <2>1. Len(q) + 1 \in 1..Len(r) /\ Len(q) + 1 < Len(r) + 1 BY <1>1
    <2>2. \A k \in 1..Len(r) : ~(Len(q) + 1 < k /\ k < Len(r) + 1) BY <1>1
    <2> QED BY <1>1, <1>3, <2>1, <2>2 DEF AtEnd, LastOf
  <1>4. ASSUME e \notin T, AtEnd(q, W, T, base) PROVE AtEnd(r, W, T, base)
    <2>1. CASE (\A k \in 1..Len(q) : k < Len(q) + 1 => q[k] \notin T) /\ base
      <3>1. \A k \in 1..Len(r) : r[k] \notin T BY <1>1, <1>4, <2>1
      <3> QED BY <2>1, <3>1 DEF AtEnd, LastOf
    <2>2. CASE \E j \in 1..Len(q) :
                  /\ j < Len(q) + 1 /\ q[j] \in W
                  /\ \A k \in 1..Len(q) : j < k /\ k < Len(q) + 1 => q[k] \notin T
      <3>1. PICK j \in 1..Len(q) :
                  /\ j < Len(q) + 1 /\ q[j] \in W
                  /\ \A k \in 1..Len(q) : j < k /\ k < Len(q) + 1 => q[k] \notin T
        BY <2>2
      <3>2. j \in 1..Len(r) /\ j < Len(r) + 1 /\ r[j] \in W BY <1>1, <3>1
      <3>3. \A k \in 1..Len(r) : j < k => r[k] \notin T BY <1>1, <1>4, <3>1
      <3> QED BY <3>2, <3>3 DEF AtEnd, LastOf
    <2> QED BY <1>4, <2>1, <2>2 DEF AtEnd, LastOf
  <1> QED BY <1>2, <1>3, <1>4 DEF r

LEMMA EachAppend ==
    ASSUME NEW q \in Seq(Blocks), NEW e \in Blocks, NEW M, NEW E, NEW W, NEW T, NEW base,
           EachOf(q, M, E, W, T, base), e \in M => AtEnd(q, W, T, base)
    PROVE  EachOf(Append(q, e), M, E, W, T, base)
  <1> DEFINE r == Append(q, e)
  <1>1. /\ Len(r) = Len(q) + 1 /\ Len(q) \in Nat /\ r[Len(q) + 1] = e
        /\ \A i \in 1..Len(q) : i \in 1..Len(r) /\ r[i] = q[i]
        /\ \A i \in 1..Len(r) : i \in 1..Len(q) \/ i = Len(q) + 1
    BY AppendFacts
  <1>2. \A n \in 1..Len(q) + 1 : LastOf(q, n, W, T, base) => LastOf(r, n, W, T, base)
    BY LastAppend
  <1> HIDE DEF r
  <1>3. ASSUME NEW n \in 1..Len(r), r[n] \in M, \A k \in 1..Len(r) : n < k => r[k] \notin E
        PROVE  LastOf(r, n, W, T, base)
    <2>1. CASE n = Len(q) + 1 BY <1>1, <1>2, <1>3, <2>1 DEF AtEnd
    <2>2. CASE n \in 1..Len(q)
      <3>1. q[n] \in M /\ \A k \in 1..Len(q) : n < k => q[k] \notin E BY <1>1, <1>3, <2>2
      <3>2. LastOf(q, n, W, T, base) BY <2>2, <3>1 DEF EachOf
      <3> QED BY <1>1, <1>2, <2>2, <3>2
    <2> QED BY <1>1, <2>1, <2>2
  <1>4. EachOf(r, M, E, W, T, base) BY <1>3 DEF EachOf
  <1> QED BY <1>4 DEF r

LEMMA LastHead ==
    ASSUME NEW q \in Seq(Blocks), NEW W, NEW T, NEW base, LastOf(q, 1, W, T, base)
    PROVE  base
  <1>1. Len(q) \in Nat /\ \A j \in 1..Len(q) : ~(j < 1) OBVIOUS
  <1> QED BY <1>1 DEF LastOf

LEMMA EachHead ==
    ASSUME NEW q \in Seq(Blocks), q # <<>>, NEW M, NEW E, NEW W, NEW T, NEW base,
           EachOf(q, M, E, W, T, base), Head(q) \in M, \A k \in 1..Len(q) : q[k] \notin E
    PROVE  base
  <1>1. 1 \in 1..Len(q) /\ Head(q) = q[1] BY TailFacts
  <1>2. LastOf(q, 1, W, T, base) BY <1>1 DEF EachOf
  <1> QED BY <1>2, LastHead

LEMMA LastTail ==
    ASSUME NEW q \in Seq(Blocks), q # <<>>, NEW W, NEW T, NEW base, NEW base2,
           NEW n \in 1..Len(q), LastOf(q, n + 1, W, T, base),
           /\ \A k \in 1..Len(q) : 1 < k /\ k < n + 1 => q[k] \notin T
           /\ Head(q) \in W \/ (Head(q) \notin T /\ base)
           => base2
    PROVE  LastOf(Tail(q), n, W, T, base2)
  <1> DEFINE r == Tail(q)
             h == Head(q)
  <1>1. /\ h = q[1] /\ Len(q) \in Nat /\ Len(r) = Len(q) - 1 /\ 1 \in 1..Len(q)
        /\ \A i \in 1..Len(r) : i + 1 \in 1..Len(q) /\ r[i] = q[i + 1]
        /\ \A i \in 1..Len(q) : i = 1 \/ (i - 1 \in 1..Len(r) /\ r[i - 1] = q[i])
    BY TailFacts
  <1>2. /\ \A k \in 1..Len(q) : 1 < k /\ k < n + 1 => q[k] \notin T
        /\ h \in W \/ (h \notin T /\ base)
        => base2
    OBVIOUS
  <1> HIDE DEF r, h
  <1>3. ASSUME \A k \in 1..Len(q) : k < n + 1 => q[k] \notin T, base
        PROVE  LastOf(r, n, W, T, base2)
    <2>1. h \notin T BY <1>1, <1>3
    <2>2. \A k \in 1..Len(r) : k < n => r[k] \notin T BY <1>1, <1>3
    <2>3. base2 BY <1>2, <1>3, <2>1
    <2> QED BY <2>2, <2>3 DEF LastOf
  <1>4. ASSUME NEW j \in 1..Len(q), j < n + 1, q[j] \in W,
               \A k \in 1..Len(q) : j < k /\ k < n + 1 => q[k] \notin T
        PROVE  LastOf(r, n, W, T, base2)
    <2>1. CASE j = 1
      <3>1. base2 BY <1>1, <1>2, <1>4, <2>1
      <3>2. \A k \in 1..Len(r) : k < n => r[k] \notin T BY <1>1, <1>4, <2>1
      <3> QED BY <3>1, <3>2 DEF LastOf
    <2>2. CASE j # 1
      <3>1. j - 1 \in 1..Len(r) /\ r[j - 1] = q[j] /\ j - 1 < n BY <1>1, <1>4, <2>2
      <3>2. \A k \in 1..Len(r) : j - 1 < k /\ k < n => r[k] \notin T BY <1>1, <1>4
      <3> QED BY <1>4, <3>1, <3>2 DEF LastOf
    <2> QED BY <2>1, <2>2
  <1>5. LastOf(r, n, W, T, base2) BY <1>3, <1>4 DEF LastOf
  <1> QED BY <1>5 DEF r

LEMMA EndTail ==
    ASSUME NEW q \in Seq(Blocks), q # <<>>, NEW W, NEW T, NEW base, NEW base2,
           AtEnd(q, W, T, base),
           /\ \A k \in 1..Len(q) : 1 < k => q[k] \notin T
           /\ Head(q) \in W \/ (Head(q) \notin T /\ base)
           => base2
    PROVE  AtEnd(Tail(q), W, T, base2)
  <1>1. /\ Len(q) \in Nat /\ Len(Tail(q)) = Len(q) - 1 /\ 1 \in 1..Len(q) BY TailFacts
  <1>2. \A k \in 1..Len(q) : k < Len(q) + 1 BY <1>1
  <1>3. Len(q) \in 1..Len(q) /\ LastOf(q, Len(q) + 1, W, T, base) BY <1>1 DEF AtEnd
  <1>4. LastOf(Tail(q), Len(q), W, T, base2) BY <1>2, <1>3, LastTail
  <1>5. Len(Tail(q)) + 1 = Len(q) BY <1>1
  <1> QED BY <1>4, <1>5 DEF AtEnd

LEMMA EachTail ==
    ASSUME NEW q \in Seq(Blocks), q # <<>>, NEW M, NEW E, NEW W, NEW T, NEW base, NEW base2,
           EachOf(q, M, E, W, T, base),
           Head(q) \in W \/ (Head(q) \notin T /\ base) => base2
    PROVE  EachOf(Tail(q), M, E, W, T, base2)
  <1> DEFINE r == Tail(q)
  <1>1. /\ Len(q) \in Nat /\ Len(r) = Len(q) - 1
        /\ \A i \in 1..Len(r) : i + 1 \in 1..Len(q) /\ r[i] = q[i + 1]
        /\ \A i \in 1..Len(q) : i = 1 \/ (i - 1 \in 1..Len(r) /\ r[i - 1] = q[i])
    BY TailFacts
  <1>2. \A n \in 1..Len(q) : LastOf(q, n + 1, W, T, base) => LastOf(r, n, W, T, base2)
    BY LastTail
  <1> HIDE DEF r
  <1>3. ASSUME NEW n \in 1..Len(r), r[n] \in M, \A k \in 1..Len(r) : n < k => r[k] \notin E
        PROVE  LastOf(r, n, W, T, base2)
    <2>1. n + 1 \in 1..Len(q) /\ q[n + 1] \in M /\ n \in 1..Len(q) BY <1>1, <1>3
    <2>2. \A k \in 1..Len(q) : n + 1 < k => q[k] \notin E BY <1>1, <1>3
    <2>3. LastOf(q, n + 1, W, T, base) BY <2>1, <2>2 DEF EachOf
    <2> QED BY <1>2, <2>1, <2>3
  <1>4. EachOf(r, M, E, W, T, base2) BY <1>3 DEF EachOf
  <1> QED BY <1>4 DEF r

LEMMA BaseFollows ==
    ASSUME NEW q, NEW M, NEW E, NEW W, NEW T, NEW base, NEW base2, base => base2
    PROVE  /\ AtEnd(q, W, T, base) => AtEnd(q, W, T, base2)
           /\ EachOf(q, M, E, W, T, base) => EachOf(q, M, E, W, T, base2)
  <1>1. \A n : LastOf(q, n, W, T, base) => LastOf(q, n, W, T, base2) BY DEF LastOf
  <1> QED BY <1>1 DEF AtEnd, EachOf

-----------------------------------------------------------------------------
(* Presence: the stream, the application and the server.                       *)

LEMMA Grown ==
    ASSUME NEW q \in Seq(Blocks), NEW e \in Blocks, NEW r, r = q \/ r = Append(q, e)
    PROVE  /\ r \in Seq(Blocks)
           /\ \A S : e \notin S /\ (\A i \in 1..Len(q) : q[i] \notin S) =>
                     \A i \in 1..Len(r) : r[i] \notin S
           /\ \A W, T, base : e \notin T /\ AtEnd(q, W, T, base) => AtEnd(r, W, T, base)
           /\ \A M, E, W, T, base :
                 EachOf(q, M, E, W, T, base) /\ (e \in M => AtEnd(q, W, T, base)) =>
                 EachOf(r, M, E, W, T, base)
  <1>1. CASE r = q BY <1>1
  <1>2. CASE r = Append(q, e)
    <2>1. r \in Seq(Blocks) BY <1>2, AppendFacts
    <2>2. \A i \in 1..Len(r) : (i \in 1..Len(q) /\ r[i] = q[i]) \/ r[i] = e
      BY <1>2, AppendFacts
    <2>3. ASSUME NEW W, NEW T, NEW base, e \notin T, AtEnd(q, W, T, base)
          PROVE  AtEnd(r, W, T, base)
      BY <1>2, <2>3, LastAppend
    <2>4. ASSUME NEW M, NEW E, NEW W, NEW T, NEW base, EachOf(q, M, E, W, T, base),
                 e \in M => AtEnd(q, W, T, base)
          PROVE  EachOf(r, M, E, W, T, base)
      BY <1>2, <2>4, EachAppend
    <2>5. ASSUME NEW S, e \notin S, \A i \in 1..Len(q) : q[i] \notin S
          PROVE  \A i \in 1..Len(r) : r[i] \notin S
      BY <2>2, <2>5
    <2> QED BY <2>1, <2>3, <2>4, <2>5
  <1> QED BY <1>1, <1>2

LEMMA Sorted ==
    ASSUME NEW b \in Blocks
    PROVE  /\ b \in Ending <=> b.kind = "didDisconnect"
           /\ b \in Rosters <=> b.kind = "result"
           /\ b \in Presences <=> b.kind = "presence"
           /\ b \in Authenticates => b.kind = "didAuthenticate"
           /\ \A c \in Contacts :
                 /\ b \in Comes(c) => b.kind = "presence" /\ b \notin Goes(c)
                 /\ b \in Goes(c) =>
                       b.kind \in {"presence", "push", "didDisconnect", "didSendUnavailable"}
                 /\ b.kind \in {"didDisconnect", "didSendUnavailable"} => b \in Goes(c)
                 /\ b \in Without(c) => b.kind = "result"
  <1>1. b \in Ending <=> b.kind = "didDisconnect" BY DEF Ending, Ends
  <1>2. b \in Rosters <=> b.kind = "result" BY DEF Rosters
  <1>3. b \in Presences <=> b.kind = "presence" BY KindsOfBlocks DEF Presences
  <1>4. b \in Authenticates => b.kind = "didAuthenticate" BY DEF Authenticates, Event
  <1>5. ASSUME NEW c \in Contacts, b \in Comes(c) PROVE b.kind = "presence" /\ b \notin Goes(c)
    <2>1. b.kind = "presence" /\ b.type = "available" BY <1>5 DEF Comes, Presence
    <2>2. b # Presence("unavailable", c) BY <2>1 DEF Presence
    <2> QED BY <2>1, <2>2 DEF Goes
  <1>6. ASSUME NEW c \in Contacts, b \in Goes(c)
        PROVE  b.kind \in {"presence", "push", "didDisconnect", "didSendUnavailable"}
    BY <1>6 DEF Goes, Presence
  <1>7. ASSUME NEW c \in Contacts
        PROVE  /\ b.kind \in {"didDisconnect", "didSendUnavailable"} => b \in Goes(c)
               /\ b \in Without(c) => b.kind = "result"
    BY DEF Goes, Without, Rosters
  <1> QED BY <1>1, <1>2, <1>3, <1>4, <1>5, <1>6, <1>7

LEMMA OutsideHeld ==
    ASSUME Outside
    PROVE  /\ UNCHANGED <<config, requestedRoster, hasRoster, earlyPresenceElements, users,
                          resources, guessed>>
           /\ \A c : Counted(c)' = Counted(c)
           /\ Spoiled' = Spoiled
  <1>1. UNCHANGED <<config, requestedRoster, hasRoster, earlyPresenceElements, users,
                    resources, guessed>>
    BY DEF Outside, moduleVars, storeVars, toldVars
  <1>2. \A c : Counted(c)' = Counted(c) BY <1>1 DEF Counted
  <1>3. Spoiled' = Spoiled BY <1>1 DEF Spoiled
  <1> QED BY <1>1, <1>2, <1>3

\* A block that says nothing of a contact that counts.
LEMMA QuietStep ==
    ASSUME Inv, PresenceInv, Outside, NEW e \in Blocks,
           moduleQueue' = moduleQueue \/ moduleQueue' = Append(moduleQueue, e),
           e.kind \notin {"result", "push", "didDisconnect"}, \A c \in Contacts : e \notin Comes(c),
           UNCHANGED interested, ~up' => ~up,
           up' => up \/ moduleQueue' = Append(moduleQueue, Event("didAuthenticate")),
           e.kind = "presence" => up,
           \A c \in owed' : roster'[c] = "both", ~available' => owed' = {},
           available' /\ ~shown' => left',
           config.rosterless \/ config.autoFetch =>
               \A c \in Contacts : ~left' =>
                   EachOf(moduleQueue, Without(c), Ending, Goes(c), Telling(c), ~Counted(c)),
           \A c \in Contacts : (up' => ~left') /\ c \notin owed' =>
               /\ e \notin Goes(c) /\ (up => ~left) /\ c \notin owed /\ Here(c)' = Here(c)
    PROVE  PresenceInv'
  <1> DEFINE q == moduleQueue
             r == moduleQueue'
  <1>1. q \in Seq(Blocks) BY DEF Inv, TypeOK, ModuleOK
  <1>2. r = q \/ r = Append(q, e) OBVIOUS
  <1>3. /\ UNCHANGED <<config, requestedRoster, hasRoster, earlyPresenceElements, users,
                       resources, guessed>>
        /\ \A c : Counted(c)' = Counted(c)
        /\ Spoiled' = Spoiled
    BY OutsideHeld
  <1>4. e \notin Ending /\ e \notin Rosters BY Sorted
  <1>5. /\ r \in Seq(Blocks)
        /\ \A S : e \notin S /\ (\A i \in 1..Len(q) : q[i] \notin S) =>
                  \A i \in 1..Len(r) : r[i] \notin S
        /\ \A W, T, base : e \notin T /\ AtEnd(q, W, T, base) => AtEnd(r, W, T, base)
        /\ \A M, E, W, T, base :
              EachOf(q, M, E, W, T, base) /\ (e \in M => AtEnd(q, W, T, base)) =>
              EachOf(r, M, E, W, T, base)
    BY <1>1, <1>2, Grown
  <1>6. ServerTells'
    <2>1. /\ ~up => AtEnd(q, Ending, Ending \cup Rosters, TRUE)
          /\ ~interested => AtEnd(q, Ending, Ending \cup Rosters, hasRoster => guessed)
      BY DEF PresenceInv, ServerTells
    <2>2. e \notin Ending \cup Rosters BY <1>4
    <2>3. ~up => AtEnd(r, Ending, Ending \cup Rosters, TRUE) BY <1>5, <2>1, <2>2
    <2>4. ~interested => AtEnd(r, Ending, Ending \cup Rosters, hasRoster => guessed)
      BY <1>5, <2>1, <2>2
    <2> QED BY <1>3, <2>3, <2>4 DEF ServerTells
  <1>7. Requested'
    <2> DEFINE W == Authenticates
               T == Authenticates \cup Ending
    <2>1. SUFFICES ASSUME config.autoFetch
                   PROVE  /\ up' => AtEnd(r, W, T, requestedRoster)
                          /\ EachOf(r, Presences, {}, W, T, requestedRoster)
      BY <1>3 DEF Requested
    <2>2. /\ up => AtEnd(q, W, T, requestedRoster)
          /\ EachOf(q, Presences, {}, W, T, requestedRoster)
      BY <2>1 DEF PresenceInv, Requested
    <2> HIDE DEF r, q
    <2>3. EachOf(r, Presences, {}, W, T, requestedRoster) BY <1>5, <2>2, Sorted
    <2>4. ASSUME up' PROVE AtEnd(r, W, T, requestedRoster)
      <3> DEFINE a == Event("didAuthenticate")
      <3>1. a \in Blocks /\ a \in W BY BlockKinds DEF Authenticates
      <3>2. CASE r = Append(q, a)
        BY <1>1, <3>1, <3>2, LastAppend
      <3>3. CASE up /\ e \in W
        <4>1. e = a BY <3>3 DEF Authenticates
        <4>2. r = q \/ r = Append(q, a) BY <1>2, <4>1
        <4> QED BY <2>2, <3>2, <3>3, <4>2
      <3>4. CASE up /\ e \notin W
        <4>1. e \notin T BY <1>4, <3>4
        <4> QED BY <1>5, <2>2, <3>4, <4>1
      <3> QED BY <2>4, <3>2, <3>3, <3>4 DEF r, q
    <2> QED BY <2>3, <2>4 DEF r
  <1>8. ASSUME NEW c \in Contacts, Listed(c) PROVE Listed(c)'
    <2>1. e \notin Comes(c) OBVIOUS
    <2> QED BY <1>3, <1>5, <1>8, <2>1 DEF Listed
  <1>9. ASSUME NEW c \in Contacts, config.rosterless \/ config.autoFetch PROVE ToldRoster(c)'
    <2>1. e \notin Without(c) BY <1>4 DEF Without
    <2>2. ~left' => EachOf(q, Without(c), Ending, Goes(c), Telling(c), ~Counted(c)) BY <1>9
    <2>3. ~left' => EachOf(r, Without(c), Ending, Goes(c), Telling(c), ~Counted(c))
      BY <1>5, <2>1, <2>2
    <2> QED BY <1>3, <2>3 DEF ToldRoster
  <1>10. ASSUME NEW c \in Contacts, ToldLast(c) PROVE ToldLast(c)'
    <2>1. SUFFICES ASSUME up' => ~left', c \notin owed'
                   PROVE  \/ AtEnd(r, Says(c, Here(c)'), Telling(c), Counted(c)' <=> Here(c)')
                          \/ Here(c)' /\ Spoiled' /\ NotEnding'
      BY DEF ToldLast
    <2>2. /\ e \notin Telling(c) /\ Here(c)' = Here(c)
          /\ \/ AtEnd(q, Says(c, Here(c)), Telling(c), Counted(c) <=> Here(c))
             \/ Here(c) /\ Spoiled /\ NotEnding
      BY <1>10, <2>1 DEF ToldLast, Telling
    <2>3. CASE AtEnd(q, Says(c, Here(c)), Telling(c), Counted(c) <=> Here(c))
      <3>1. AtEnd(r, Says(c, Here(c)), Telling(c), Counted(c) <=> Here(c)) BY <1>5, <2>2, <2>3
      <3> QED BY <1>3, <2>2, <3>1
    <2>4. CASE Here(c) /\ Spoiled /\ NotEnding
      <3>1. NotEnding' BY <1>4, <1>5, <2>4 DEF NotEnding
      <3> QED BY <1>3, <2>2, <2>4, <3>1
    <2> QED BY <2>2, <2>3, <2>4
  <1> QED BY <1>3, <1>6, <1>7, <1>8, <1>9, <1>10 DEF PresenceInv

LEMMA EventSaysNothing ==
    ASSUME NEW k \in {"didAuthenticate", "fetch", "didSendUnavailable"}
    PROVE  /\ Event(k) \in Blocks /\ Event(k).kind = k
           /\ \A c \in Contacts : Event(k) \notin Comes(c)
           /\ k # "didSendUnavailable" => \A c \in Contacts : Event(k) \notin Goes(c)
  <1>1. Event(k) \in Blocks /\ Event(k).kind = k BY BlockKinds
  <1> QED BY <1>1, Sorted

\* Before a connection no roster is left on the queue that is not followed by an end.
LEMMA DidAuthenticatePresence ==
    ASSUME Inv, PresenceInv, DidAuthenticate PROVE PresenceInv'
  <1> DEFINE q == moduleQueue
             e == Event("didAuthenticate")
  <1>1. /\ ~up /\ up' = TRUE /\ left' = FALSE /\ moduleQueue' = Append(q, e) /\ Outside
        /\ UNCHANGED <<shown, roster, online, asks, interested, available, owed>>
    BY DEF DidAuthenticate, Posts, serverVars
  <1>2. /\ e \in Blocks /\ e.kind = "didAuthenticate"
        /\ \A c \in Contacts : e \notin Comes(c) /\ e \notin Goes(c)
    BY EventSaysNothing
  <1>3. /\ ~available /\ owed = {} BY <1>1 DEF Inv, TypeOK, StreamOK, PresenceInv, ServerTells
  <1>4. AtEnd(q, Ending, Ending \cup Rosters, TRUE) BY <1>1 DEF PresenceInv, ServerTells
  <1>5. \A n \in 1..Len(q) : q[n] \in Rosters => \E k \in 1..Len(q) : n < k /\ q[k] \in Ending
    <2>1. \A b \in Rosters : b \notin Ending BY Sorted DEF Rosters
    <2>2. Len(q) \in Nat BY DEF Inv, TypeOK, ModuleOK
    <2>3. CASE \A k \in 1..Len(q) : k < Len(q) + 1 => q[k] \notin Ending \cup Rosters
      BY <2>2, <2>3
    <2>4. CASE \E j \in 1..Len(q) :
                  /\ j < Len(q) + 1 /\ q[j] \in Ending
                  /\ \A k \in 1..Len(q) : j < k /\ k < Len(q) + 1 => q[k] \notin Ending \cup Rosters
      <3>1. PICK j \in 1..Len(q) :
                  /\ q[j] \in Ending
                  /\ \A k \in 1..Len(q) : j < k /\ k < Len(q) + 1 => q[k] \notin Ending \cup Rosters
        BY <2>4
      <3>2. ASSUME NEW n \in 1..Len(q), q[n] \in Rosters PROVE n < j
        BY <2>1, <2>2, <3>1, <3>2
      <3> QED BY <3>1, <3>2
    <2> QED BY <1>4, <2>3, <2>4 DEF AtEnd, LastOf
  <1> HIDE DEF e
  <1>6. ASSUME NEW c \in Contacts
        PROVE  EachOf(q, Without(c), Ending, Goes(c), Telling(c), ~Counted(c))
    BY <1>5 DEF EachOf, Without
  <1>7. \A c \in Contacts : ~Here(c) /\ ~Here(c)' BY <1>1, <1>3 DEF Here
  <1>8. \A c \in Contacts : Here(c) \in BOOLEAN /\ Here(c)' \in BOOLEAN BY DEF Here
  <1> QED BY <1>1, <1>2, <1>3, <1>6, <1>7, <1>8, QuietStep DEF e

LEMMA SendUnavailablePresence ==
    ASSUME Inv, PresenceInv, SendUnavailable PROVE PresenceInv'
  <1> DEFINE e == Event("didSendUnavailable")
  <1>1. /\ up /\ up' = up /\ shown' = FALSE /\ left' = TRUE /\ Outside
        /\ moduleQueue' = Append(moduleQueue, e)
        /\ UNCHANGED <<roster, online, asks, interested, available, owed>>
    BY DEF SendUnavailable, Posts, serverVars
  <1>2. /\ e \in Blocks /\ e.kind = "didSendUnavailable"
        /\ \A c \in Contacts : e \notin Comes(c)
    BY EventSaysNothing
  <1>3. /\ \A c \in owed : roster[c] = "both"
        /\ ~available => owed = {}
    BY DEF PresenceInv, ServerTells
  <1> HIDE DEF e
  <1> QED BY <1>1, <1>2, <1>3, QuietStep

\* Steps that post nothing, or a fetch.
LEMMA FetchSaysNothing ==
    /\ Event("fetch") \in Blocks /\ Event("fetch").kind = "fetch"
    /\ \A c \in Contacts : Event("fetch") \notin Comes(c) /\ Event("fetch") \notin Goes(c)
  BY EventSaysNothing

LEMMA LeftSame ==
    ASSUME PresenceInv, UNCHANGED left, config.rosterless \/ config.autoFetch
    PROVE  \A c \in Contacts : ~left' =>
              EachOf(moduleQueue, Without(c), Ending, Goes(c), Telling(c), ~Counted(c))
  BY DEF PresenceInv, ToldRoster

LEMMA FetchRosterPresence ==
    ASSUME Inv, PresenceInv, FetchRoster PROVE PresenceInv'
  <1> DEFINE e == Event("fetch")
  <1>1. /\ Outside /\ moduleQueue' = Append(moduleQueue, e)
        /\ UNCHANGED <<up, shown, left, roster, online, asks, interested, available, owed>>
    BY DEF FetchRoster, Posts, serverVars, streamVars
  <1>2. /\ e \in Blocks /\ e.kind = "fetch"
        /\ \A c \in Contacts : e \notin Comes(c) /\ e \notin Goes(c)
    BY FetchSaysNothing
  <1>3. /\ \A c \in owed : roster[c] = "both"
        /\ ~available => owed = {}
        /\ available /\ ~shown => left
    BY DEF PresenceInv, ServerTells
  <1>4. \A c \in Contacts : Here(c)' = Here(c) BY <1>1 DEF Here
  <1> HIDE DEF e
  <1> QED BY <1>1, <1>2, <1>3, <1>4, LeftSame, QuietStep

LEMMA SendAvailablePresence ==
    ASSUME Inv, PresenceInv, SendAvailable PROVE PresenceInv'
  <1> DEFINE e == Event("fetch")
  <1>1. /\ Outside /\ shown' = TRUE
        /\ UNCHANGED <<up, left, moduleQueue, roster, online, asks, interested, available, owed>>
    BY DEF SendAvailable, serverVars
  <1>2. /\ e \in Blocks /\ e.kind = "fetch"
        /\ \A c \in Contacts : e \notin Comes(c) /\ e \notin Goes(c)
    BY FetchSaysNothing
  <1>3. /\ \A c \in owed : roster[c] = "both"
        /\ ~available => owed = {}
    BY DEF PresenceInv, ServerTells
  <1>4. \A c \in Contacts : Here(c)' = Here(c) BY <1>1 DEF Here
  <1> HIDE DEF e
  <1> QED BY <1>1, <1>2, <1>3, <1>4, LeftSame, QuietStep

\* When the server sees that one is available it owes the presence of those who are.
LEMMA ServerSeesPresencePresence ==
    ASSUME Inv, PresenceInv, ServerSeesPresence PROVE PresenceInv'
  <1> DEFINE e == Event("fetch")
  <1>1. /\ Outside /\ available # shown /\ available' = shown
        /\ owed' = IF shown THEN {c \in online : roster[c] = "both"} ELSE {}
        /\ UNCHANGED <<up, shown, left, moduleQueue, roster, online, asks, interested>>
    BY DEF ServerSeesPresence, streamVars
  <1>2. /\ e \in Blocks /\ e.kind = "fetch"
        /\ \A c \in Contacts : e \notin Comes(c) /\ e \notin Goes(c)
    BY FetchSaysNothing
  <1>3. /\ \A c \in owed : roster[c] = "both"
        /\ ~available => owed = {}
        /\ available /\ ~shown => left
        /\ available \in BOOLEAN /\ shown \in BOOLEAN /\ (~up => ~available /\ ~shown)
    BY DEF PresenceInv, ServerTells, Inv, TypeOK, StreamOK
  <1>4. \A c \in owed' : roster'[c] = "both" BY <1>1
  <1>5. ASSUME NEW c \in Contacts, up' => ~left', c \notin owed'
        PROVE  (up => ~left) /\ c \notin owed /\ Here(c)' = Here(c)
    <2>1. up /\ ~left BY <1>1, <1>3, <1>5
    <2>2. shown /\ ~available BY <1>1, <1>3, <2>1
    <2>3. ~Here(c) BY <2>2 DEF Here
    <2>4. ~Here(c)' BY <1>1, <1>5, <2>2 DEF Here
    <2>5. Here(c) \in BOOLEAN /\ Here(c)' \in BOOLEAN BY DEF Here
    <2> QED BY <1>3, <2>1, <2>2, <2>3, <2>4, <2>5
  <1> HIDE DEF e
  <1> QED BY <1>1, <1>2, <1>3, <1>4, <1>5, LeftSame, QuietStep

LEMMA ContactComesOrGoesPresence ==
    ASSUME Inv, PresenceInv, NEW d \in Contacts, ContactComesOrGoes(d) PROVE PresenceInv'
  <1> DEFINE e == Event("fetch")
  <1>1. /\ Outside /\ online' = IF d \in online THEN online \ {d} ELSE online \cup {d}
        /\ owed' = IF available /\ roster[d] = "both" THEN owed \cup {d} ELSE owed
        /\ UNCHANGED <<up, shown, left, moduleQueue, roster, asks, interested, available>>
    BY DEF ContactComesOrGoes, streamVars
  <1>2. /\ e \in Blocks /\ e.kind = "fetch"
        /\ \A c \in Contacts : e \notin Comes(c) /\ e \notin Goes(c)
    BY FetchSaysNothing
  <1>3. /\ \A c \in owed : roster[c] = "both"
        /\ ~available => owed = {}
        /\ available /\ ~shown => left
    BY DEF PresenceInv, ServerTells
  <1>4. \A c \in owed' : roster'[c] = "both" BY <1>1, <1>3
  <1>5. ASSUME NEW c \in Contacts, c \notin owed' PROVE c \notin owed /\ Here(c)' = Here(c)
    <2>1. c \notin owed BY <1>1, <1>5
    <2>2. CASE c # d BY <1>1, <2>1, <2>2 DEF Here
    <2>3. CASE c = d
      <3>1. ~(available /\ roster[d] = "both") BY <1>1, <1>5, <2>3
      <3>2. Here(c)' = FALSE /\ Here(c) = FALSE BY <1>1, <2>3, <3>1 DEF Here
      <3> QED BY <2>1, <3>2
    <2> QED BY <2>2, <2>3
  <1> HIDE DEF e
  <1> QED BY <1>1, <1>2, <1>3, <1>4, <1>5, LeftSame, QuietStep

LEMMA ServerSendsRequestPresence ==
    ASSUME Inv, PresenceInv, NEW d \in Contacts, ServerSendsRequest(d) PROVE PresenceInv'
  <1> DEFINE e == Presence("subscribe", d)
  <1>1. /\ Outside /\ moduleQueue' = Append(moduleQueue, e) /\ available
        /\ UNCHANGED <<up, shown, left, roster, online, asks, interested, available, owed>>
    BY DEF ServerSendsRequest, Posts, serverVars, streamVars
  <1>2. /\ e \in Blocks /\ e.kind = "presence" /\ e.type = "subscribe" BY BlockKinds DEF Presence
  <1>3. ASSUME NEW c \in Contacts PROVE e \notin Comes(c) /\ e \notin Goes(c)
    <2>1. e # Presence("available", c) /\ e # Presence("unavailable", c) BY <1>2 DEF Presence
    <2> QED BY <1>2, <2>1 DEF Comes, Goes
  <1>4. /\ \A c \in owed : roster[c] = "both"
        /\ ~available => owed = {}
        /\ available /\ ~shown => left
        /\ up
    BY <1>1 DEF PresenceInv, ServerTells, Inv, TypeOK, StreamOK
  <1>5. \A c \in Contacts : Here(c)' = Here(c) BY <1>1 DEF Here
  <1> HIDE DEF e
  <1> QED BY <1>1, <1>2, <1>3, <1>4, <1>5, LeftSame, QuietStep

LEMMA ServerSendsAnswerPresence ==
    ASSUME Inv, PresenceInv, NEW d \in Contacts, ServerSendsAnswer(d) PROVE PresenceInv'
  <1> DEFINE e == Presence("answer", d)
  <1>1. /\ Outside /\ moduleQueue' = Append(moduleQueue, e) /\ (available \/ interested)
        /\ UNCHANGED <<up, shown, left, roster, online, asks, interested, available, owed>>
    BY DEF ServerSendsAnswer, Posts, serverVars, streamVars
  <1>2. /\ e \in Blocks /\ e.kind = "presence" /\ e.type = "answer" BY BlockKinds DEF Presence
  <1>3. ASSUME NEW c \in Contacts PROVE e \notin Comes(c) /\ e \notin Goes(c)
    <2>1. e # Presence("available", c) /\ e # Presence("unavailable", c) BY <1>2 DEF Presence
    <2> QED BY <1>2, <2>1 DEF Comes, Goes
  <1>4. /\ \A c \in owed : roster[c] = "both"
        /\ ~available => owed = {}
        /\ available /\ ~shown => left
        /\ up
    BY <1>1 DEF PresenceInv, ServerTells, Inv, TypeOK, StreamOK
  <1>5. \A c \in Contacts : Here(c)' = Here(c) BY <1>1 DEF Here
  <1> HIDE DEF e
  <1> QED BY <1>1, <1>2, <1>3, <1>4, <1>5, LeftSame, QuietStep

\* A contact whose presence the server owes is a user when it comes, if a roster was handled.
LEMMA OwedIsListed ==
    ASSUME Inv, PresenceInv, NEW c \in Contacts, c \in owed
    PROVE  AtEnd(moduleQueue, Listing(c), Turning(c), hasRoster /\ ~guessed => users[c] = "both")
  <1> DEFINE q == moduleQueue
             base == hasRoster /\ ~guessed => users[c] = "both"
  <1>1. q \in Seq(Blocks) /\ Len(q) \in Nat /\ \A k \in 1..Len(q) : q[k] \in Blocks
    BY DEF Inv, TypeOK, ModuleOK
  <1>2. roster[c] = "both" BY DEF PresenceInv, ServerTells
  <1>3. \A k \in 1..Len(q) : q[k] \in Turning(c) <=> Turns(q[k], c) BY <1>1 DEF Turning
  <1>4. ASSUME NEW i \in 1..Len(q), Quiet(q, i, c), Turns(q[i], c),
               Ends(q[i]) \/ Said(q[i], c) = "both"
        PROVE  AtEnd(q, Listing(c), Turning(c), base)
    <2>1. q[i] \in Listing(c) BY <1>1, <1>3, <1>4 DEF Listing
    <2>2. \A k \in 1..Len(q) : i < k => q[k] \notin Turning(c) BY <1>3, <1>4 DEF Quiet
    <2>3. i < Len(q) + 1 BY <1>1
    <2> QED BY <2>1, <2>2, <2>3 DEF AtEnd, LastOf
  <1>5. ASSUME Silent(q, c), base PROVE AtEnd(q, Listing(c), Turning(c), base)
    <2>1. \A k \in 1..Len(q) : q[k] \notin Turning(c) BY <1>3, <1>5 DEF Silent
    <2> QED BY <1>5, <2>1 DEF AtEnd, LastOf
  <1>6. Matching(c) BY DEF Inv, Words
  <1>7. CASE interested
    <2>1. LastWord(q, hasRoster, users[c], "both", c) BY <1>2, <1>6, <1>7 DEF Matching
    <2>2. CASE \E i \in 1..Len(q) : Speaks(q[i], c) /\ Said(q[i], c) = "both" /\ Quiet(q, i, c)
      BY <1>4, <2>2 DEF Turns
    <2>3. CASE Silent(q, c) /\ hasRoster /\ Agrees(users[c], "both")
      BY <1>5, <2>3 DEF Agrees
    <2> QED BY <2>1, <2>2, <2>3 DEF LastWord
  <1>8. CASE ~interested
    <2>1. Unknown(q, hasRoster, users[c], c) BY <1>6, <1>8 DEF Matching
    <2>2. CASE \E i \in 1..Len(q) : Ends(q[i]) /\ Quiet(q, i, c)
      BY <1>4, <2>2 DEF Turns
    <2>3. CASE Silent(q, c)
      <3>1. \A k \in 1..Len(q) : q[k] \notin Ending
        BY <2>3 DEF Silent, Turns, Ending
      <3>2. AtEnd(q, Ending, Ending \cup Rosters, hasRoster => guessed)
        BY <1>8 DEF PresenceInv, ServerTells
      <3>3. hasRoster => guessed BY <3>1, <3>2 DEF AtEnd, LastOf
      <3> QED BY <1>5, <2>3, <3>3
    <2> QED BY <2>1, <2>2, <2>3 DEF Unknown
  <1> QED BY <1>7, <1>8 DEF Inv, TypeOK, StreamOK

LEMMA ServerSendsPresencePresence ==
    ASSUME Inv, PresenceInv, NEW d \in Contacts, ServerSendsPresence(d) PROVE PresenceInv'
  <1> DEFINE q == moduleQueue
             r == moduleQueue'
             e == Presence(IF d \in online THEN "available" ELSE "unavailable", d)
  <1>1. /\ d \in owed /\ owed' = owed \ {d} /\ r = Append(q, e) /\ Outside
        /\ UNCHANGED <<up, shown, left, roster, online, asks, interested, available>>
    BY DEF ServerSendsPresence, Posts, streamVars
  <1>2. /\ UNCHANGED <<config, requestedRoster, hasRoster, earlyPresenceElements, users,
                       resources, guessed>>
        /\ \A c : Counted(c)' = Counted(c)
        /\ Spoiled' = Spoiled
    BY <1>1, OutsideHeld
  <1>3. e \in Blocks /\ e.kind = "presence" BY BlockKinds
  <1>4. /\ d \in online => e \in Comes(d)
        /\ d \notin online => e \in Goes(d)
        /\ \A c \in Contacts : c # d \/ d \notin online => e \notin Comes(c)
        /\ \A c \in Contacts : c # d => e \notin Goes(c)
    BY <1>3 DEF Comes, Goes, Presence
  <1> HIDE DEF e
  <1>5. e \notin Ending /\ e \notin Rosters /\ e \notin Authenticates BY <1>3, Sorted
  <1>6. q \in Seq(Blocks) BY DEF Inv, TypeOK, ModuleOK
  <1>7. /\ r \in Seq(Blocks)
        /\ \A S : e \notin S /\ (\A i \in 1..Len(q) : q[i] \notin S) =>
                  \A i \in 1..Len(r) : r[i] \notin S
        /\ \A W, T, base : e \notin T /\ AtEnd(q, W, T, base) => AtEnd(r, W, T, base)
        /\ \A M, E, W, T, base :
              EachOf(q, M, E, W, T, base) /\ (e \in M => AtEnd(q, W, T, base)) =>
              EachOf(r, M, E, W, T, base)
    BY <1>1, <1>3, <1>6, Grown
  <1>8. /\ \A c \in owed : roster[c] = "both"
        /\ ~available => owed = {}
        /\ available /\ ~shown => left
        /\ up
    BY <1>1 DEF PresenceInv, ServerTells, Inv, TypeOK, StreamOK
  <1>9. ServerTells'
    <2>1. ~interested => AtEnd(q, Ending, Ending \cup Rosters, hasRoster => guessed)
      BY DEF PresenceInv, ServerTells
    <2>2. ~interested => AtEnd(r, Ending, Ending \cup Rosters, hasRoster => guessed)
      BY <1>5, <1>7, <2>1
    <2> QED BY <1>1, <1>2, <1>8, <2>2 DEF ServerTells
  <1>10. Requested'
    <2> DEFINE W == Authenticates
               T == Authenticates \cup Ending
    <2>1. SUFFICES ASSUME config.autoFetch
                   PROVE  /\ AtEnd(r, W, T, requestedRoster)
                          /\ EachOf(r, Presences, {}, W, T, requestedRoster)
      BY <1>2 DEF Requested
    <2>2. /\ AtEnd(q, W, T, requestedRoster)
          /\ EachOf(q, Presences, {}, W, T, requestedRoster)
      BY <1>8, <2>1 DEF PresenceInv, Requested
    <2>3. e \notin T BY <1>5
    <2> QED BY <1>7, <2>2, <2>3
  <1>11. ASSUME NEW c \in Contacts, Listed(c) PROVE Listed(c)'
    <2>1. e \in Comes(c) => c \in owed BY <1>1, <1>4
    <2>2. e \in Comes(c) => AtEnd(q, Listing(c), Turning(c),
                                  hasRoster /\ ~guessed => users[c] = "both")
      BY <2>1, OwedIsListed
    <2> QED BY <1>2, <1>7, <1>11, <2>2 DEF Listed
  <1>12. ASSUME NEW c \in Contacts, ToldRoster(c) PROVE ToldRoster(c)'
    <2>1. e \notin Without(c) BY <1>5 DEF Without
    <2> QED BY <1>1, <1>2, <1>7, <1>12, <2>1 DEF ToldRoster
  <1>13. ASSUME NEW c \in Contacts, ToldLast(c) PROVE ToldLast(c)'
    <2>1. Here(c)' = Here(c) BY <1>1 DEF Here
    <2>2. SUFFICES ASSUME up => ~left, c \notin owed'
                   PROVE  \/ AtEnd(r, Says(c, Here(c)), Telling(c), Counted(c) <=> Here(c))
                          \/ Here(c) /\ Spoiled /\ NotEnding'
      BY <1>1, <1>2, <2>1 DEF ToldLast
    <2>3. CASE c = d
      <3>1. Here(c) <=> d \in online BY <1>1, <1>8, <2>3 DEF Here
      <3>2. e \in Says(c, Here(c)) BY <1>4, <2>3, <3>1 DEF Says
      <3> QED BY <1>1, <1>3, <1>6, <3>2, LastAppend
    <2>4. CASE c # d
      <3>1. e \notin Telling(c) BY <1>4, <2>4 DEF Telling
      <3>2. c \notin owed BY <1>1, <2>2, <2>4
      <3>3. CASE AtEnd(q, Says(c, Here(c)), Telling(c), Counted(c) <=> Here(c))
        BY <1>7, <3>1, <3>3
      <3>4. CASE Here(c) /\ Spoiled /\ NotEnding BY <1>5, <1>7, <3>4 DEF NotEnding
      <3> QED BY <1>13, <2>2, <3>2, <3>3, <3>4 DEF ToldLast
    <2> QED BY <2>3, <2>4
  <1> QED BY <1>2, <1>9, <1>10, <1>11, <1>12, <1>13 DEF PresenceInv

LEMMA DidDisconnectPresence ==
    ASSUME Inv, PresenceInv, DidDisconnect PROVE PresenceInv'
  <1> DEFINE q == moduleQueue
             r == moduleQueue'
             e == Event("didDisconnect")
  <1>1. /\ up' = FALSE /\ interested' = FALSE /\ available' = FALSE /\ owed' = {}
        /\ r = Append(q, e) /\ Outside /\ UNCHANGED <<left, roster, online>>
    BY DEF DidDisconnect, Posts
  <1>2. /\ UNCHANGED <<config, requestedRoster, hasRoster, earlyPresenceElements, users,
                       resources, guessed>>
        /\ \A c : Counted(c)' = Counted(c)
        /\ Spoiled' = Spoiled
    BY <1>1, OutsideHeld
  <1>3. e \in Blocks /\ e.kind = "didDisconnect" BY BlockKinds
  <1> HIDE DEF e
  <1>4. /\ e \in Ending /\ e \notin Rosters /\ e \notin Presences
        /\ \A c \in Contacts : e \in Goes(c) /\ e \notin Comes(c) /\ e \notin Without(c)
    BY <1>3, Sorted
  <1>5. q \in Seq(Blocks) BY DEF Inv, TypeOK, ModuleOK
  <1>6. /\ \A W, T, base : e \in W => AtEnd(r, W, T, base)
        /\ \A M, E, W, T, base : EachOf(q, M, E, W, T, base) /\ e \notin M =>
                                 EachOf(r, M, E, W, T, base)
    BY <1>1, <1>3, <1>5, LastAppend, EachAppend
  <1>7. ServerTells' BY <1>1, <1>4, <1>6 DEF ServerTells
  <1>8. Requested' BY <1>1, <1>2, <1>4, <1>6 DEF Requested, PresenceInv
  <1>9. ASSUME NEW c \in Contacts, Listed(c) PROVE Listed(c)'
    BY <1>2, <1>4, <1>6, <1>9 DEF Listed
  <1>10. ASSUME NEW c \in Contacts, ToldRoster(c) PROVE ToldRoster(c)'
    BY <1>1, <1>2, <1>4, <1>6, <1>10 DEF ToldRoster
  <1>11. ASSUME NEW c \in Contacts PROVE ToldLast(c)'
    <2>1. ~Here(c)' BY <1>1 DEF Here
    <2>2. e \in Says(c, Here(c)') BY <1>4, <2>1 DEF Says
    <2>3. AtEnd(r, Says(c, Here(c)'), Telling(c), Counted(c)' <=> Here(c)') BY <1>6, <2>2
    <2> QED BY <2>3 DEF ToldLast
  <1> QED BY <1>2, <1>7, <1>8, <1>9, <1>10, <1>11 DEF PresenceInv

\* A roster that does not list a contact finds its presence told, or none.
LEMMA ServerAnswersFetchPresence ==
    ASSUME Inv, PresenceInv, NEW id \in Ids, ServerAnswersFetch(id) PROVE PresenceInv'
  <1> DEFINE q == moduleQueue
             r == moduleQueue'
             e == Result(id, roster)
  <1>1. /\ id \in asks /\ interested' = TRUE /\ r = Append(q, e) /\ Outside
        /\ UNCHANGED <<up, shown, left, roster, online, available, owed>>
    BY DEF ServerAnswersFetch, Posts, streamVars
  <1>2. /\ UNCHANGED <<config, requestedRoster, hasRoster, earlyPresenceElements, users,
                       resources, guessed>>
        /\ \A c : Counted(c)' = Counted(c)
        /\ Spoiled' = Spoiled
    BY <1>1, OutsideHeld
  <1>3. e \in Blocks /\ e.kind = "result" /\ e.items = roster
    BY BlockKinds DEF Inv, TypeOK, ServerOK
  <1> HIDE DEF e
  <1>4. /\ e \notin Ending /\ e \notin Presences /\ e \notin Authenticates
        /\ \A c \in Contacts : e \notin Goes(c) /\ e \notin Comes(c)
    BY <1>3, Sorted
  <1>5. q \in Seq(Blocks) BY DEF Inv, TypeOK, ModuleOK
  <1>6. /\ r \in Seq(Blocks)
        /\ \A S : e \notin S /\ (\A i \in 1..Len(q) : q[i] \notin S) =>
                  \A i \in 1..Len(r) : r[i] \notin S
        /\ \A W, T, base : e \notin T /\ AtEnd(q, W, T, base) => AtEnd(r, W, T, base)
        /\ \A M, E, W, T, base :
              EachOf(q, M, E, W, T, base) /\ (e \in M => AtEnd(q, W, T, base)) =>
              EachOf(r, M, E, W, T, base)
    BY <1>1, <1>3, <1>5, Grown
  <1>7. up BY <1>1 DEF Inv, TypeOK, StreamOK
  <1>8. ServerTells' BY <1>1, <1>7 DEF PresenceInv, ServerTells
  <1>9. Requested'
    <2>1. e \notin Authenticates \cup Ending BY <1>4
    <2> QED BY <1>1, <1>2, <1>4, <1>6, <2>1 DEF PresenceInv, Requested
  <1>10. ASSUME NEW c \in Contacts, Listed(c) PROVE Listed(c)'
    BY <1>2, <1>4, <1>6, <1>10 DEF Listed
  <1>11. \A c \in Contacts : e \notin Telling(c) /\ Here(c)' = Here(c)
    BY <1>1, <1>4 DEF Telling, Here
  <1>12. ASSUME NEW c \in Contacts, ToldRoster(c), ToldLast(c) PROVE ToldRoster(c)'
    <2>1. ASSUME ~left, e \in Without(c) PROVE AtEnd(q, Goes(c), Telling(c), ~Counted(c))
      <3>1. roster[c] # "both" BY <1>3, <2>1 DEF Without
      <3>2. ~Here(c) /\ c \notin owed BY <3>1 DEF Here, PresenceInv, ServerTells
      <3>3. AtEnd(q, Goes(c), Telling(c), Counted(c) <=> Here(c))
        BY <1>12, <2>1, <3>2 DEF ToldLast, Says
      <3>4. (Counted(c) <=> Here(c)) => ~Counted(c) BY <3>2
      <3> QED BY <3>3, <3>4, BaseFollows
    <2> QED BY <1>1, <1>2, <1>6, <1>12, <2>1 DEF ToldRoster
  <1>13. ASSUME NEW c \in Contacts, ToldLast(c) PROVE ToldLast(c)'
    <2>1. SUFFICES ASSUME up => ~left, c \notin owed
                   PROVE  \/ AtEnd(r, Says(c, Here(c)), Telling(c), Counted(c) <=> Here(c))
                          \/ Here(c) /\ Spoiled /\ NotEnding'
      BY <1>1, <1>2, <1>11 DEF ToldLast
    <2>2. CASE AtEnd(q, Says(c, Here(c)), Telling(c), Counted(c) <=> Here(c))
      BY <1>6, <1>11, <2>2
    <2>3. CASE Here(c) /\ Spoiled /\ NotEnding BY <1>4, <1>6, <2>3 DEF NotEnding
    <2> QED BY <1>13, <2>1, <2>2, <2>3 DEF ToldLast
  <1> QED BY <1>2, <1>8, <1>9, <1>10, <1>12, <1>13 DEF PresenceInv

\* The presence of a contact ends before the push says that it is not subscribed to any more.
LEMMA RosterChangesPresence ==
    ASSUME Inv, PresenceInv, NEW d \in Contacts, NEW new \in Items, RosterChanges(d, new)
    PROVE  PresenceInv'
  <1> DEFINE q == moduleQueue
             p == Presence("unavailable", d)
             e == Push(d, new)
             m == q \o (IF available /\ roster[d] = "both" THEN <<p>> ELSE <<>>)
             r == moduleQueue'
  <1>1. /\ p \in Blocks /\ p.kind = "presence" /\ p \in Goes(d)
        /\ e \in Blocks /\ e.kind = "push" /\ e.jid = d /\ e.item = new
        /\ new = "absent" => e \in Goes(d)
    BY BlockKinds DEF Goes
  <1>2. q \in Seq(Blocks) BY DEF Inv, TypeOK, ModuleOK
  <1>3. m = IF available /\ roster[d] = "both" THEN Append(q, p) ELSE q
    BY <1>1, <1>2, Concatenated
  <1>4. m \in Seq(Blocks) BY <1>1, <1>2, <1>3, AppendFacts
  <1>5. r = IF interested THEN Append(m, e) ELSE m
    BY <1>1, <1>4, Concatenated DEF RosterChanges
  <1>6. /\ Outside /\ roster' = [roster EXCEPT ![d] = new] /\ new # roster[d]
        /\ owed' = IF new = "both" /\ available /\ d \in online THEN owed \cup {d} ELSE owed \ {d}
        /\ UNCHANGED <<up, shown, left, online, interested, available>>
    BY DEF RosterChanges, streamVars
  <1>7. /\ \A c \in Contacts : p \notin Comes(c) /\ (c # d => p \notin Goes(c))
        /\ \A c \in Contacts : e \notin Comes(c) /\ (c # d \/ new # "absent" => e \notin Goes(c))
    <2>1. \A c \in Contacts : p # Presence("available", c) /\ e # Presence("available", c)
      BY <1>1 DEF Presence
    <2>2. \A c \in Contacts : c # d => p # Presence("unavailable", c) BY DEF Presence
    <2>3. \A c \in Contacts : e # Presence("unavailable", c) BY <1>1 DEF Presence
    <2> HIDE DEF p, e
    <2> QED BY <1>1, <2>1, <2>2, <2>3 DEF Comes, Goes
  <1> HIDE DEF p, e, m
  <1>8. /\ p \notin Ending /\ p \notin Rosters /\ p \notin Authenticates
        /\ e \notin Ending /\ e \notin Rosters /\ e \notin Authenticates /\ e \notin Presences
    BY <1>1, Sorted
  <1>9. /\ UNCHANGED <<config, requestedRoster, hasRoster, earlyPresenceElements, users,
                       resources, guessed>>
        /\ \A c : Counted(c)' = Counted(c)
        /\ Spoiled' = Spoiled
    BY <1>6, OutsideHeld
  <1>10. /\ \A S : p \notin S /\ (\A i \in 1..Len(q) : q[i] \notin S) =>
                   \A i \in 1..Len(m) : m[i] \notin S
         /\ \A W, T, base : p \notin T /\ AtEnd(q, W, T, base) => AtEnd(m, W, T, base)
         /\ \A M, E, W, T, base :
               EachOf(q, M, E, W, T, base) /\ (p \in M => AtEnd(q, W, T, base)) =>
               EachOf(m, M, E, W, T, base)
    BY <1>1, <1>2, <1>3, Grown
  <1>11. /\ \A S : e \notin S /\ (\A i \in 1..Len(m) : m[i] \notin S) =>
                   \A i \in 1..Len(r) : r[i] \notin S
         /\ \A W, T, base : e \notin T /\ AtEnd(m, W, T, base) => AtEnd(r, W, T, base)
         /\ \A M, E, W, T, base :
               EachOf(m, M, E, W, T, base) /\ e \notin M => EachOf(r, M, E, W, T, base)
    <2>1. r = m \/ r = Append(m, e) BY <1>5
    <2> HIDE DEF r
    <2> QED BY <1>1, <1>4, <2>1, Grown
  <1>12. /\ \A c \in owed : roster[c] = "both"
         /\ ~available => owed = {}
         /\ available /\ ~shown => left
         /\ roster \in [Contacts -> Items] /\ (available => up)
    BY DEF PresenceInv, ServerTells, Inv, TypeOK, StreamOK, ServerOK
  <1>13. ServerTells'
    <2> DEFINE T == Ending \cup Rosters
    <2>1. p \notin T /\ e \notin T BY <1>8
    <2>2. /\ ~up => AtEnd(q, Ending, T, TRUE)
          /\ ~interested => AtEnd(q, Ending, T, hasRoster => guessed)
      BY DEF PresenceInv, ServerTells
    <2>3. /\ ~up => AtEnd(r, Ending, T, TRUE)
          /\ ~interested => AtEnd(r, Ending, T, hasRoster => guessed)
      BY <1>10, <1>11, <2>1, <2>2
    <2>4. \A c \in owed' : roster'[c] = "both"
      BY <1>6, <1>12 DEF Inv, TypeOK, ServerOK
    <2> QED BY <1>6, <1>9, <1>12, <2>3, <2>4 DEF ServerTells
  <1>14. Requested'
    <2> DEFINE W == Authenticates
               T == Authenticates \cup Ending
    <2>1. SUFFICES ASSUME config.autoFetch
                   PROVE  /\ up => AtEnd(r, W, T, requestedRoster)
                          /\ EachOf(r, Presences, {}, W, T, requestedRoster)
      BY <1>6, <1>9 DEF Requested
    <2>2. /\ up => AtEnd(q, W, T, requestedRoster)
          /\ EachOf(q, Presences, {}, W, T, requestedRoster)
      BY <2>1 DEF PresenceInv, Requested
    <2>3. p \notin T /\ e \notin T BY <1>8
    <2>4. up => AtEnd(r, W, T, requestedRoster) BY <1>10, <1>11, <2>2, <2>3
    <2>5. EachOf(m, Presences, {}, W, T, requestedRoster)
      <3>1. CASE up BY <1>10, <2>2, <3>1
      <3>2. CASE ~up
        <4>1. m = q BY <1>3, <1>12, <3>2
        <4> QED BY <2>2, <4>1
      <3> QED BY <3>1, <3>2
    <2>6. EachOf(r, Presences, {}, W, T, requestedRoster) BY <1>8, <1>11, <2>5
    <2> QED BY <2>4, <2>6
  <1>15. ASSUME NEW c \in Contacts, Listed(c) PROVE Listed(c)'
    <2>1. SUFFICES ASSUME ~config.rosterless
                   PROVE  EachOf(r, Comes(c), {}, Listing(c), Turning(c),
                                 hasRoster /\ ~guessed => users[c] = "both")
      BY <1>9 DEF Listed
    <2>2. EachOf(q, Comes(c), {}, Listing(c), Turning(c),
                 hasRoster /\ ~guessed => users[c] = "both")
      BY <1>15, <2>1 DEF Listed
    <2> QED BY <1>7, <1>10, <1>11, <2>2
  <1>16. ASSUME NEW c \in Contacts, ToldRoster(c) PROVE ToldRoster(c)'
    <2>1. p \notin Without(c) /\ e \notin Without(c) BY <1>8 DEF Without
    <2>2. ~left => EachOf(q, Without(c), Ending, Goes(c), Telling(c), ~Counted(c))
      BY <1>16 DEF ToldRoster
    <2>3. ~left => EachOf(r, Without(c), Ending, Goes(c), Telling(c), ~Counted(c))
      BY <1>10, <1>11, <2>1, <2>2
    <2> QED BY <1>6, <1>9, <2>3 DEF ToldRoster
  <1>17. ASSUME NEW c \in Contacts, c # d, ToldLast(c) PROVE ToldLast(c)'
    <2>1. p \notin Telling(c) /\ e \notin Telling(c) BY <1>7, <1>17 DEF Telling
    <2>2. Here(c)' = Here(c) BY <1>6, <1>12, <1>17 DEF Here
    <2>3. SUFFICES ASSUME up => ~left, c \notin owed
                   PROVE  \/ AtEnd(r, Says(c, Here(c)), Telling(c), Counted(c) <=> Here(c))
                          \/ Here(c) /\ Spoiled /\ NotEnding'
      BY <1>6, <1>9, <1>17, <2>2 DEF ToldLast
    <2>4. CASE AtEnd(q, Says(c, Here(c)), Telling(c), Counted(c) <=> Here(c))
      BY <1>10, <1>11, <2>1, <2>4
    <2>5. CASE Here(c) /\ Spoiled /\ NotEnding
      <3>1. NotEnding' BY <1>8, <1>10, <1>11, <2>5 DEF NotEnding
      <3> QED BY <2>5, <3>1
    <2> QED BY <1>17, <2>3, <2>4, <2>5 DEF ToldLast
  <1>18. ASSUME ToldLast(d) PROVE ToldLast(d)'
    <2>1. SUFFICES ASSUME up => ~left, d \notin owed'
                   PROVE  AtEnd(r, Says(d, Here(d)'), Telling(d), Counted(d) <=> Here(d)')
      BY <1>6, <1>9 DEF ToldLast
    <2>2. ~Here(d)' BY <1>6, <1>12, <2>1 DEF Here
    <2> DEFINE base == Counted(d) <=> Here(d)'
    <2>3. AtEnd(m, Goes(d), Telling(d), base)
      <3>1. CASE available /\ roster[d] = "both" BY <1>1, <1>2, <1>3, <3>1, LastAppend
      <3>2. CASE ~(available /\ roster[d] = "both")
        <4>1. ~Here(d) /\ d \notin owed /\ m = q BY <1>3, <1>12, <3>2 DEF Here
        <4>2. AtEnd(q, Goes(d), Telling(d), Counted(d) <=> Here(d))
          BY <1>18, <2>1, <4>1 DEF ToldLast, Says
        <4>3. (Counted(d) <=> Here(d)) => base BY <2>2, <4>1
        <4> QED BY <4>1, <4>2, <4>3, BaseFollows
      <3> QED BY <3>1, <3>2
    <2>4. AtEnd(r, Goes(d), Telling(d), base)
      <3>1. CASE e \in Goes(d) /\ interested BY <1>1, <1>4, <1>5, <3>1, LastAppend
      <3>2. CASE ~interested BY <1>5, <2>3, <3>2
      <3>3. CASE e \notin Goes(d)
        <4>1. e \notin Telling(d) BY <1>7, <3>3 DEF Telling
        <4> QED BY <1>11, <2>3, <4>1
      <3> QED BY <3>1, <3>2, <3>3
    <2> QED BY <2>2, <2>4 DEF Says
  <1> QED BY <1>9, <1>13, <1>14, <1>15, <1>16, <1>17, <1>18 DEF PresenceInv

-----------------------------------------------------------------------------
(* Presence: the handlers of XMPPRoster and its timers.                        *)

LEMMA OnlineAppend ==
    ASSUME NEW ps \in Seq(Presences), NEW p \in Presences, NEW was, NEW c \in Contacts
    PROVE  /\ p = Presence("available", c) => c \in OnlineAfter(Append(ps, p), was)
           /\ p = Presence("unavailable", c) => c \notin OnlineAfter(Append(ps, p), was)
           /\ p \notin {Presence("available", c), Presence("unavailable", c)} =>
                 (c \in OnlineAfter(Append(ps, p), was) <=> c \in OnlineAfter(ps, was))
  <1> DEFINE r == Append(ps, p)
             on == Presence("available", c)
             off == Presence("unavailable", c)
  <1>1. /\ Len(r) = Len(ps) + 1 /\ Len(ps) \in Nat /\ r[Len(ps) + 1] = p
        /\ \A i \in 1..Len(ps) : i \in 1..Len(r) /\ r[i] = ps[i]
        /\ \A i \in 1..Len(r) : i \in 1..Len(ps) \/ i = Len(ps) + 1
        /\ r \in Seq(Presences)
    BY AppendFacts
  <1>2. DOMAIN r = 1..Len(r) /\ DOMAIN ps = 1..Len(ps) BY <1>1
  <1>3. on # off BY DEF Presence
  <1> HIDE DEF r, on, off
  <1>4. /\ c \in OnlineAfter(r, was) <=>
              \/ c \in was /\ \A i \in 1..Len(r) : r[i] # off
              \/ \E i \in 1..Len(r) : r[i] = on /\ \A j \in 1..Len(r) : j > i => r[j] # off
        /\ c \in OnlineAfter(ps, was) <=>
              \/ c \in was /\ \A i \in 1..Len(ps) : ps[i] # off
              \/ \E i \in 1..Len(ps) : ps[i] = on /\ \A j \in 1..Len(ps) : j > i => ps[j] # off
    BY <1>2 DEF OnlineAfter, on, off
  <1>5. ASSUME p = on PROVE c \in OnlineAfter(r, was)
    <2>1. Len(r) \in 1..Len(r) /\ r[Len(r)] = on /\ \A j \in 1..Len(r) : ~(j > Len(r))
      BY <1>1, <1>5
    <2> QED BY <1>4, <2>1
  <1>6. ASSUME p = off PROVE c \notin OnlineAfter(r, was)
    <2>1. Len(r) \in 1..Len(r) /\ r[Len(r)] = off BY <1>1, <1>6
    <2>2. \A i \in 1..Len(r) : i = Len(r) \/ Len(r) > i BY <1>1
    <2> QED BY <1>3, <1>4, <2>1, <2>2
  <1>7. ASSUME p # on, p # off PROVE c \in OnlineAfter(r, was) <=> c \in OnlineAfter(ps, was)
    <2>1. (\A i \in 1..Len(r) : r[i] # off) <=> (\A i \in 1..Len(ps) : ps[i] # off)
      BY <1>1, <1>7
    <2>2. ASSUME NEW i \in 1..Len(r), r[i] = on, \A j \in 1..Len(r) : j > i => r[j] # off
          PROVE  i \in 1..Len(ps) /\ ps[i] = on /\ \A j \in 1..Len(ps) : j > i => ps[j] # off
      BY <1>1, <1>7, <2>2
    <2>3. ASSUME NEW i \in 1..Len(ps), ps[i] = on, \A j \in 1..Len(ps) : j > i => ps[j] # off
          PROVE  i \in 1..Len(r) /\ r[i] = on /\ \A j \in 1..Len(r) : j > i => r[j] # off
      BY <1>1, <1>7, <2>3
    <2> QED BY <1>4, <2>1, <2>2, <2>3
  <1> QED BY <1>5, <1>6, <1>7 DEF r, on, off

LEMMA OnlineNone ==
    ASSUME NEW was, NEW c \in Contacts
    PROVE  c \in OnlineAfter(<<>>, was) <=> c \in was
  BY DEF OnlineAfter

LEMMA OnlineOne ==
    ASSUME NEW p \in Presences, NEW was, NEW c \in Contacts
    PROVE  /\ p = Presence("available", c) => c \in OnlineAfter(<<p>>, was)
           /\ p = Presence("unavailable", c) => c \notin OnlineAfter(<<p>>, was)
           /\ p \notin {Presence("available", c), Presence("unavailable", c)} =>
                 (c \in OnlineAfter(<<p>>, was) <=> c \in was)
  <1>1. <<>> \in Seq(Presences) /\ Append(<<>>, p) = <<p>> OBVIOUS
  <1>2. /\ p = Presence("available", c) => c \in OnlineAfter(Append(<<>>, p), was)
        /\ p = Presence("unavailable", c) => c \notin OnlineAfter(Append(<<>>, p), was)
        /\ p \notin {Presence("available", c), Presence("unavailable", c)} =>
              (c \in OnlineAfter(Append(<<>>, p), was) <=> c \in OnlineAfter(<<>>, was))
    BY <1>1, OnlineAppend
  <1> QED BY <1>1, <1>2, OnlineNone

\* The block that is handled, or a timer, does to the presence of c what the block says.
Minds(b, c) ==
    /\ b \in Goes(c) \/ (b \notin Telling(c) /\ ~Counted(c)) => ~Counted(c)'
    /\ (config.rosterless \/ config.autoFetch) /\ ~left /\ NotEnding
         /\ (b \in Comes(c) \/ (b \notin Telling(c) /\ Counted(c)))
       => Counted(c)' \/ Spoiled'

LEMMA TakenPresence ==
    ASSUME Inv, PresenceInv, Inside, moduleQueue # <<>>, moduleQueue' = Tail(moduleQueue),
           NEW b, b = Head(moduleQueue),
           config.rosterless => earlyPresenceElements' = <<>>,
           config.autoFetch /\ (b \in Authenticates \/ (b \notin Ending /\ requestedRoster)) =>
               requestedRoster',
           b \in Ending \/ (b \notin Rosters /\ (hasRoster => guessed)) => (hasRoster' => guessed'),
           b \notin Ending /\ Spoiled => Spoiled',
           \A c \in Contacts :
               ~config.rosterless /\ (\/ b \in Listing(c)
                                      \/ /\ b \notin Turning(c)
                                         /\ hasRoster /\ ~guessed => users[c] = "both")
               => (hasRoster' /\ ~guessed' => users'[c] = "both"),
           \A c \in Contacts : Minds(b, c)
    PROVE  PresenceInv'
  <1> DEFINE q == moduleQueue
             r == moduleQueue'
  <1>1. q \in Seq(Blocks) /\ b \in Blocks BY TailFacts DEF Inv, TypeOK, ModuleOK
  <1>2. UNCHANGED <<up, shown, left, roster, online, interested, available, owed, config>>
    BY DEF Inside, streamVars
  <1>3. ASSUME NEW W, NEW T, NEW base, NEW base2, AtEnd(q, W, T, base),
               /\ \A k \in 1..Len(q) : 1 < k => q[k] \notin T
               /\ b \in W \/ (b \notin T /\ base)
               => base2
        PROVE  AtEnd(r, W, T, base2)
    BY <1>1, <1>3, EndTail
  <1>4. ASSUME NEW M, NEW E, NEW W, NEW T, NEW base, NEW base2, EachOf(q, M, E, W, T, base),
               b \in W \/ (b \notin T /\ base) => base2
        PROVE  EachOf(r, M, E, W, T, base2)
    BY <1>1, <1>4, EachTail
  <1>5. ServerTells'
    <2>1. ServerTells BY DEF PresenceInv
    <2>2. ~up => AtEnd(r, Ending, Ending \cup Rosters, TRUE) BY <1>3, <2>1 DEF ServerTells
    <2>3. ~interested => AtEnd(r, Ending, Ending \cup Rosters, hasRoster' => guessed')
      <3>1. SUFFICES ASSUME ~interested
                     PROVE  AtEnd(r, Ending, Ending \cup Rosters, hasRoster' => guessed')
        OBVIOUS
      <3>2. AtEnd(q, Ending, Ending \cup Rosters, hasRoster => guessed)
        BY <2>1, <3>1 DEF ServerTells
      <3>3. b \in Ending \/ (b \notin Ending \cup Rosters /\ (hasRoster => guessed)) =>
            (hasRoster' => guessed')
        OBVIOUS
      <3> QED BY <1>3, <3>2, <3>3
    <2> QED BY <1>2, <2>1, <2>2, <2>3 DEF ServerTells
  <1>6. Requested'
    <2> DEFINE W == Authenticates
               T == Authenticates \cup Ending
    <2>1. SUFFICES ASSUME config.autoFetch
                   PROVE  /\ up => AtEnd(r, W, T, requestedRoster')
                          /\ EachOf(r, Presences, {}, W, T, requestedRoster')
      BY <1>2 DEF Requested
    <2>2. /\ up => AtEnd(q, W, T, requestedRoster)
          /\ EachOf(q, Presences, {}, W, T, requestedRoster)
      BY <2>1 DEF PresenceInv, Requested
    <2>3. b \in W \/ (b \notin T /\ requestedRoster) => requestedRoster' BY <2>1
    <2>4. up => AtEnd(r, W, T, requestedRoster') BY <1>3, <2>2, <2>3
    <2>5. EachOf(r, Presences, {}, W, T, requestedRoster') BY <1>4, <2>2, <2>3
    <2> QED BY <2>4, <2>5
  <1>7. ASSUME NEW c \in Contacts, Listed(c) PROVE Listed(c)'
    <2> DEFINE base == hasRoster /\ ~guessed => users[c] = "both"
    <2>1. SUFFICES ASSUME ~config.rosterless
                   PROVE  EachOf(r, Comes(c), {}, Listing(c), Turning(c), base')
      BY <1>2 DEF Listed
    <2>2. EachOf(q, Comes(c), {}, Listing(c), Turning(c), base) BY <1>7, <2>1 DEF Listed
    <2>3. b \in Listing(c) \/ (b \notin Turning(c) /\ base) => base' BY <2>1
    <2> HIDE DEF base
    <2> QED BY <1>4, <2>2, <2>3
  <1>8. ASSUME NEW c \in Contacts, ToldRoster(c) PROVE ToldRoster(c)'
    <2>1. SUFFICES ASSUME ~left
                   PROVE  EachOf(r, Without(c), Ending, Goes(c), Telling(c), ~Counted(c)')
      BY <1>2 DEF ToldRoster
    <2>2. EachOf(q, Without(c), Ending, Goes(c), Telling(c), ~Counted(c))
      BY <1>8, <2>1 DEF ToldRoster
    <2>3. b \in Goes(c) \/ (b \notin Telling(c) /\ ~Counted(c)) => ~Counted(c)' BY DEF Minds
    <2> QED BY <1>4, <2>2, <2>3
  <1>9. ASSUME NEW c \in Contacts, config.rosterless \/ config.autoFetch, ToldLast(c)
        PROVE  ToldLast(c)'
    <2>1. Here(c)' = Here(c) /\ Here(c) \in BOOLEAN BY <1>2 DEF Here
    <2>2. SUFFICES ASSUME up => ~left, c \notin owed
                   PROVE  \/ AtEnd(r, Says(c, Here(c)), Telling(c), Counted(c)' <=> Here(c))
                          \/ Here(c) /\ Spoiled' /\ NotEnding'
      BY <1>2, <2>1 DEF ToldLast
    <2>3. NotEnding => NotEnding' /\ b \notin Ending BY <1>1, TailFacts DEF NotEnding
    <2>4. CASE Here(c) /\ Spoiled /\ NotEnding BY <2>3, <2>4
    <2>5. CASE ~Here(c) /\ AtEnd(q, Says(c, Here(c)), Telling(c), Counted(c) <=> Here(c))
      <3>1. AtEnd(q, Goes(c), Telling(c), Counted(c) <=> Here(c)) BY <2>5 DEF Says
      <3>2. b \in Goes(c) \/ (b \notin Telling(c) /\ (Counted(c) <=> Here(c))) =>
            (Counted(c)' <=> Here(c))
        BY <2>5 DEF Minds
      <3>3. AtEnd(r, Goes(c), Telling(c), Counted(c)' <=> Here(c)) BY <1>3, <3>1, <3>2
      <3> QED BY <2>5, <3>3 DEF Says
    <2>6. CASE Here(c) /\ AtEnd(q, Says(c, Here(c)), Telling(c), Counted(c) <=> Here(c))
      <3>1. AtEnd(q, Comes(c), Telling(c), Counted(c) <=> Here(c)) BY <2>6 DEF Says
      <3>2. ~left BY <2>2, <2>6 DEF Here, Inv, TypeOK, StreamOK
      <3>3. CASE /\ \A k \in 1..Len(q) : 1 < k => q[k] \notin Telling(c)
                 /\ b \in Comes(c) \/ (b \notin Telling(c) /\ (Counted(c) <=> Here(c)))
                 /\ ~(Counted(c)' <=> Here(c))
        <4>1. Ending \subseteq Goes(c) BY Sorted DEF Ending
        <4>2. b \notin Ending
          BY <1>1, <3>3, <4>1, Sorted DEF Telling
        <4>3. NotEnding
          <5>1. \A k \in 1..Len(q) : k = 1 \/ 1 < k BY <1>1
          <5>2. q[1] = b BY <1>1, TailFacts
          <5> QED BY <3>3, <4>1, <4>2, <5>1, <5>2 DEF NotEnding, Telling
        <4>4. Counted(c)' \/ Spoiled' BY <1>9, <2>6, <3>2, <3>3, <4>3 DEF Minds
        <4> QED BY <2>3, <2>6, <3>3, <4>3, <4>4
      <3>4. CASE /\ \A k \in 1..Len(q) : 1 < k => q[k] \notin Telling(c)
                 /\ b \in Comes(c) \/ (b \notin Telling(c) /\ (Counted(c) <=> Here(c)))
                 => (Counted(c)' <=> Here(c))
        <4>1. AtEnd(r, Comes(c), Telling(c), Counted(c)' <=> Here(c)) BY <1>3, <3>1, <3>4
        <4> QED BY <2>6, <4>1 DEF Says
      <3> QED BY <3>3, <3>4
    <2> QED BY <1>9, <2>2, <2>4, <2>5, <2>6 DEF ToldLast
  <1> QED BY <1>2, <1>5, <1>6, <1>7, <1>8, <1>9 DEF PresenceInv

\* Blocks that leave the roster, the users and their presence alone.
LEMMA IdlePresence ==
    ASSUME Inv, PresenceInv, Inside, NEW kind \in {"didAuthenticate", "fetch"}, Taking(kind),
           UNCHANGED <<hasRoster, earlyPresenceElements, users, resources, guessed>>,
           config.autoFetch /\ (kind = "didAuthenticate" \/ requestedRoster) => requestedRoster'
    PROVE  PresenceInv'
  <1> DEFINE b == Head(moduleQueue)
  <1>1. /\ moduleQueue # <<>> /\ moduleQueue' = Tail(moduleQueue) /\ b \in Blocks /\ b.kind = kind
        /\ UNCHANGED config
    BY TakenFacts DEF Inv, Inside
  <1> HIDE DEF b
  <1>2. /\ b \notin Ending /\ b \notin Rosters /\ (b \in Authenticates => kind = "didAuthenticate")
        /\ \A c \in Contacts : b \notin Goes(c) /\ b \notin Comes(c)
    BY <1>1, Sorted
  <1>3. \A c \in Contacts : b \notin Listing(c)
    BY <1>1 DEF Listing, Turning, Turns, Speaks, Ends
  <1>4. Spoiled' = Spoiled /\ \A c \in Contacts : Counted(c)' = Counted(c)
    BY <1>1 DEF Spoiled, Counted
  <1>5. \A c \in Contacts : Minds(b, c) BY <1>2, <1>4 DEF Minds
  <1>6. config.rosterless => earlyPresenceElements' = <<>> BY DEF PresenceInv
  <1> QED BY <1>1, <1>2, <1>3, <1>4, <1>5, <1>6, TakenPresence DEF b

LEMMA HandleDidAuthenticatePresence ==
    ASSUME Inv, PresenceInv, HandleDidAuthenticate PROVE PresenceInv'
  <1>1. /\ Taking("didAuthenticate") /\ Inside
        /\ UNCHANGED <<hasRoster, earlyPresenceElements, users, resources, guessed>>
    BY DEF HandleDidAuthenticate, storeVars, toldVars
  <1>2. config.autoFetch => requestedRoster'
    BY DEF HandleDidAuthenticate, FetchRosterVersion, Inv, TypeOK, ModuleOK
  <1> QED BY <1>1, <1>2, IdlePresence

LEMMA HandleFetchPresence ==
    ASSUME Inv, PresenceInv, HandleFetch PROVE PresenceInv'
  <1>1. /\ Taking("fetch") /\ Inside
        /\ UNCHANGED <<hasRoster, earlyPresenceElements, users, resources, guessed>>
    BY DEF HandleFetch, storeVars, toldVars
  <1>2. requestedRoster'
    BY DEF HandleFetch, FetchRosterVersion, Inv, TypeOK, ModuleOK
  <1> QED BY <1>1, <1>2, IdlePresence

\* Blocks that leave nobody a resource.
LEMMA ClearingPresence ==
    ASSUME Inv, PresenceInv, Inside, NEW kind \in {"didDisconnect", "didSendUnavailable"},
           Taking(kind), resources' = {}, earlyPresenceElements' = <<>>,
           kind = "didDisconnect" => hasRoster' = FALSE,
           kind = "didSendUnavailable" => UNCHANGED <<requestedRoster, hasRoster, users, guessed>>
    PROVE  PresenceInv'
  <1> DEFINE b == Head(moduleQueue)
  <1>1. /\ moduleQueue # <<>> /\ moduleQueue' = Tail(moduleQueue) /\ b \in Blocks /\ b.kind = kind
        /\ UNCHANGED config
    BY TakenFacts DEF Inv, Inside
  <1> HIDE DEF b
  <1>2. /\ b \in Ending <=> kind = "didDisconnect"
        /\ b \notin Rosters /\ b \notin Authenticates
        /\ \A c \in Contacts : b \in Goes(c) /\ b \notin Comes(c)
    BY <1>1, Sorted
  <1>3. \A c \in Contacts : ~Counted(c)' BY <1>1, OnlineNone DEF Counted
  <1>4. \A c \in Contacts : Minds(b, c) BY <1>2, <1>3 DEF Minds, Telling
  <1>5. CASE kind = "didDisconnect"
    <2>1. b \in Ending /\ hasRoster' = FALSE BY <1>2, <1>5
    <2> QED BY <1>1, <1>2, <1>4, <2>1, TakenPresence DEF b
  <1>6. CASE kind = "didSendUnavailable"
    <2>1. b \notin Ending /\ UNCHANGED <<requestedRoster, hasRoster, users, guessed>>
      BY <1>2, <1>6
    <2>2. Spoiled' = Spoiled BY <1>1, <2>1 DEF Spoiled
    <2>3. \A c \in Contacts : b \notin Listing(c)
      BY <1>1, <1>6 DEF Listing, Turning, Turns, Speaks, Ends
    <2> QED BY <1>1, <1>2, <1>4, <2>1, <2>2, <2>3, TakenPresence DEF b
  <1> QED BY <1>5, <1>6

LEMMA HandleDidSendUnavailablePresence ==
    ASSUME Inv, PresenceInv, HandleDidSendUnavailable PROVE PresenceInv'
  <1>1. /\ Taking("didSendUnavailable") /\ Inside /\ resources' = {}
        /\ earlyPresenceElements' = <<>> /\ UNCHANGED <<requestedRoster, hasRoster, users, guessed>>
    BY DEF HandleDidSendUnavailable, toldVars
  <1> QED BY <1>1, ClearingPresence

LEMMA HandleDidDisconnectPresence ==
    ASSUME Inv, PresenceInv, HandleDidDisconnect PROVE PresenceInv'
  <1>1. /\ Taking("didDisconnect") /\ Inside /\ resources' = {}
        /\ earlyPresenceElements' = <<>> /\ hasRoster' = FALSE
    BY DEF HandleDidDisconnect, Forgets
  <1> QED BY <1>1, ClearingPresence

\* A push finds the roster, and takes the presence of a contact that it removes.
LEMMA HandlePushPresence ==
    ASSUME Inv, PresenceInv, HandlePush PROVE PresenceInv'
  <1> DEFINE b == Head(moduleQueue)
  <1>1. /\ moduleQueue # <<>> /\ moduleQueue' = Tail(moduleQueue) /\ b \in Blocks
        /\ b.kind = "push" /\ Inside /\ UNCHANGED config
    BY TakenFacts DEF Inv, Inside, HandlePush
  <1>2. UNCHANGED <<requestedRoster, hasRoster, earlyPresenceElements, guessed>>
    BY DEF HandlePush, moduleVars, toldVars
  <1>3. hasRoster BY <1>1, HeadPush DEF Inv, Words, TypeOK, ModuleOK
  <1>4. /\ users' = [users EXCEPT ![b.jid] = b.item]
        /\ resources' = IF b.item = "absent" THEN resources \ {b.jid} ELSE resources
    BY <1>3 DEF HandlePush
  <1> HIDE DEF b
  <1>5. /\ b \notin Ending /\ b \notin Rosters /\ b \notin Authenticates
        /\ \A c \in Contacts : b \notin Comes(c)
    BY <1>1, Sorted
  <1>6. b.jid \in Contacts /\ users \in [Contacts -> Items \cup {"seen"}]
    BY <1>1, KindsOfBlocks DEF Inv, TypeOK, StoreOK
  <1>7. ASSUME NEW c \in Contacts PROVE Minds(b, c)
    <2>1. (Counted(c) <=> c \in resources) /\ (Counted(c)' <=> c \in resources')
      BY <1>1, <1>2, <1>3 DEF Counted
    <2>2. b \in Goes(c) => b.jid = c /\ b.item = "absent" BY <1>1 DEF Goes, Presence
    <2>3. b.jid = c /\ b.item = "absent" => b \in Goes(c) BY <1>1 DEF Goes
    <2>4. CASE b \in Goes(c) BY <1>4, <1>5, <2>1, <2>2, <2>4 DEF Minds, Telling
    <2>5. CASE b \notin Goes(c)
      <3>1. c \in resources' <=> c \in resources BY <1>4, <2>3, <2>5
      <3> QED BY <1>5, <2>1, <2>5, <3>1 DEF Minds, Telling
    <2> QED BY <2>4, <2>5
  <1>8. ASSUME NEW c \in Contacts,
               \/ b \in Listing(c)
               \/ b \notin Turning(c) /\ (hasRoster /\ ~guessed => users[c] = "both")
        PROVE  hasRoster' /\ ~guessed' => users'[c] = "both"
    <2>1. b \in Turning(c) <=> b.jid = c BY <1>1 DEF Turning, Turns, Speaks, Ends
    <2>2. b \in Listing(c) => b.jid = c /\ b.item = "both"
      BY <1>1, <2>1 DEF Listing, Ends, Said
    <2> QED BY <1>2, <1>4, <1>6, <1>8, <2>1, <2>2
  <1>9. Spoiled' = Spoiled BY <1>1, <1>2 DEF Spoiled
  <1>10. config.rosterless => earlyPresenceElements' = <<>> BY <1>2 DEF PresenceInv
  <1> QED BY <1>1, <1>2, <1>5, <1>7, <1>8, <1>9, <1>10, TakenPresence DEF b

\* Presence is kept for the roster or counted at once.
LEMMA HandlePresencePresence ==
    ASSUME Inv, PresenceInv, HandlePresence PROVE PresenceInv'
  <1> DEFINE p == Head(moduleQueue)
             q == moduleQueue
  <1>1. /\ q # <<>> /\ q' = Tail(q) /\ q \in Seq(Blocks) /\ p \in Blocks
        /\ p.kind = "presence" /\ Inside /\ UNCHANGED config
        /\ UNCHANGED <<requestedRoster, hasRoster, guessed>>
    BY TakenFacts DEF Inv, Inside, HandlePresence
  <1>2. \/ ~hasRoster /\ ~config.rosterless /\ Keeps(p) /\ UNCHANGED <<storeVars, asked>>
        \/ /\ hasRoster \/ config.rosterless
           /\ Applies(<<p>>, users, resources, bareResources) /\ UNCHANGED earlyPresenceElements
    BY DEF HandlePresence, Premature
  <1>3. config.autoFetch => requestedRoster
    <2>1. SUFFICES ASSUME config.autoFetch PROVE requestedRoster
      OBVIOUS
    <2>2. EachOf(q, Presences, {}, Authenticates, Authenticates \cup Ending, requestedRoster)
      BY <2>1 DEF PresenceInv, Requested
    <2>3. p \in Presences BY <1>1, Sorted
    <2> QED BY <1>1, <2>2, <2>3, EachHead
  <1>4. ASSUME NEW c \in Contacts, p \in Comes(c), ~config.rosterless, config.autoFetch,
               hasRoster, ~guessed
        PROVE  users[c] = "both"
    <2> DEFINE base == hasRoster /\ ~guessed => users[c] = "both"
    <2>1. EachOf(q, Comes(c), {}, Listing(c), Turning(c), base)
      BY <1>4 DEF PresenceInv, Listed
    <2> HIDE DEF base
    <2>2. base BY <1>1, <1>4, <2>1, EachHead
    <2> QED BY <1>4, <2>2 DEF base
  <1> HIDE DEF p
  <1>5. /\ p \in Presences /\ p \notin Ending /\ p \notin Rosters /\ p \notin Authenticates
        /\ \A c \in Contacts : p \in Comes(c) => p \notin Goes(c)
    BY <1>1, Sorted
  <1>6. \A c \in Contacts : /\ p \in Comes(c) <=> p = Presence("available", c)
                            /\ p \in Goes(c) <=> p = Presence("unavailable", c)
    BY <1>1 DEF Comes, Goes
  <1>7. /\ earlyPresenceElements \in Seq(Presences) /\ resources \subseteq Contacts
        /\ users \in [Contacts -> Items \cup {"seen"}] /\ asked \subseteq Contacts
        /\ \A c \in resources : users[c] # "absent"
        /\ earlyPresenceElements # <<>> => requestedRoster
    BY DEF Inv, TypeOK, ModuleOK, StoreOK, KeptIsTimed
  <1>8. \A c \in Contacts : p \notin Listing(c) /\ p \notin Turning(c)
    BY <1>1 DEF Listing, Turning, Turns, Speaks, Ends
  <1>9. Spoiled' = Spoiled BY <1>1 DEF Spoiled
  <1>10. CASE ~hasRoster /\ ~config.rosterless /\ Keeps(p) /\ UNCHANGED <<storeVars, asked>>
    <2>1. UNCHANGED <<users, resources>> BY <1>10 DEF storeVars
    <2> DEFINE was == earlyPresenceElements
               now == earlyPresenceElements'
    <2>2. now = IF requestedRoster THEN Append(was, p) ELSE was BY <1>10 DEF Keeps
    <2>3. ASSUME NEW c \in Contacts PROVE Minds(p, c)
      <3>1. /\ Counted(c) <=> c \in OnlineAfter(was, {})
            /\ Counted(c)' <=> c \in OnlineAfter(now, {})
        BY <1>1, <1>10 DEF Counted
      <3> HIDE DEF was, now
      <3>2. CASE requestedRoster
        <4>1. /\ p \in Comes(c) => c \in OnlineAfter(now, {})
              /\ p \in Goes(c) => c \notin OnlineAfter(now, {})
              /\ p \notin Telling(c) => (c \in OnlineAfter(now, {}) <=> c \in OnlineAfter(was, {}))
          BY <1>5, <1>6, <1>7, <2>2, <3>2, OnlineAppend DEF was, Telling
        <4> QED BY <1>5, <3>1, <4>1 DEF Minds, Telling
      <3>3. CASE ~requestedRoster
        <4>1. now = <<>> /\ was = <<>> /\ ~config.autoFetch BY <1>3, <1>7, <2>2, <3>3 DEF was
        <4>2. c \notin OnlineAfter(now, {}) BY <4>1, OnlineNone
        <4> QED BY <1>10, <3>1, <4>1, <4>2 DEF Minds
      <3> QED BY <3>2, <3>3
    <2>4. config.rosterless => earlyPresenceElements' = <<>> BY <1>10
    <2> QED BY <1>1, <1>5, <1>8, <1>9, <2>1, <2>3, <2>4, TakenPresence DEF p
  <1>11. CASE /\ hasRoster \/ config.rosterless
              /\ Applies(<<p>>, users, resources, bareResources) /\ UNCHANGED earlyPresenceElements
    <2>1. \A c \in Contacts :
             /\ users'[c] = users[c] \/ (users[c] = "absent" /\ users'[c] = "seen")
             /\ ~config.rosterless => users'[c] = users[c]
      <3>1. bareResources \subseteq Contacts BY DEF Inv, TypeOK, StoreOK
      <3> QED BY <1>7, <1>11, <3>1, AppliesFacts
    <2>2. resources' = {c \in OnlineAfter(<<p>>, resources) : users'[c] # "absent"}
      BY <1>11 DEF Applies
    <2>3. ASSUME NEW c \in Contacts, p \in Comes(c), config.rosterless PROVE users'[c] # "absent"
      <3>1. <<p>>[1] = p /\ 1 \in DOMAIN <<p>>
        <4>1. <<p>> \in Seq(Presences) /\ Len(<<p>>) = 1 /\ <<p>>[1] = p BY <1>5
        <4> QED BY <4>1
      <3>2. p = Presence("available", c) BY <1>6, <2>3
      <3>3. users[c] = "absent" => users'[c] = "seen" BY <1>11, <2>3, <3>1, <3>2 DEF Applies
      <3> QED BY <2>1, <3>3
    <2>4. ASSUME NEW c \in Contacts PROVE Minds(p, c)
      <3>1. (Counted(c) <=> c \in resources) /\ (Counted(c)' <=> c \in resources')
        BY <1>1, <1>11 DEF Counted
      <3>2. CASE p \in Goes(c)
        <4>1. c \notin OnlineAfter(<<p>>, resources) BY <1>5, <1>6, <3>2, OnlineOne
        <4> QED BY <1>5, <2>2, <3>1, <3>2, <4>1 DEF Minds, Telling
      <3>3. CASE p \in Comes(c)
        <4>1. c \in OnlineAfter(<<p>>, resources) BY <1>5, <1>6, <3>3, OnlineOne
        <4>2. ASSUME config.rosterless \/ config.autoFetch PROVE c \in resources' \/ Spoiled'
          <5>1. CASE config.rosterless BY <2>2, <2>3, <3>3, <4>1, <5>1
          <5>2. CASE ~config.rosterless
            <6>1. hasRoster /\ config.autoFetch BY <1>11, <4>2, <5>2
            <6>2. CASE guessed BY <1>1, <5>2, <6>2 DEF Spoiled
            <6>3. CASE ~guessed
              <7>1. users[c] = "both" BY <1>4, <3>3, <5>2, <6>1, <6>3
              <7>2. users'[c] = "both" BY <2>1, <5>2, <7>1
              <7> QED BY <2>2, <4>1, <7>2
            <6> QED BY <6>2, <6>3
          <5> QED BY <5>1, <5>2
        <4> QED BY <1>5, <3>1, <3>3, <4>2 DEF Minds, Telling
      <3>4. CASE p \notin Telling(c)
        <4>1. c \in OnlineAfter(<<p>>, resources) <=> c \in resources
          BY <1>5, <1>6, <3>4, OnlineOne DEF Telling
        <4>2. c \in resources => users'[c] # "absent" BY <1>7, <2>1
        <4>3. c \in resources' <=> c \in resources BY <2>2, <4>1, <4>2
        <4> QED BY <3>1, <3>4, <4>3 DEF Minds, Telling
      <3> QED BY <3>2, <3>3, <3>4 DEF Telling
    <2>5. config.rosterless => earlyPresenceElements' = <<>> BY <1>11 DEF PresenceInv
    <2>6. \A c \in Contacts : ~config.rosterless /\ (hasRoster /\ ~guessed => users[c] = "both")
             => (hasRoster' /\ ~guessed' => users'[c] = "both")
      BY <1>1, <2>1
    <2> QED BY <1>1, <1>5, <1>8, <1>9, <2>4, <2>5, <2>6, TakenPresence DEF p
  <1> QED BY <1>2, <1>10, <1>11

\* The first roster counts the presence that was kept for it.
LEMMA RosterPresence ==
    ASSUME Inv, PresenceInv, NEW items \in [Contacts -> Items], HandleFetchRosterQueryIQ(items),
           config' = config
    PROVE  /\ hasRoster' /\ earlyPresenceElements' = <<>>
           /\ \A c \in Contacts :
                 /\ ~Counted(c) => ~Counted(c)'
                 /\ Counted(c) /\ (hasRoster \/ (~config.rosterless /\ items[c] = "both")) =>
                       Counted(c)'
  <1>1. /\ earlyPresenceElements' = <<>> /\ hasRoster'
        /\ \A c \in Contacts : ~hasRoster /\ items[c] = "both" => users'[c] = "both"
    BY RosterFacts
  <1>2. \A c \in Contacts : Counted(c)' <=> c \in resources' BY <1>1 DEF Counted
  <1>3. CASE hasRoster
    <2>1. UNCHANGED resources BY <1>3 DEF HandleFetchRosterQueryIQ
    <2>2. \A c \in Contacts : Counted(c) <=> c \in resources BY <1>3 DEF Counted
    <2> QED BY <1>1, <1>2, <2>1, <2>2
  <1>4. CASE ~hasRoster
    <2>1. resources' = {c \in OnlineAfter(earlyPresenceElements, {}) : users'[c] # "absent"}
      BY <1>4 DEF HandleFetchRosterQueryIQ, Applies
    <2>2. config.rosterless => earlyPresenceElements = <<>> BY DEF PresenceInv
    <2>3. CASE config.rosterless
      <3>1. \A c \in Contacts : c \notin resources' BY <2>1, <2>2, <2>3, OnlineNone
      <3> QED BY <1>1, <1>2, <1>4, <2>3, <3>1
    <2>4. CASE ~config.rosterless
      <3>1. \A c \in Contacts : Counted(c) <=> c \in OnlineAfter(earlyPresenceElements, {})
        BY <1>4, <2>4 DEF Counted
      <3> QED BY <1>1, <1>2, <1>4, <2>1, <3>1
    <2> QED BY <2>3, <2>4
  <1> QED BY <1>3, <1>4

LEMMA HandleResultPresence ==
    ASSUME Inv, PresenceInv, HandleResult PROVE PresenceInv'
  <1> DEFINE b == Head(moduleQueue)
             q == moduleQueue
  <1>1. /\ q # <<>> /\ q' = Tail(q) /\ q \in Seq(Blocks) /\ b \in Blocks
        /\ b.kind = "result" /\ Inside /\ UNCHANGED config
        /\ UNCHANGED <<requestedRoster, guessed>> /\ HandleFetchRosterQueryIQ(b.items)
    BY TakenFacts DEF Inv, Inside, HandleResult
  <1>2. ASSUME NEW c \in Contacts, config.rosterless \/ config.autoFetch, ~left, NotEnding,
               b \in Without(c)
        PROVE  ~Counted(c)
    <2>1. EachOf(q, Without(c), Ending, Goes(c), Telling(c), ~Counted(c))
      BY <1>2 DEF PresenceInv, ToldRoster
    <2> QED BY <1>1, <1>2, <2>1, EachHead DEF NotEnding
  <1> HIDE DEF b
  <1>3. /\ b \notin Ending /\ b \in Rosters /\ b \notin Authenticates
        /\ \A c \in Contacts : b \notin Comes(c) /\ b \notin Goes(c)
    BY <1>1, Sorted
  <1>4. b.items \in [Contacts -> Items] BY <1>1, KindsOfBlocks
  <1>5. /\ hasRoster' /\ earlyPresenceElements' = <<>>
        /\ \A c \in Contacts :
              /\ ~Counted(c) => ~Counted(c)'
              /\ Counted(c) /\ (hasRoster \/ (~config.rosterless /\ b.items[c] = "both")) =>
                    Counted(c)'
    BY <1>1, <1>4, RosterPresence
  <1>6. \A c \in Contacts : b.items[c] = "both" => users'[c] = "both"
    <2>1. /\ hasRoster \in BOOLEAN
          /\ \A c \in Contacts :
                /\ hasRoster => users'[c] = IF b.items[c] = "absent" THEN users[c] ELSE b.items[c]
                /\ ~hasRoster => IF b.items[c] = "both" THEN users'[c] = "both"
                                                        ELSE Unlisted(users'[c])
      BY <1>1, <1>4, RosterFacts DEF Inv, TypeOK, ModuleOK
    <2> QED BY <2>1
  <1>7. Spoiled => Spoiled' BY <1>1, <1>5 DEF Spoiled
  <1>8. ASSUME NEW c \in Contacts PROVE Minds(b, c)
    <2>1. ASSUME config.rosterless \/ config.autoFetch, ~left, NotEnding, Counted(c)
          PROVE  Counted(c)' \/ Spoiled'
      <3>1. CASE hasRoster BY <1>5, <2>1, <3>1
      <3>2. CASE config.rosterless BY <1>1, <1>5, <3>2 DEF Spoiled
      <3>3. CASE ~config.rosterless
        <4>1. b \notin Without(c) BY <1>2, <2>1
        <4>2. b.items[c] = "both" BY <1>3, <4>1 DEF Without
        <4> QED BY <1>5, <2>1, <3>3, <4>2
      <3> QED BY <3>2, <3>3
    <2> QED BY <1>3, <1>5, <2>1 DEF Minds, Telling
  <1>9. \A c \in Contacts : b \in Turning(c) /\ (b \in Listing(c) => b.items[c] = "both")
    BY <1>1 DEF Listing, Turning, Turns, Speaks, Ends, Said
  <1> QED BY <1>1, <1>3, <1>5, <1>6, <1>7, <1>8, <1>9, TakenPresence DEF b

\* A timer that takes the place of the roster spoils what is counted.
LEMMA TimerFiresPresence ==
    ASSUME Inv, PresenceInv, NEW id \in Ids, TimerFires(id) PROVE PresenceInv'
  <1> DEFINE q == moduleQueue
  <1>1. /\ Inside /\ UNCHANGED <<moduleQueue, requestedRoster>>
        /\ guessed' = (guessed \/ ~hasRoster) /\ HandleFetchRosterQueryIQ(NoItems)
        /\ UNCHANGED <<up, shown, left, roster, online, interested, available, owed, config>>
    BY DEF TimerFires, Inside, streamVars
  <1>2. NoItems \in [Contacts -> Items] /\ \A c \in Contacts : NoItems[c] = "absent"
    BY DEF NoItems, Items
  <1>3. /\ hasRoster' /\ earlyPresenceElements' = <<>>
        /\ \A c \in Contacts : /\ ~Counted(c) => ~Counted(c)'
                               /\ Counted(c) /\ hasRoster => Counted(c)'
    BY <1>1, <1>2, RosterPresence
  <1>4. \A c \in Contacts : hasRoster => users'[c] = users[c]
    BY <1>1, <1>2, RosterFacts
  <1>5. hasRoster \in BOOLEAN /\ guessed \in BOOLEAN BY DEF Inv, TypeOK, ModuleOK
  <1>6. ServerTells'
    <2>1. (hasRoster => guessed) => (hasRoster' => guessed') BY <1>1, <1>5
    <2>2. ~interested => AtEnd(q, Ending, Ending \cup Rosters, hasRoster' => guessed')
      BY <2>1, BaseFollows DEF PresenceInv, ServerTells
    <2> QED BY <1>1, <2>2 DEF PresenceInv, ServerTells
  <1>7. Requested' BY <1>1 DEF PresenceInv, Requested
  <1>8. ASSUME NEW c \in Contacts, Listed(c) PROVE Listed(c)'
    <2> DEFINE base == hasRoster /\ ~guessed => users[c] = "both"
    <2>1. base => base' BY <1>1, <1>4, <1>5
    <2>2. SUFFICES ASSUME ~config.rosterless
                   PROVE  EachOf(q, Comes(c), {}, Listing(c), Turning(c), base')
      BY <1>1 DEF Listed
    <2>3. EachOf(q, Comes(c), {}, Listing(c), Turning(c), base) BY <1>8, <2>2 DEF Listed
    <2> HIDE DEF base
    <2> QED BY <2>1, <2>3, BaseFollows
  <1>9. ASSUME NEW c \in Contacts, ToldRoster(c) PROVE ToldRoster(c)'
    <2>1. SUFFICES ASSUME ~left
                   PROVE  EachOf(q, Without(c), Ending, Goes(c), Telling(c), ~Counted(c)')
      BY <1>1 DEF ToldRoster
    <2>2. EachOf(q, Without(c), Ending, Goes(c), Telling(c), ~Counted(c))
      BY <1>9, <2>1 DEF ToldRoster
    <2> QED BY <1>3, <2>2, BaseFollows
  <1>10. hasRoster \/ Spoiled' BY <1>1, <1>3, <1>5 DEF Spoiled
  <1>11. Spoiled => Spoiled' BY <1>1, <1>3, <1>5 DEF Spoiled
  <1>12. ASSUME NEW c \in Contacts, ToldLast(c) PROVE ToldLast(c)'
    <2>1. Here(c)' = Here(c) /\ Here(c) \in BOOLEAN /\ NotEnding' = NotEnding
      BY <1>1 DEF Here, NotEnding
    <2>2. SUFFICES ASSUME up => ~left, c \notin owed
                   PROVE  \/ AtEnd(q, Says(c, Here(c)), Telling(c), Counted(c)' <=> Here(c))
                          \/ Here(c) /\ Spoiled' /\ NotEnding
      BY <1>1, <2>1 DEF ToldLast
    <2>3. CASE Here(c) /\ Spoiled /\ NotEnding BY <1>11, <2>3
    <2>4. CASE AtEnd(q, Says(c, Here(c)), Telling(c), Counted(c) <=> Here(c))
      <3>1. CASE (Counted(c) <=> Here(c)) => (Counted(c)' <=> Here(c))
        BY <2>4, <3>1, BaseFollows
      <3>2. CASE ~((Counted(c) <=> Here(c)) => (Counted(c)' <=> Here(c)))
        <4>1. Here(c) /\ Spoiled' BY <1>3, <1>10, <2>1, <3>2
        <4>2. CASE NotEnding BY <4>1, <4>2
        <4>3. CASE ~NotEnding
          <5>1. Ending \subseteq Goes(c) BY Sorted DEF Ending
          <5>2. PICK k \in 1..Len(q) : q[k] \in Telling(c) BY <4>3, <5>1 DEF NotEnding, Telling
          <5>3. k < Len(q) + 1 /\ Len(q) \in Nat BY <5>2 DEF Inv, TypeOK, ModuleOK
          <5>4. AtEnd(q, Says(c, Here(c)), Telling(c), Counted(c)' <=> Here(c))
            BY <2>4, <5>2, <5>3 DEF AtEnd, LastOf
          <5> QED BY <5>4
        <4> QED BY <4>2, <4>3
      <3> QED BY <3>1, <3>2
    <2> QED BY <1>12, <2>2, <2>3, <2>4 DEF ToldLast
  <1> QED BY <1>1, <1>3, <1>6, <1>7, <1>8, <1>9, <1>12 DEF PresenceInv

-----------------------------------------------------------------------------
(* Answers to requests.  Those that are on the queue, kept or stored, and that *)
(* no end of a connection follows, were sent to this connection.               *)

Answer(c)   == Presence("answer", c)
HeldAnswers == bareResources \cup
    {c \in Contacts : \E i \in 1..Len(earlyPresenceElements) : earlyPresenceElements[i] = Answer(c)}
Answered    == IF up THEN answered ELSE {}

AnswersInv ==
    /\ NotEnding => HeldAnswers \subseteq Answered
    /\ \A i \in 1..Len(moduleQueue), c \in Contacts :
          /\ moduleQueue[i] = Answer(c)
          /\ \A k \in 1..Len(moduleQueue) : i < k => moduleQueue[k] \notin Ending
          => c \in Answered

LEMMA AnswerFacts ==
    ASSUME NEW c \in Contacts
    PROVE  /\ Answer(c) \in Blocks /\ Answer(c).kind = "presence" /\ Answer(c).type = "answer"
           /\ Answer(c).from = c
  BY BlockKinds DEF Answer, Presence

\* Blocks are added to the queue, answers only to the connection that hears them.
LEMMA AnswersGrow ==
    ASSUME AnswersInv, UNCHANGED <<bareResources, earlyPresenceElements>>,
           \A i \in 1..Len(moduleQueue) :
              i \in 1..Len(moduleQueue') /\ moduleQueue'[i] = moduleQueue[i],
           \A i \in 1..Len(moduleQueue') :
              \/ i \in 1..Len(moduleQueue)
              \/ \A c \in Contacts : moduleQueue'[i] = Answer(c) => c \in Answered',
           Answered \subseteq Answered'
    PROVE  AnswersInv'
  <1>1. HeldAnswers' = HeldAnswers BY DEF HeldAnswers
  <1>2. NotEnding' => NotEnding BY DEF NotEnding, Ending
  <1>3. ASSUME NEW i \in 1..Len(moduleQueue'), NEW c \in Contacts, moduleQueue'[i] = Answer(c),
               \A k \in 1..Len(moduleQueue') : i < k => moduleQueue'[k] \notin Ending
        PROVE  c \in Answered'
    <2>1. CASE i \in 1..Len(moduleQueue)
      <3>1. \A k \in 1..Len(moduleQueue) : i < k => moduleQueue[k] \notin Ending BY <1>3
      <3>2. moduleQueue[i] = Answer(c) BY <1>3, <2>1
      <3> QED BY <2>1, <3>1, <3>2 DEF AnswersInv
    <2>2. CASE i \notin 1..Len(moduleQueue) BY <1>3, <2>2
    <2> QED BY <2>1, <2>2
  <1> QED BY <1>1, <1>2, <1>3 DEF AnswersInv

LEMMA OutsideAnswers ==
    ASSUME Inv, AnswersInv, Outside, NEW e \in Blocks,
           moduleQueue' = moduleQueue \/ moduleQueue' = Append(moduleQueue, e),
           \A c \in Contacts : e = Answer(c) => c \in Answered',
           Answered \subseteq Answered'
    PROVE  AnswersInv'
  <1>1. UNCHANGED <<bareResources, earlyPresenceElements>> BY DEF Outside, storeVars, moduleVars
  <1>2. moduleQueue \in Seq(Blocks) BY DEF Inv, TypeOK, ModuleOK
  <1>3. CASE moduleQueue' = moduleQueue BY <1>1, <1>3, AnswersGrow
  <1>4. CASE moduleQueue' = Append(moduleQueue, e)
    <2>1. /\ \A i \in 1..Len(moduleQueue) :
                i \in 1..Len(moduleQueue') /\ moduleQueue'[i] = moduleQueue[i]
          /\ \A i \in 1..Len(moduleQueue') : i \in 1..Len(moduleQueue) \/ moduleQueue'[i] = e
      BY <1>2, <1>4, AppendFacts
    <2> QED BY <1>1, <2>1, AnswersGrow
  <1> QED BY <1>3, <1>4

LEMMA EventsAreNoAnswers ==
    ASSUME NEW e \in Blocks, e.kind # "presence" \/ e.type # "answer"
    PROVE  \A c \in Contacts : e # Answer(c)
  BY AnswerFacts

\* A block is handled, or a timer fires: what is held after it was held or is its answer.
LEMMA TakenAnswers ==
    ASSUME Inv, AnswersInv, Inside, moduleQueue # <<>>, moduleQueue' = Tail(moduleQueue),
           NEW b, b = Head(moduleQueue),
           b \in Ending => HeldAnswers' = {},
           b \notin Ending =>
               \A c \in HeldAnswers' : c \in HeldAnswers \/ (c \in Contacts /\ b = Answer(c))
    PROVE  AnswersInv'
  <1> DEFINE q == moduleQueue
             r == moduleQueue'
  <1>1. /\ b = q[1] /\ Len(q) \in Nat /\ Len(r) = Len(q) - 1 /\ 1 \in 1..Len(q)
        /\ \A i \in 1..Len(r) : i + 1 \in 1..Len(q) /\ r[i] = q[i + 1]
        /\ \A i \in 1..Len(q) : i = 1 \/ (i - 1 \in 1..Len(r) /\ r[i - 1] = q[i])
    BY TailFacts DEF Inv, TypeOK, ModuleOK
  <1>2. Answered' = Answered BY DEF Answered, Inside, streamVars
  <1> HIDE DEF r
  <1>3. ASSUME NEW i \in 1..Len(r), NEW c \in Contacts, r[i] = Answer(c),
               \A k \in 1..Len(r) : i < k => r[k] \notin Ending
        PROVE  c \in Answered
    <2>1. i + 1 \in 1..Len(q) /\ q[i + 1] = Answer(c) BY <1>1, <1>3
    <2>2. \A k \in 1..Len(q) : i + 1 < k => q[k] \notin Ending BY <1>1, <1>3
    <2> QED BY <2>1, <2>2 DEF AnswersInv
  <1>4. ASSUME \A i \in 1..Len(r) : r[i] \notin Ending, b \notin Ending, NEW c \in HeldAnswers'
        PROVE  c \in Answered
    <2>1. NotEnding BY <1>1, <1>4 DEF NotEnding
    <2>2. CASE c \in HeldAnswers BY <2>1, <2>2 DEF AnswersInv
    <2>3. CASE c \in Contacts /\ b = Answer(c)
      <3>1. 1 \in 1..Len(q) /\ q[1] = Answer(c) BY <1>1, <2>3
      <3>2. \A k \in 1..Len(q) : 1 < k => q[k] \notin Ending BY <2>1 DEF NotEnding
      <3> QED BY <2>3, <3>1, <3>2 DEF AnswersInv
    <2> QED BY <1>4, <2>2, <2>3
  <1>5. NotEnding' => HeldAnswers' \subseteq Answered BY <1>4 DEF NotEnding, r
  <1> QED BY <1>2, <1>3, <1>5 DEF AnswersInv, r

LEMMA AnswersInit == Init => AnswersInv
  BY DEF Init, AnswersInv, HeldAnswers

LEMMA DidDisconnectAnswers == ASSUME Inv, AnswersInv, DidDisconnect PROVE AnswersInv'
  <1> DEFINE q == moduleQueue
             e == Event("didDisconnect")
  <1>1. q \in Seq(Blocks) /\ moduleQueue' = Append(q, e)
    BY DEF Inv, TypeOK, ModuleOK, DidDisconnect, Posts
  <1>2. e \in Ending /\ \A c \in Contacts : e # Answer(c)
    BY BlockKinds, Sorted, EventsAreNoAnswers
  <1>3. /\ Len(q) + 1 \in 1..Len(moduleQueue') /\ moduleQueue'[Len(q) + 1] = e
        /\ \A i \in 1..Len(moduleQueue') : i < Len(q) + 1 \/ i = Len(q) + 1
    BY <1>1, <1>2, AppendFacts DEF Ending
  <1> HIDE DEF e
  <1>4. ~NotEnding' BY <1>2, <1>3 DEF NotEnding
  <1>5. \A i \in 1..Len(moduleQueue'), c \in Contacts :
           ~ /\ moduleQueue'[i] = Answer(c)
             /\ \A k \in 1..Len(moduleQueue') : i < k => moduleQueue'[k] \notin Ending
    BY <1>2, <1>3
  <1> QED BY <1>4, <1>5 DEF AnswersInv

\* Steps of the stream, the application and the server that add one block, or none.
LEMMA OneBlockAnswers ==
    ASSUME Inv, AnswersInv, Outside, NEW e \in Blocks,
           moduleQueue' = moduleQueue \/ moduleQueue' = Append(moduleQueue, e),
           e.kind # "presence" \/ e.type # "answer",
           (up' = up /\ answered' = answered) \/ ~up
    PROVE  AnswersInv'
  <1>1. Answered \subseteq Answered' BY DEF Answered
  <1> QED BY <1>1, OutsideAnswers, EventsAreNoAnswers

LEMMA StreamAnswers ==
    ASSUME Inv, AnswersInv, DidAuthenticate \/ Application PROVE AnswersInv'
  <1>1. CASE DidAuthenticate
    BY <1>1, BlockKinds, OneBlockAnswers DEF DidAuthenticate, Posts
  <1>2. CASE SendAvailable
    BY <1>2, BlockKinds, OneBlockAnswers DEF SendAvailable
  <1>3. CASE SendUnavailable
    BY <1>3, BlockKinds, OneBlockAnswers DEF SendUnavailable, Posts
  <1>4. CASE FetchRoster
    BY <1>4, BlockKinds, OneBlockAnswers DEF FetchRoster, Posts, streamVars
  <1> QED BY <1>1, <1>2, <1>3, <1>4 DEF Application

LEMMA RosterChangesAnswers ==
    ASSUME Inv, AnswersInv, NEW d \in Contacts, NEW new \in Items, RosterChanges(d, new)
    PROVE  AnswersInv'
  <1> DEFINE q == moduleQueue
             p == Presence("unavailable", d)
             e == Push(d, new)
             m == q \o (IF available /\ roster[d] = "both" THEN <<p>> ELSE <<>>)
             r == moduleQueue'
  <1>1. /\ p \in Blocks /\ e \in Blocks
        /\ \A c \in Contacts : p # Answer(c) /\ e # Answer(c)
    <2>1. /\ p \in Blocks /\ p.type = "unavailable"
          /\ e \in Blocks /\ e.kind = "push"
      BY BlockKinds DEF Presence
    <2> QED BY <2>1, EventsAreNoAnswers
  <1>2. q \in Seq(Blocks) BY DEF Inv, TypeOK, ModuleOK
  <1>3. m = IF available /\ roster[d] = "both" THEN Append(q, p) ELSE q
    BY <1>1, <1>2, Concatenated
  <1>4. /\ m \in Seq(Blocks)
        /\ \A i \in 1..Len(q) : i \in 1..Len(m) /\ m[i] = q[i]
        /\ \A i \in 1..Len(m) : i \in 1..Len(q) \/ m[i] = p
    BY <1>1, <1>2, <1>3, AppendFacts
  <1>5. r = IF interested THEN Append(m, e) ELSE m
    BY <1>1, <1>4, Concatenated DEF RosterChanges
  <1>6. /\ \A i \in 1..Len(m) : i \in 1..Len(r) /\ r[i] = m[i]
        /\ \A i \in 1..Len(r) : i \in 1..Len(m) \/ r[i] = e
    BY <1>1, <1>4, <1>5, AppendFacts
  <1>7. Outside /\ Answered' = Answered BY DEF RosterChanges, Answered, streamVars
  <1>8. UNCHANGED <<bareResources, earlyPresenceElements>>
    BY <1>7 DEF Outside, storeVars, moduleVars
  <1> HIDE DEF p, e, m, r, q
  <1>9. /\ \A i \in 1..Len(q) : i \in 1..Len(r) /\ r[i] = q[i]
        /\ \A i \in 1..Len(r) : i \in 1..Len(q) \/ \A c \in Contacts : r[i] # Answer(c)
    BY <1>1, <1>4, <1>6
  <1> QED BY <1>7, <1>8, <1>9, AnswersGrow DEF q, r

LEMMA ServerAnswers == ASSUME Inv, AnswersInv, Server PROVE AnswersInv'
  <1>1. CASE ServerSeesPresence
    BY <1>1, BlockKinds, OneBlockAnswers DEF ServerSeesPresence, streamVars
  <1>2. ASSUME NEW id \in Ids, ServerAnswersFetch(id) PROVE AnswersInv'
    <2>1. roster \in [Contacts -> Items] BY DEF Inv, TypeOK, ServerOK
    <2> QED BY <1>2, <2>1, BlockKinds, OneBlockAnswers DEF ServerAnswersFetch, Posts, streamVars
  <1>3. ASSUME NEW c \in Contacts, ServerSendsPresence(c) PROVE AnswersInv'
    <2> DEFINE e == Presence(IF c \in online THEN "available" ELSE "unavailable", c)
    <2>1. e \in Blocks /\ e.type # "answer" BY BlockKinds DEF Presence
    <2> HIDE DEF e
    <2> QED BY <1>3, <2>1, OneBlockAnswers DEF ServerSendsPresence, Posts, streamVars, e
  <1>4. ASSUME NEW c \in Contacts, ServerSendsRequest(c) PROVE AnswersInv'
    <2> DEFINE e == Presence("subscribe", c)
    <2>1. e \in Blocks /\ e.type # "answer" BY BlockKinds DEF Presence
    <2> HIDE DEF e
    <2> QED BY <1>4, <2>1, OneBlockAnswers DEF ServerSendsRequest, Posts, streamVars, e
  <1>5. ASSUME NEW c \in Contacts, ServerSendsAnswer(c) PROVE AnswersInv'
    <2>1. up BY <1>5 DEF ServerSendsAnswer, Inv, TypeOK, StreamOK
    <2>2. /\ Answered' = Answered \cup {c} /\ Outside
          /\ moduleQueue' = Append(moduleQueue, Answer(c))
      BY <1>5, <2>1 DEF ServerSendsAnswer, Posts, Answered, Answer
    <2>3. \A d \in Contacts : Answer(c) = Answer(d) => d \in Answered'
      BY <2>2, AnswerFacts
    <2> QED BY <2>2, <2>3, AnswerFacts, OutsideAnswers
  <1>6. ASSUME NEW c \in Contacts, ContactComesOrGoes(c) PROVE AnswersInv'
    BY <1>6, BlockKinds, OneBlockAnswers DEF ContactComesOrGoes, streamVars
  <1> QED BY <1>1, <1>2, <1>3, <1>4, <1>5, <1>6, RosterChangesAnswers DEF Server

\* A roster, or a timer, stores the answers that were kept.
LEMMA RosterAnswers ==
    ASSUME Inv, NEW items \in [Contacts -> Items], HandleFetchRosterQueryIQ(items)
    PROVE  HeldAnswers' \subseteq HeldAnswers
  <1>1. earlyPresenceElements' = <<>> BY RosterFacts
  <1>2. earlyPresenceElements \in Seq(Presences) /\ asked \subseteq Contacts
    BY DEF Inv, TypeOK, ModuleOK
  <1>3. HeldAnswers' = bareResources' BY <1>1 DEF HeldAnswers
  <1>4. CASE hasRoster BY <1>3, <1>4 DEF HandleFetchRosterQueryIQ, HeldAnswers
  <1>5. CASE ~hasRoster
    <2> DEFINE none == {}
               stored == Population(items)
    <2>1. none \subseteq Contacts /\ Applies(earlyPresenceElements, stored, none, none)
      BY <1>5 DEF HandleFetchRosterQueryIQ
    <2>2. stored \in [Contacts -> Items \cup {"seen"}] BY DEF Population, Items
    <2> HIDE DEF none, stored
    <2>3. /\ bareResources' \subseteq Contacts
          /\ \A c \in bareResources' : c \in none \/
                \E i \in DOMAIN earlyPresenceElements : earlyPresenceElements[i] = Presence("answer", c)
      BY <1>2, <2>1, <2>2, AppliesFacts DEF StoreOK
    <2>4. DOMAIN earlyPresenceElements = 1..Len(earlyPresenceElements) BY <1>2
    <2> QED BY <1>3, <2>3, <2>4 DEF HeldAnswers, Answer, none
  <1> QED BY <1>4, <1>5 DEF Inv, TypeOK, ModuleOK

LEMMA BlockAnswers == ASSUME Inv, AnswersInv, Block PROVE AnswersInv'
  <1> DEFINE b == Head(moduleQueue)
  <1>1. ASSUME NEW kind, Taking(kind), Inside,
               b \in Ending => HeldAnswers' = {},
               b \notin Ending =>
                   \A c \in HeldAnswers' : c \in HeldAnswers \/ (c \in Contacts /\ b = Answer(c))
        PROVE  AnswersInv'
    BY <1>1, TakenAnswers DEF Taking
  <1>2. ASSUME NEW kind, Taking(kind), kind # "didDisconnect" PROVE b \notin Ending
    BY <1>2 DEF Taking, Ending, Ends
  <1>3. CASE HandleDidAuthenticate
    <2>1. HeldAnswers' = HeldAnswers
      BY <1>3 DEF HandleDidAuthenticate, HeldAnswers, storeVars
    <2> QED BY <1>1, <1>2, <1>3, <2>1 DEF HandleDidAuthenticate
  <1>4. CASE HandleFetch
    <2>1. HeldAnswers' = HeldAnswers BY <1>4 DEF HandleFetch, HeldAnswers, storeVars
    <2> QED BY <1>1, <1>2, <1>4, <2>1 DEF HandleFetch
  <1>5. CASE HandleResult
    <2>1. b.items \in [Contacts -> Items]
      BY <1>5, TakenFacts, KindsOfBlocks DEF HandleResult, Inv
    <2>2. HeldAnswers' \subseteq HeldAnswers BY <1>5, <2>1, RosterAnswers DEF HandleResult
    <2> QED BY <1>1, <1>2, <1>5, <2>2 DEF HandleResult
  <1>6. CASE HandlePush
    <2>1. UNCHANGED earlyPresenceElements /\ bareResources' \subseteq bareResources
      BY <1>6 DEF HandlePush, moduleVars, storeVars
    <2>2. HeldAnswers' \subseteq HeldAnswers BY <2>1 DEF HeldAnswers
    <2> QED BY <1>1, <1>2, <1>6, <2>2 DEF HandlePush
  <1>7. CASE HandlePresence
    <2>1. /\ b \in Presences /\ earlyPresenceElements \in Seq(Presences)
          /\ asked \subseteq Contacts /\ bareResources \subseteq Contacts
          /\ users \in [Contacts -> Items \cup {"seen"}]
      BY <1>7, TakenFacts, KindsOfBlocks DEF HandlePresence, Inv, TypeOK, ModuleOK, StoreOK
    <2>2. \/ Keeps(b) /\ UNCHANGED bareResources
          \/ Applies(<<b>>, users, resources, bareResources) /\ UNCHANGED earlyPresenceElements
      BY <1>7 DEF HandlePresence, storeVars
    <2> HIDE DEF b
    <2>3. CASE Keeps(b) /\ UNCHANGED bareResources
      <3>1. \A i \in 1..Len(earlyPresenceElements') :
               \/ i \in 1..Len(earlyPresenceElements)
                  /\ earlyPresenceElements'[i] = earlyPresenceElements[i]
               \/ earlyPresenceElements'[i] = b
        BY <2>1, <2>3, AppendFacts DEF Keeps
      <3>2. \A c \in HeldAnswers' : c \in HeldAnswers \/ (c \in Contacts /\ b = Answer(c))
        BY <2>3, <3>1 DEF HeldAnswers
      <3> QED BY <1>1, <1>2, <1>7, <3>2 DEF HandlePresence
    <2>4. CASE Applies(<<b>>, users, resources, bareResources) /\ UNCHANGED earlyPresenceElements
      <3>1. /\ bareResources' \subseteq Contacts
            /\ \A c \in bareResources' :
                  c \in bareResources \/ \E i \in DOMAIN <<b>> : <<b>>[i] = Presence("answer", c)
        BY <2>1, <2>4, AppliesFacts DEF StoreOK
      <3>2. \A i \in DOMAIN <<b>> : <<b>>[i] = b OBVIOUS
      <3>3. \A c \in HeldAnswers' : c \in HeldAnswers \/ (c \in Contacts /\ b = Answer(c))
        BY <2>4, <3>1, <3>2 DEF HeldAnswers, Answer
      <3> QED BY <1>1, <1>2, <1>7, <3>3 DEF HandlePresence
    <2> QED BY <2>2, <2>3, <2>4
  <1>8. CASE HandleDidSendUnavailable
    <2>1. HeldAnswers' = {} BY <1>8 DEF HandleDidSendUnavailable, HeldAnswers
    <2> QED BY <1>1, <1>8, <2>1 DEF HandleDidSendUnavailable
  <1>9. CASE HandleDidDisconnect
    <2>1. HeldAnswers' = {} BY <1>9 DEF HandleDidDisconnect, Forgets, HeldAnswers
    <2> QED BY <1>1, <1>9, <2>1 DEF HandleDidDisconnect
  <1> QED BY <1>3, <1>4, <1>5, <1>6, <1>7, <1>8, <1>9 DEF Block

LEMMA AnswersNext == Inv /\ AnswersInv /\ [Next]_vars => AnswersInv'
  <1> SUFFICES ASSUME Inv, AnswersInv, [Next]_vars PROVE AnswersInv'
    OBVIOUS
  <1>1. CASE \E id \in Ids : TimerFires(id)
    <2>1. NoItems \in [Contacts -> Items] BY DEF NoItems, Items
    <2>2. HeldAnswers' \subseteq HeldAnswers BY <1>1, <2>1, RosterAnswers DEF TimerFires
    <2>3. Answered' = Answered /\ NotEnding' = NotEnding /\ moduleQueue' = moduleQueue
      BY <1>1 DEF TimerFires, Inside, streamVars, Answered, NotEnding
    <2> QED BY <2>2, <2>3 DEF AnswersInv
  <1>2. CASE UNCHANGED vars
    <2>1. HeldAnswers' = HeldAnswers /\ Answered' = Answered /\ NotEnding' = NotEnding
          /\ moduleQueue' = moduleQueue
      BY <1>2 DEF vars, streamVars, moduleVars, storeVars, Answered, NotEnding, HeldAnswers
    <2> QED BY <2>1 DEF AnswersInv
  <1> QED BY <1>1, <1>2, StreamAnswers, DidDisconnectAnswers, ServerAnswers, BlockAnswers DEF Next

-----------------------------------------------------------------------------
(* The theorems.                                                               *)

LEMMA InitInv == Init => Inv
  <1> SUFFICES ASSUME Init PROVE Inv
    OBVIOUS
  <1>1. moduleQueue = <<>> /\ hasRoster = FALSE /\ earlyPresenceElements = <<>>
        /\ requestedRoster = FALSE /\ interested = FALSE /\ asked = {}
    BY DEF Init
  <1>2. StreamOK BY DEF Init, StreamOK
  <1>3. ServerOK BY DEF Init, ServerOK
  <1>4. ModuleOK
    <2>1. moduleQueue \in Seq(Blocks) /\ earlyPresenceElements \in Seq(Presences) BY <1>1
    <2>2. requestedRoster \in BOOLEAN /\ hasRoster \in BOOLEAN /\ guessed \in BOOLEAN
      BY DEF Init
    <2>3. config \in Configs /\ armed \subseteq Ids /\ asked \subseteq Contacts BY DEF Init
    <2> QED BY <2>1, <2>2, <2>3 DEF ModuleOK
  <1>5. StoreOK BY DEF Init, StoreOK, NoItems, Items
  <1>6. KeptIsTimed BY <1>1 DEF KeptIsTimed
  <1>7. PushesAfter(moduleQueue, hasRoster) BY <1>1 DEF PushesAfter
  <1>8. \A c \in Contacts : Matching(c)
    BY <1>1 DEF Matching, Unknown, Silent, AbsentStays
  <1>9. \A c \in Contacts \ strangers : Friend(c)
    BY <1>1 DEF Init, Friend
  <1> QED BY <1>2, <1>3, <1>4, <1>5, <1>6, <1>7, <1>8, <1>9 DEF Inv, TypeOK, Words

LEMMA NextInv == Inv /\ [Next]_vars => Inv'
  <1> SUFFICES ASSUME Inv, [Next]_vars PROVE Inv'
    OBVIOUS
  <1>1. CASE DidAuthenticate BY <1>1, DidAuthenticateInv
  <1>2. CASE DidDisconnect BY <1>2, DidDisconnectInv
  <1>3. CASE Application
    BY <1>3, SendAvailableInv, SendUnavailableInv, FetchRosterInv DEF Application
  <1>4. CASE Server
    BY <1>4, ServerSeesPresenceInv, ServerAnswersFetchInv, ServerSendsPresenceInv,
       ServerSendsRequestInv, ServerSendsAnswerInv, ContactComesOrGoesInv, RosterChangesInv DEF Server
  <1>5. CASE Block
    BY <1>5, HandleDidAuthenticateInv, HandleFetchInv, HandleResultInv, HandlePushInv,
       HandlePresenceInv, HandleDidSendUnavailableInv, HandleDidDisconnectInv DEF Block
  <1>6. CASE \E id \in Ids : TimerFires(id) BY <1>6, TimerFiresInv
  <1>7. CASE UNCHANGED vars
    <2>1. UNCHANGED <<known, moduleQueue>>
      BY <1>7 DEF vars, known, serverVars, moduleVars, storeVars, toldVars
    <2>2. Words' BY <2>1, UnchangedWords DEF Inv
    <2>3. StreamOK' BY <1>7 DEF Inv, TypeOK, StreamOK, vars, streamVars, serverVars
    <2>4. ServerOK' BY <1>7 DEF Inv, TypeOK, ServerOK, vars, serverVars
    <2>5. Outside /\ moduleQueue' = moduleQueue
      BY <1>7 DEF Outside, vars, moduleVars, storeVars, toldVars
    <2>6. KeptIsTimed' /\ ModuleOK' /\ StoreOK' BY <2>5, OutsideInv DEF Inv, TypeOK, ModuleOK
    <2> QED BY <2>2, <2>3, <2>4, <2>6 DEF Inv, TypeOK
  <1> QED BY <1>1, <1>2, <1>3, <1>4, <1>5, <1>6, <1>7 DEF Next

LEMMA Invariant == Spec => []Inv
  BY InitInv, NextInv, PTL DEF Spec

LEMMA PresenceInit == Init => PresenceInv
  <1> SUFFICES ASSUME Init PROVE PresenceInv
    OBVIOUS
  <1>1. /\ moduleQueue = <<>> /\ hasRoster = FALSE /\ earlyPresenceElements = <<>>
        /\ requestedRoster = FALSE /\ up = FALSE /\ available = FALSE /\ owed = {}
        /\ resources = {}
    BY DEF Init
  <1>2. \A M, E, W, T, base : EachOf(moduleQueue, M, E, W, T, base) BY <1>1 DEF EachOf
  <1>3. \A W, T, base : base => AtEnd(moduleQueue, W, T, base) BY <1>1 DEF AtEnd, LastOf
  <1>4. ServerTells BY <1>1, <1>3 DEF ServerTells
  <1>5. Requested BY <1>1, <1>2 DEF Requested
  <1>6. ASSUME NEW c \in Contacts PROVE Listed(c) /\ ToldRoster(c) BY <1>2 DEF Listed, ToldRoster
  <1>7. ASSUME NEW c \in Contacts PROVE ToldLast(c)
    <2>1. ~Counted(c) /\ ~Here(c) BY <1>1, OnlineNone DEF Counted, Here
    <2>2. Counted(c) <=> Here(c) BY <2>1, Zenon DEF Counted, Here
    <2> QED BY <1>3, <2>2 DEF ToldLast
  <1> QED BY <1>1, <1>4, <1>5, <1>6, <1>7 DEF PresenceInv

LEMMA PresenceNext == Inv /\ PresenceInv /\ [Next]_vars => PresenceInv'
  <1> SUFFICES ASSUME Inv, PresenceInv, [Next]_vars PROVE PresenceInv'
    OBVIOUS
  <1>1. CASE DidAuthenticate BY <1>1, DidAuthenticatePresence
  <1>2. CASE DidDisconnect BY <1>2, DidDisconnectPresence
  <1>3. CASE Application
    BY <1>3, SendAvailablePresence, SendUnavailablePresence, FetchRosterPresence DEF Application
  <1>4. CASE Server
    BY <1>4, ServerSeesPresencePresence, ServerAnswersFetchPresence, ServerSendsPresencePresence,
       ServerSendsRequestPresence, ServerSendsAnswerPresence,
       ContactComesOrGoesPresence, RosterChangesPresence DEF Server
  <1>5. CASE Block
    BY <1>5, HandleDidAuthenticatePresence, HandleFetchPresence, HandleResultPresence,
       HandlePushPresence, HandlePresencePresence, HandleDidSendUnavailablePresence,
       HandleDidDisconnectPresence DEF Block
  <1>6. CASE \E id \in Ids : TimerFires(id) BY <1>6, TimerFiresPresence
  <1>7. CASE UNCHANGED vars
    <2>1. /\ UNCHANGED <<up, shown, left, roster, online, interested, available, owed, config>>
          /\ UNCHANGED <<moduleQueue, requestedRoster, hasRoster, earlyPresenceElements>>
          /\ UNCHANGED <<users, resources, guessed>>
      BY <1>7 DEF vars, streamVars, serverVars, moduleVars, storeVars, toldVars
    <2>2. \A c \in Contacts : Counted(c)' = Counted(c) /\ Here(c)' = Here(c)
      BY <2>1 DEF Counted, Here
    <2>3. Spoiled' = Spoiled /\ NotEnding' = NotEnding BY <2>1 DEF Spoiled, NotEnding
    <2>4. ServerTells' BY <2>1 DEF PresenceInv, ServerTells
    <2>5. Requested' BY <2>1 DEF PresenceInv, Requested
    <2>6. \A c \in Contacts : Listed(c) => Listed(c)' BY <2>1 DEF Listed
    <2>7. \A c \in Contacts : ToldRoster(c) => ToldRoster(c)' BY <2>1, <2>2 DEF ToldRoster
    <2>8. \A c \in Contacts : ToldLast(c) => ToldLast(c)' BY <2>1, <2>2, <2>3 DEF ToldLast
    <2> QED BY <2>1, <2>4, <2>5, <2>6, <2>7, <2>8 DEF PresenceInv
  <1> QED BY <1>1, <1>2, <1>3, <1>4, <1>5, <1>6, <1>7 DEF Next

LEMMA PresenceInvariant == Spec => [](Inv /\ PresenceInv /\ AnswersInv)
  BY InitInv, NextInv, PresenceInit, PresenceNext, AnswersInit, AnswersNext, PTL DEF Spec

\* Every variable of XMPPRoster and its storage stays in its domain, resources are those of
\* users, and the server sends nothing without a connection.
THEOREM TypeCorrect == Spec => []TypeOK
  <1>1. Inv => TypeOK BY DEF Inv
  <1> QED BY <1>1, Invariant, PTL

\* Once everything is heard, the users are the contacts on the server: the last word about each
\* contact is that of the server.
THEOREM RosterCorrect == Spec => []RosterMatches
  <1>1. Inv => RosterMatches
    <2> SUFFICES ASSUME Inv, AllHeard, interested, NEW c \in Contacts
                 PROVE  CASE roster[c] = "both"   -> users[c] = "both"
                          [] roster[c] = "none"   -> users[c] \in {"none", "absent", "seen"}
                          [] roster[c] = "absent" -> users[c] \in {"absent", "seen"}
      BY DEF RosterMatches
    <2>1. moduleQueue = <<>> BY DEF AllHeard
    <2>2. LastWord(moduleQueue, hasRoster, users[c], roster[c], c) BY DEF Inv, Words, Matching
    <2>3. Agrees(users[c], roster[c]) BY <2>1, <2>2 DEF LastWord
    <2>4. roster[c] \in {"absent", "none", "both"} BY DEF Inv, TypeOK, ServerOK, Items
    <2> QED BY <2>3, <2>4 DEF Agrees, Unlisted
  <1> QED BY <1>1, Invariant, PTL

\* Once everything is heard, the users with a resource are the contacts that are available:
\* presence that comes before the roster is kept for it in its order, none is lost between the
\* two, and none of an earlier connection is left.  A resource under a bare JID is that of a
\* contact that answered a request on this connection.
THEOREM PresenceCorrect == Spec => []PresenceMatches
  <1>1. Inv /\ PresenceInv /\ AnswersInv => PresenceMatches
    <2> SUFFICES ASSUME Inv, PresenceInv, AnswersInv, AllHeard, shown, ~left,
                        IF config.rosterless THEN ~hasRoster
                                             ELSE config.autoFetch /\ hasRoster /\ ~guessed
                 PROVE  /\ resources = {c \in online : roster[c] = "both"}
                        /\ bareResources \subseteq answered
      BY DEF PresenceMatches, PresenceIsHeard
    <2>1. moduleQueue = <<>> /\ owed = {} /\ available BY DEF AllHeard
    <2>2. ~Spoiled BY DEF Spoiled
    <2>3. ASSUME NEW c \in Contacts
          PROVE  c \in resources <=> roster[c] = "both" /\ c \in online
      <3>1. AtEnd(moduleQueue, Says(c, Here(c)), Telling(c), Counted(c) <=> Here(c))
        BY <2>1, <2>2 DEF PresenceInv, ToldLast
      <3>2. Counted(c) <=> Here(c) BY <2>1, <3>1 DEF AtEnd, LastOf
      <3>3. Counted(c) <=> c \in resources BY DEF Counted
      <3> QED BY <2>1, <3>2, <3>3 DEF Here
    <2>4. resources \subseteq Contacts /\ online \subseteq Contacts
      BY DEF Inv, TypeOK, StoreOK, ServerOK
    <2>5. resources = {c \in online : roster[c] = "both"} BY <2>3, <2>4
    <2>6. bareResources \subseteq answered
      <3>1. NotEnding BY <2>1 DEF NotEnding
      <3> QED BY <3>1 DEF AnswersInv, HeldAnswers, Answered, AllHeard
    <2> QED BY <2>5, <2>6
  <1> QED BY <1>1, PresenceInvariant, PTL

\* Nobody is asked about the request of a contact of the roster, in whatever order requests,
\* rosters and connections come: the requests that come early wait for the roster.
THEOREM AcceptsCorrect == Spec => []KnownIsAccepted
  <1>1. Inv => KnownIsAccepted
    <2> SUFFICES ASSUME Inv, ~config.rosterless, ~guessed, NEW c \in asked
                 PROVE  c \in strangers
      BY DEF KnownIsAccepted
    <2>1. c \in Contacts BY DEF Inv, TypeOK, ModuleOK
    <2> QED BY <2>1 DEF Inv, Words, Friend
  <1> QED BY <1>1, Invariant, PTL

\* Presence is kept only while a timer runs that ends its wait, the safety half of EarlyIsHeard.
THEOREM KeptTimed == Spec => []KeptIsTimed
  <1>1. Inv => KeptIsTimed BY DEF Inv
  <1> QED BY <1>1, Invariant, PTL

=============================================================================
