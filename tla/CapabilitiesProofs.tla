-------------------------- MODULE CapabilitiesProofs --------------------------
(* What is proved about Capabilities, for any number of contacts and hashes.   *)
(*                                                                             *)
(* The invariant says, of every jid whose hash did not change under a request, *)
(* how the set of requests, the lists and the timers fit together; of the      *)
(* others nothing can be said.  The handlers change these three in six ways,   *)
(* and each has its lemma.                                                     *)
EXTENDS Capabilities, TLAPS

----------------------------------------------------------------------------
(* The invariant.                                                              *)

Once(k, s) == \A a, b \in 1..Len(s) : s[a] = k /\ s[b] = k => a = b

\* The parts of the type invariant.
Resources == [there : BOOLEAN, hash : Keys, caps : Keys \cup {"own"}, failed : BOOLEAN]

StorageTypes ==
    /\ resource \in [Jids -> Resources]
    /\ stored \subseteq Hashes

RequestTypes ==
    /\ discoRequestJidSet \subseteq Jids
    /\ discoRequestHashDict \in [Hashes -> [index : Nat, jids : Seq(Jids)]]
    /\ discoTimerJidDict \in [Jids -> Keys \cup {"jid"}]

\* The index of a list is that of a member; a closed list starts at its first.
IndexKnown(h) ==
    /\ Open(h) => discoRequestHashDict[h].index \in 1..Len(Waiting(h))
    /\ ~Open(h) => discoRequestHashDict[h].index = 1

Lists == \A h \in Hashes : IndexKnown(h)

\* Nobody is asked about a hash that is known.
StoredClosed == \A h \in stored : ~Open(h)

\* A jid and the list of a hash, when the jid announces the hash a.
About(k, h, a) ==
    /\ discoTimerJidDict[k] = h => h \in stored \/ (Open(h) /\ Current(h) = k)
    /\ Open(h) /\ Current(h) = k => discoTimerJidDict[k] = h
    /\ Contains(Waiting(h), k) => k \in discoRequestJidSet /\ a = h
    /\ Once(k, Waiting(h))

\* A jid and the set of requests.
Requested(k, a) ==
    /\ k \in discoRequestJidSet =>
           \/ discoTimerJidDict[k] = "jid" /\ a = "none"
           \/ a \in Hashes /\ Contains(Waiting(a), k)
    /\ discoTimerJidDict[k] = "jid" => k \in discoRequestJidSet /\ a = "none"

Kept(k, a) == Requested(k, a) /\ \A h \in Hashes : About(k, h, a)

Fits == \A k \in Jids \ moved : \A a \in Keys : a = resource[k].hash => Kept(k, a)

IInv == TypeOK /\ Lists /\ StoredClosed /\ LinkedByHash /\ Fits

----------------------------------------------------------------------------
(* Sequences.                                                                  *)

\* What Append returns.
LEMMA AppendFacts ==
    ASSUME NEW S, NEW s \in Seq(S), NEW e \in S
    PROVE  /\ Append(s, e) \in Seq(S)
           /\ Len(Append(s, e)) = Len(s) + 1
           /\ \A i \in 1..Len(s) : Append(s, e)[i] = s[i]
           /\ Append(s, e)[Len(s) + 1] = e
           /\ Append(s, e) # <<>>
OBVIOUS

\* What RemoveAt returns: all but one of the elements.
LEMMA RemoveAtFacts ==
    ASSUME NEW S, NEW s \in Seq(S), NEW i \in 1..Len(s)
    PROVE  /\ RemoveAt(s, i) \in Seq(S)
           /\ Len(RemoveAt(s, i)) = Len(s) - 1
           /\ \A n \in 1..(i - 1) : RemoveAt(s, i)[n] = s[n]
           /\ \A n \in i..(Len(s) - 1) : RemoveAt(s, i)[n] = s[n + 1]
  <1> DEFINE l == SubSeq(s, 1, i - 1)
             r == SubSeq(s, i + 1, Len(s))
  <1>1. RemoveAt(s, i) = l \o r
    BY DEF RemoveAt
  <1>2. l \in Seq(S) /\ Len(l) = i - 1 /\ \A n \in 1..(i - 1) : l[n] = s[n]
    OBVIOUS
  <1>3. r \in Seq(S) /\ Len(r) = Len(s) - i /\ \A n \in 1..(Len(s) - i) : r[n] = s[n + i]
    OBVIOUS
  <1> HIDE DEF l, r
  <1>4. l \o r \in Seq(S) /\ Len(l \o r) = Len(s) - 1
    <2>1. l \in Seq(S) /\ r \in Seq(S)
      BY <1>2, <1>3
    <2>2. l \o r \in Seq(S)
      BY <2>1
    <2>3. Len(l \o r) = Len(l) + Len(r)
      BY <2>1
    <2>4. Len(l) + Len(r) = Len(s) - 1
      BY <1>2, <1>3
    <2> QED BY <2>2, <2>3, <2>4
  <1>5. ASSUME NEW n \in 1..(i - 1) PROVE (l \o r)[n] = s[n]
    BY <1>2, <1>3
  <1>6. ASSUME NEW n \in i..(Len(s) - 1) PROVE (l \o r)[n] = s[n + 1]
    <2>1. n - (i - 1) \in 1..(Len(s) - i)
      OBVIOUS
    <2>2. (l \o r)[n] = r[n - (i - 1)]
      BY <1>2, <1>3
    <2> QED BY <2>1, <2>2, <1>3
  <1> QED BY <1>1, <1>4, <1>5, <1>6

\* Membership of a list that was appended to.
LEMMA AppendMembers ==
    ASSUME NEW S, NEW s \in Seq(S), NEW e \in S, NEW k
    PROVE  /\ Contains(s, k) => Contains(Append(s, e), k)
           /\ Contains(Append(s, e), k) => Contains(s, k) \/ k = e
           /\ Contains(Append(s, e), e)
           /\ Once(k, s) /\ (k = e => ~Contains(s, k)) => Once(k, Append(s, e))
  <1> DEFINE t == Append(s, e)
  <1>1. /\ Len(t) = Len(s) + 1 /\ Len(s) \in Nat
        /\ \A i \in 1..Len(s) : t[i] = s[i]
        /\ t[Len(s) + 1] = e
    BY AppendFacts
  <1> HIDE DEF t
  <1>2. /\ Contains(s, k) => Contains(t, k)
        /\ Contains(t, k) => Contains(s, k) \/ k = e
        /\ Contains(t, e)
    BY <1>1 DEF Contains
  <1>3. Once(k, s) /\ (k = e => ~Contains(s, k)) => Once(k, t)
    BY <1>1 DEF Contains, Once
  <1> QED BY <1>2, <1>3 DEF t

\* Membership of a list from which one was removed.
LEMMA RemoveMembers ==
    ASSUME NEW S, NEW s \in Seq(S), NEW i \in 1..Len(s), NEW k
    PROVE  /\ Contains(RemoveAt(s, i), k) => Contains(s, k)
           /\ Contains(s, k) => Contains(RemoveAt(s, i), k) \/ k = s[i]
           /\ Once(k, s) => Once(k, RemoveAt(s, i))
           /\ Once(k, s) /\ k = s[i] => ~Contains(RemoveAt(s, i), k)
  <1> DEFINE t == RemoveAt(s, i)
  <1>0. Len(s) \in Nat
    OBVIOUS
  <1>1. /\ Len(t) = Len(s) - 1
        /\ \A n \in 1..(i - 1) : t[n] = s[n]
        /\ \A n \in i..(Len(s) - 1) : t[n] = s[n + 1]
    BY RemoveAtFacts, Zenon
  <1> HIDE DEF t
  <1>2. \A n \in 1..Len(t) : \E m \in 1..Len(s) :
            t[n] = s[m] /\ m # i /\ m = IF n < i THEN n ELSE n + 1
    BY <1>0, <1>1
  <1>3. Contains(t, k) => Contains(s, k)
    BY <1>2 DEF Contains
  <1>4. ASSUME Contains(s, k), k # s[i] PROVE Contains(t, k)
    <2>1. PICK m \in 1..Len(s) : s[m] = k
      BY <1>4 DEF Contains
    <2>2. m # i
      BY <1>4, <2>1
    <2>3. CASE m < i
      BY <2>3, <2>1, <1>1 DEF Contains
    <2>4. CASE m > i
      <3>1. m - 1 \in i..(Len(s) - 1) /\ m - 1 \in 1..Len(t) /\ (m - 1) + 1 = m
        BY <2>4, <1>0, <1>1
      <3> QED BY <3>1, <2>1, <1>1 DEF Contains
    <2> QED BY <2>2, <2>3, <2>4
  <1>5. Once(k, s) => Once(k, t)
    BY <1>0, <1>2, <1>1 DEF Once
  <1>6. Once(k, s) /\ k = s[i] => ~Contains(t, k)
    BY <1>0, <1>2, <1>1 DEF Once, Contains
  <1> QED BY <1>3, <1>4, <1>5, <1>6 DEF t

\* The members of a list as a set.
LEMMA MembersOfSet ==
    ASSUME NEW S, NEW s \in Seq(S), NEW k
    PROVE  k \in ToSet(s) <=> Contains(s, k)
  BY DEF ToSet, Contains

\* Nobody is in an empty list.
LEMMA EmptyFacts ==
    ASSUME NEW k
    PROVE  ~Contains(<<>>, k) /\ Once(k, <<>>) /\ ToSet(<<>>) = {} /\ <<>> \in Seq(Jids)
  BY DEF Contains, Once, ToSet

----------------------------------------------------------------------------
(* The six ways in which the handlers change requests, lists and timers:       *)
(* nothing, Joins, AsksAlone, Closes, EndsAlone and MaybeQueryNext.  The       *)
(* first lemma of each says that types and lists are kept.                     *)

\* What an answer with the announced hash does.
Closes(j, h) ==
    /\ discoRequestJidSet' = discoRequestJidSet \ ToSet(Waiting(h))
    /\ discoRequestHashDict' = [discoRequestHashDict EXCEPT ![h] = NoList]
    /\ discoTimerJidDict' = [discoTimerJidDict EXCEPT ![j] = "none"]

\* What the end of a query about a jid alone does.
EndsAlone(j) ==
    /\ discoRequestJidSet' = discoRequestJidSet \ {j}
    /\ discoTimerJidDict' = [discoTimerJidDict EXCEPT ![j] = "none"]
    /\ UNCHANGED discoRequestHashDict

\* The timers when MaybeQueryNext is reached: one of the list may have fired.
Ceasing(h, timers) ==
    /\ timers \in [Jids -> Keys \cup {"jid"}]
    /\ \A k \in Jids : timers[k] = discoTimerJidDict[k]
                       \/ (discoTimerJidDict[k] = h /\ timers[k] = "none")

RequestsKept == RequestTypes /\ Lists /\ stored \subseteq Hashes /\ StoredClosed

\* What a list is made of.
LEMMA WaitingType ==
    ASSUME RequestTypes, NEW h \in Hashes
    PROVE  /\ Waiting(h) \in Seq(Jids)
           /\ discoRequestHashDict[h] \in [index : Nat, jids : Seq(Jids)]
           /\ discoRequestHashDict[h].index \in Nat
  BY DEF RequestTypes, Waiting

\* The one being asked is in the list.
LEMMA CurrentWaits ==
    ASSUME RequestTypes, Lists, NEW h \in Hashes, Open(h)
    PROVE  Current(h) \in Jids /\ Contains(Waiting(h), Current(h))
  <1>1. discoRequestHashDict[h].index \in 1..Len(Waiting(h))
    BY DEF Lists, IndexKnown
  <1>2. Waiting(h) \in Seq(Jids)
    BY WaitingType
  <1> QED BY <1>1, <1>2 DEF Current, Contains

LEMMA SameLists ==
    ASSUME RequestsKept, UNCHANGED requestVars, UNCHANGED stored
    PROVE  RequestsKept'
  BY DEF RequestsKept, RequestTypes, Lists, IndexKnown, StoredClosed, Open, Waiting, requestVars

LEMMA JoinsLists ==
    ASSUME RequestsKept, NEW j \in Jids, NEW h \in Hashes, h \notin stored,
           Joins(j, h), UNCHANGED stored
    PROVE  /\ RequestsKept'
           /\ \A g \in Hashes \ {h} : discoRequestHashDict'[g] = discoRequestHashDict[g]
           /\ discoRequestHashDict'[h].jids = Append(Waiting(h), j)
           /\ discoRequestHashDict'[h].index = discoRequestHashDict[h].index
  <1> USE DEF RequestsKept
  <1> DEFINE D == discoRequestHashDict
             w == Append(Waiting(h), j)
  <1>1. /\ Waiting(h) \in Seq(Jids)
        /\ D[h] \in [index : Nat, jids : Seq(Jids)]
        /\ D[h].index \in Nat
    BY WaitingType
  <1>2. w \in Seq(Jids) /\ Len(w) = Len(Waiting(h)) + 1 /\ w # <<>>
    BY <1>1, AppendFacts
  <1>3. D' = [D EXCEPT ![h].jids = w]
    BY DEF Joins, Waiting
  <1>4. D \in [Hashes -> [index : Nat, jids : Seq(Jids)]]
    BY DEF RequestTypes
  <1> HIDE DEF D, w
  <1>5. /\ D'[h].jids = w /\ D'[h].index = D[h].index
        /\ \A g \in Hashes \ {h} : D'[g] = D[g]
    BY <1>1, <1>3, <1>4
  <1>6. D' \in [Hashes -> [index : Nat, jids : Seq(Jids)]]
    BY <1>2, <1>3, <1>4
  <1>7. discoRequestJidSet' \subseteq Jids
    BY DEF Joins, RequestTypes
  <1>8. discoTimerJidDict' \in [Jids -> Keys \cup {"jid"}]
    BY DEF Joins, RequestTypes, Asks, Keys
  <1>9. RequestTypes'
    BY <1>6, <1>7, <1>8 DEF RequestTypes, D
  <1>10. ASSUME NEW g \in Hashes PROVE IndexKnown(g)'
    <2>1. IndexKnown(g)
      BY DEF Lists
    <2>2. CASE g # h
      BY <2>1, <2>2, <1>5 DEF IndexKnown, Open, Waiting, D
    <2>3. CASE g = h
      <3>1. Len(Waiting(h)) \in Nat /\ (Waiting(h) = <<>> => Len(Waiting(h)) = 0)
        BY <1>1
      <3>2. D[h].index \in 1..Len(w)
        BY <2>1, <2>3, <1>2, <3>1 DEF IndexKnown, Open, D
      <3>3. D'[h].index \in 1..Len(D'[h].jids) /\ D'[h].jids # <<>>
        BY <3>2, <1>5, <1>2
      <3> QED BY <2>3, <3>3 DEF IndexKnown, Open, Waiting, D
    <2> QED BY <2>2, <2>3
  <1>11. StoredClosed'
    <2>1. ASSUME NEW g \in stored PROVE D'[g].jids = <<>>
      <3>1. D[g].jids = <<>> /\ g # h /\ g \in Hashes
        BY DEF StoredClosed, Open, Waiting, D
      <3> QED BY <3>1, <1>5
    <2> QED BY <2>1 DEF StoredClosed, Open, Waiting, D
  <1> QED BY <1>5, <1>9, <1>10, <1>11 DEF Lists, D, w

LEMMA AloneLists ==
    ASSUME RequestsKept, NEW j \in Jids, AsksAlone(j) \/ EndsAlone(j), UNCHANGED stored
    PROVE  RequestsKept'
  <1>1. discoRequestHashDict' = discoRequestHashDict
    BY DEF AsksAlone, EndsAlone
  <1>2. discoRequestJidSet' \subseteq Jids
    BY DEF AsksAlone, EndsAlone, RequestsKept, RequestTypes
  <1>3. discoTimerJidDict' \in [Jids -> Keys \cup {"jid"}]
    BY DEF AsksAlone, EndsAlone, Asks, RequestsKept, RequestTypes, Keys
  <1> QED BY <1>1, <1>2, <1>3
          DEF RequestsKept, RequestTypes, Lists, IndexKnown, StoredClosed, Open, Waiting

LEMMA ClosesLists ==
    ASSUME RequestsKept, NEW j \in Jids, NEW h \in Hashes, Closes(j, h),
           stored' = stored \cup {h}
    PROVE  /\ RequestsKept'
           /\ \A g \in Hashes \ {h} : discoRequestHashDict'[g] = discoRequestHashDict[g]
           /\ discoRequestHashDict'[h] = NoList
  <1> DEFINE D == discoRequestHashDict
  <1>1. D \in [Hashes -> [index : Nat, jids : Seq(Jids)]]
    BY DEF RequestsKept, RequestTypes
  <1>2. NoList \in [index : Nat, jids : Seq(Jids)] /\ NoList.jids = <<>> /\ NoList.index = 1
    BY DEF NoList
  <1>3. D' = [D EXCEPT ![h] = NoList]
    BY DEF Closes
  <1> HIDE DEF D
  <1>4. /\ D'[h] = NoList
        /\ \A g \in Hashes \ {h} : D'[g] = D[g]
        /\ D' \in [Hashes -> [index : Nat, jids : Seq(Jids)]]
    BY <1>1, <1>2, <1>3
  <1>5. discoRequestJidSet' \subseteq Jids
    BY DEF Closes, RequestsKept, RequestTypes
  <1>6. discoTimerJidDict' \in [Jids -> Keys \cup {"jid"}]
    BY DEF Closes, RequestsKept, RequestTypes, Keys
  <1>7. RequestTypes'
    BY <1>4, <1>5, <1>6 DEF RequestTypes, D
  <1>8. Lists'
    BY <1>2, <1>4 DEF RequestsKept, Lists, IndexKnown, Open, Waiting, D
  <1>9. StoredClosed'
    <2>1. ASSUME NEW g \in stored' PROVE D'[g].jids = <<>>
      <3>1. CASE g = h
        BY <3>1, <1>2, <1>4
      <3>2. CASE g # h
        <4>1. g \in stored /\ g \in Hashes /\ D[g].jids = <<>>
          BY <3>2 DEF RequestsKept, StoredClosed, Open, Waiting, D
        <4> QED BY <4>1, <3>2, <1>4
      <3> QED BY <3>1, <3>2
    <2> QED BY <2>1 DEF StoredClosed, Open, Waiting, D
  <1> QED BY <1>4, <1>7, <1>8, <1>9 DEF RequestsKept, D

----------------------------------------------------------------------------
(* MaybeQueryNext.                                                             *)

\* The definitions local to it.
NextOf(h, mismatch) ==
    IF mismatch THEN discoRequestHashDict[h].index ELSE discoRequestHashDict[h].index + 1
RestOf(h, mismatch) ==
    IF mismatch THEN RemoveAt(Waiting(h), discoRequestHashDict[h].index) ELSE Waiting(h)
OutOf(h, mismatch)  == IF mismatch THEN {Current(h)} ELSE {}
Ceased(h, timers)   == [timers EXCEPT ![Current(h)] = "none"]

\* Its three outcomes.
NotOpen(h, timers) ==
    /\ ~Open(h)
    /\ discoTimerJidDict' = timers
    /\ UNCHANGED <<discoRequestJidSet, discoRequestHashDict>>

MovesOn(h, mismatch, timers) ==
    /\ Open(h)
    /\ NextOf(h, mismatch) <= Len(RestOf(h, mismatch))
    /\ discoRequestHashDict' =
           [discoRequestHashDict EXCEPT
                ![h] = [index |-> NextOf(h, mismatch), jids |-> RestOf(h, mismatch)]]
    /\ discoTimerJidDict' =
           [Ceased(h, timers) EXCEPT ![RestOf(h, mismatch)[NextOf(h, mismatch)]] = h]
    /\ discoRequestJidSet' = discoRequestJidSet \ OutOf(h, mismatch)

Ends(h, mismatch, timers) ==
    /\ Open(h)
    /\ discoRequestHashDict' = [discoRequestHashDict EXCEPT ![h] = NoList]
    /\ discoTimerJidDict' = Ceased(h, timers)
    /\ discoRequestJidSet' =
           discoRequestJidSet \ (OutOf(h, mismatch) \cup ToSet(RestOf(h, mismatch)))

LEMMA QueryCases ==
    ASSUME NEW h, NEW mismatch, NEW res, NEW timers, MaybeQueryNext(h, mismatch, res, timers)
    PROVE  /\ \/ NotOpen(h, timers)
              \/ MovesOn(h, mismatch, timers)
              \/ Ends(h, mismatch, timers)
           /\ resource' = res \/ \E jids : resource' = Failing(res, jids)
  <1>1. CASE ~Open(h)
    BY <1>1 DEF MaybeQueryNext, NotOpen
  <1>2. CASE Open(h)
    BY <1>2 DEF MaybeQueryNext, QueryNext, GiveUp, Asks, MovesOn, Ends,
                NextOf, RestOf, OutOf, Ceased
  <1> QED BY <1>1, <1>2

\* What is left of a list.
LEMMA RestFacts ==
    ASSUME RequestTypes, Lists, NEW h \in Hashes, Open(h), NEW mismatch \in BOOLEAN
    PROVE  /\ RestOf(h, mismatch) \in Seq(Jids)
           /\ NextOf(h, mismatch) \in Nat \ {0}
           /\ \A k : Contains(RestOf(h, mismatch), k) => Contains(Waiting(h), k)
           /\ \A k : Contains(Waiting(h), k) =>
                  Contains(RestOf(h, mismatch), k) \/ k \in OutOf(h, mismatch)
           /\ \A k : Once(k, Waiting(h)) => Once(k, RestOf(h, mismatch))
           /\ \A k : Once(k, Waiting(h)) /\ k \in OutOf(h, mismatch) =>
                  ~Contains(RestOf(h, mismatch), k)
  <1> DEFINE i == discoRequestHashDict[h].index
  <1>1. i \in 1..Len(Waiting(h)) /\ i \in Nat \ {0}
    BY WaitingType DEF Lists, IndexKnown
  <1>2. Waiting(h) \in Seq(Jids)
    BY WaitingType
  <1>3. CASE mismatch
    <2>1. /\ RestOf(h, mismatch) = RemoveAt(Waiting(h), i)
          /\ NextOf(h, mismatch) = i
          /\ OutOf(h, mismatch) = {Waiting(h)[i]}
      BY <1>3 DEF RestOf, NextOf, OutOf, Current
    <2> HIDE DEF i
    <2>2. RemoveAt(Waiting(h), i) \in Seq(Jids)
      BY <1>1, <1>2, RemoveAtFacts
    <2>3. ASSUME NEW k
          PROVE  /\ Contains(RemoveAt(Waiting(h), i), k) => Contains(Waiting(h), k)
                 /\ Contains(Waiting(h), k) =>
                        Contains(RemoveAt(Waiting(h), i), k) \/ k = Waiting(h)[i]
                 /\ Once(k, Waiting(h)) => Once(k, RemoveAt(Waiting(h), i))
                 /\ Once(k, Waiting(h)) /\ k = Waiting(h)[i] =>
                        ~Contains(RemoveAt(Waiting(h), i), k)
      BY <1>1, <1>2, RemoveMembers, Zenon
    <2> QED BY <1>1, <2>1, <2>2, <2>3
  <1>4. CASE ~mismatch
    <2>1. /\ RestOf(h, mismatch) = Waiting(h)
          /\ NextOf(h, mismatch) = i + 1
          /\ OutOf(h, mismatch) = {}
      BY <1>4 DEF RestOf, NextOf, OutOf
    <2>2. i + 1 \in Nat \ {0}
      BY <1>1
    <2> QED BY <1>2, <2>1, <2>2
  <1> QED BY <1>3, <1>4

LEMMA MovesOnEffect ==
    ASSUME RequestsKept, NEW h \in Hashes, NEW mismatch \in BOOLEAN, NEW timers,
           Ceasing(h, timers), MovesOn(h, mismatch, timers)
    PROVE  /\ discoRequestHashDict' \in [Hashes -> [index : Nat, jids : Seq(Jids)]]
           /\ \A g \in Hashes \ {h} : discoRequestHashDict'[g] = discoRequestHashDict[g]
           /\ discoRequestHashDict'[h] =
                  [index |-> NextOf(h, mismatch), jids |-> RestOf(h, mismatch)]
           /\ NextOf(h, mismatch) \in 1..Len(RestOf(h, mismatch))
           /\ RestOf(h, mismatch) # <<>>
           /\ RestOf(h, mismatch)[NextOf(h, mismatch)] \in Jids
           /\ Contains(RestOf(h, mismatch), RestOf(h, mismatch)[NextOf(h, mismatch)])
  <1> DEFINE D == discoRequestHashDict
             e == [index |-> NextOf(h, mismatch), jids |-> RestOf(h, mismatch)]
  <1>1. D \in [Hashes -> [index : Nat, jids : Seq(Jids)]]
    BY DEF RequestsKept, RequestTypes
  <1>2. RestOf(h, mismatch) \in Seq(Jids) /\ NextOf(h, mismatch) \in Nat \ {0}
    BY RestFacts DEF RequestsKept, MovesOn
  <1>3. e \in [index : Nat, jids : Seq(Jids)]
    BY <1>2
  <1>4. D' = [D EXCEPT ![h] = e]
    BY DEF MovesOn
  <1>5. NextOf(h, mismatch) \in 1..Len(RestOf(h, mismatch))
    <2>1. NextOf(h, mismatch) <= Len(RestOf(h, mismatch)) /\ Len(RestOf(h, mismatch)) \in Nat
      BY <1>2 DEF MovesOn
    <2> QED BY <2>1, <1>2
  <1> HIDE DEF D, e
  <1>6. /\ D' \in [Hashes -> [index : Nat, jids : Seq(Jids)]]
        /\ D'[h] = e
        /\ \A g \in Hashes \ {h} : D'[g] = D[g]
    BY <1>1, <1>3, <1>4
  <1>7. /\ RestOf(h, mismatch) # <<>>
        /\ RestOf(h, mismatch)[NextOf(h, mismatch)] \in Jids
    BY <1>2, <1>5
  <1>8. Contains(RestOf(h, mismatch), RestOf(h, mismatch)[NextOf(h, mismatch)])
    BY <1>5 DEF Contains
  <1> QED BY <1>5, <1>6, <1>7, <1>8 DEF D, e

LEMMA MovesOnLists ==
    ASSUME RequestsKept, NEW h \in Hashes, NEW mismatch \in BOOLEAN, NEW timers,
           Ceasing(h, timers), MovesOn(h, mismatch, timers), UNCHANGED stored
    PROVE  RequestsKept'
  <1>1. /\ discoRequestHashDict' \in [Hashes -> [index : Nat, jids : Seq(Jids)]]
        /\ \A g \in Hashes \ {h} : discoRequestHashDict'[g] = discoRequestHashDict[g]
        /\ discoRequestHashDict'[h] =
               [index |-> NextOf(h, mismatch), jids |-> RestOf(h, mismatch)]
        /\ NextOf(h, mismatch) \in 1..Len(RestOf(h, mismatch))
        /\ RestOf(h, mismatch) # <<>>
        /\ RestOf(h, mismatch)[NextOf(h, mismatch)] \in Jids
    BY MovesOnEffect
  <1>2. discoRequestJidSet' \subseteq Jids
    BY DEF MovesOn, RequestsKept, RequestTypes
  <1>3. discoTimerJidDict' \in [Jids -> Keys \cup {"jid"}]
    BY <1>1 DEF MovesOn, Ceasing, Ceased, Keys
  <1>4. RequestTypes'
    BY <1>1, <1>2, <1>3 DEF RequestTypes
  <1>5. ASSUME NEW g \in Hashes PROVE IndexKnown(g)'
    <2>1. CASE g = h
      BY <2>1, <1>1 DEF IndexKnown, Open, Waiting
    <2>2. CASE g # h
      BY <2>2, <1>1 DEF RequestsKept, Lists, IndexKnown, Open, Waiting
    <2> QED BY <2>1, <2>2
  <1>6. StoredClosed'
    <2>1. ASSUME NEW g \in stored PROVE discoRequestHashDict'[g].jids = <<>>
      <3>1. discoRequestHashDict[g].jids = <<>> /\ g # h /\ g \in Hashes
        BY DEF RequestsKept, StoredClosed, Open, Waiting, MovesOn
      <3> QED BY <3>1, <1>1
    <2> QED BY <2>1 DEF StoredClosed, Open, Waiting
  <1> QED BY <1>4, <1>5, <1>6 DEF RequestsKept, Lists

LEMMA EndsLists ==
    ASSUME RequestsKept, NEW h \in Hashes, NEW mismatch \in BOOLEAN, NEW timers,
           Ceasing(h, timers), Ends(h, mismatch, timers), UNCHANGED stored
    PROVE  /\ RequestsKept'
           /\ \A g \in Hashes \ {h} : discoRequestHashDict'[g] = discoRequestHashDict[g]
           /\ discoRequestHashDict'[h] = NoList
  <1> DEFINE D == discoRequestHashDict
  <1>1. D \in [Hashes -> [index : Nat, jids : Seq(Jids)]]
    BY DEF RequestsKept, RequestTypes
  <1>2. NoList \in [index : Nat, jids : Seq(Jids)] /\ NoList.jids = <<>> /\ NoList.index = 1
    BY DEF NoList
  <1>3. D' = [D EXCEPT ![h] = NoList]
    BY DEF Ends
  <1> HIDE DEF D
  <1>4. /\ D'[h] = NoList
        /\ \A g \in Hashes \ {h} : D'[g] = D[g]
        /\ D' \in [Hashes -> [index : Nat, jids : Seq(Jids)]]
    BY <1>1, <1>2, <1>3
  <1>5. discoRequestJidSet' \subseteq Jids
    BY DEF Ends, RequestsKept, RequestTypes
  <1>6. discoTimerJidDict' \in [Jids -> Keys \cup {"jid"}]
    BY DEF Ends, Ceasing, Ceased, Keys
  <1>7. RequestTypes'
    BY <1>4, <1>5, <1>6 DEF RequestTypes, D
  <1>8. Lists'
    BY <1>2, <1>4 DEF RequestsKept, Lists, IndexKnown, Open, Waiting, D
  <1>9. StoredClosed'
    <2>1. ASSUME NEW g \in stored PROVE D'[g].jids = <<>>
      <3>1. g \in Hashes /\ D[g].jids = <<>>
        BY DEF RequestsKept, StoredClosed, Open, Waiting, D
      <3> QED BY <3>1, <1>2, <1>4
    <2> QED BY <2>1 DEF StoredClosed, Open, Waiting, D
  <1> QED BY <1>4, <1>7, <1>8, <1>9 DEF RequestsKept, D

LEMMA NotOpenLists ==
    ASSUME RequestsKept, NEW h \in Hashes, NEW timers,
           Ceasing(h, timers), NotOpen(h, timers), UNCHANGED stored
    PROVE  RequestsKept'
  <1>1. RequestTypes'
    BY DEF NotOpen, Ceasing, RequestsKept, RequestTypes, Keys
  <1> QED BY <1>1 DEF NotOpen, RequestsKept, Lists, IndexKnown, StoredClosed, Open, Waiting

----------------------------------------------------------------------------
(* What each of the six does to the place of a jid k that announces the hash   *)
(* a, before and after.                                                        *)

\* Of a jid that nothing concerns.
LEMMA Unconcerned ==
    ASSUME RequestTypes, Lists, NEW k \in Jids, NEW a \in Keys, k \notin Concerned
    PROVE  Kept(k, a)
  <1>1. k \notin discoRequestJidSet /\ discoTimerJidDict[k] = "none"
    BY DEF Concerned
  <1>2. ASSUME NEW h \in Hashes PROVE ~Contains(Waiting(h), k)
    BY MembersOfSet, WaitingType DEF Concerned, Listed
  <1>3. ASSUME NEW h \in Hashes PROVE ~(Open(h) /\ Current(h) = k)
    BY <1>2, CurrentWaits
  <1>4. Requested(k, a)
    BY <1>1 DEF Requested
  <1>5. ASSUME NEW h \in Hashes PROVE About(k, h, a)
    <2>1. Once(k, Waiting(h))
      BY <1>2 DEF Once, Contains
    <2> QED BY <1>1, <1>2, <1>3, <2>1, NamesAssumption DEF About
  <1> QED BY <1>4, <1>5 DEF Kept

\* The same after a step.
LEMMA UnconcernedNext ==
    ASSUME RequestTypes', Lists', NEW k \in Jids, NEW a \in Keys, k \notin Concerned'
    PROVE  Kept(k, a)'
  <1>1. k \notin discoRequestJidSet' /\ discoTimerJidDict'[k] = "none"
    BY DEF Concerned
  <1>2. ASSUME NEW h \in Hashes
        PROVE  Waiting(h)' \in Seq(Jids) /\ ~Contains(Waiting(h)', k)
    <2>1. Waiting(h)' \in Seq(Jids) /\ k \notin ToSet(Waiting(h)')
      BY DEF Concerned, Listed, RequestTypes, Waiting
    <2> QED BY <2>1, MembersOfSet
  <1>3. ASSUME NEW h \in Hashes PROVE ~(Open(h)' /\ Current(h)' = k)
    <2>1. Open(h)' => discoRequestHashDict'[h].index \in 1..Len(Waiting(h)')
      BY DEF Lists, IndexKnown
    <2> QED BY <2>1, <1>2 DEF Current, Contains
  <1>4. Requested(k, a)'
    BY <1>1 DEF Requested
  <1>5. ASSUME NEW h \in Hashes PROVE About(k, h, a)'
    <2>1. Once(k, Waiting(h)')
      BY <1>2 DEF Once, Contains
    <2> QED BY <1>1, <1>2, <1>3, <2>1, NamesAssumption DEF About
  <1> QED BY <1>4, <1>5 DEF Kept

LEMMA SameKept ==
    ASSUME NEW k \in Jids, NEW a \in Keys, Kept(k, a), UNCHANGED requestVars, UNCHANGED stored
    PROVE  Kept(k, a)'
  BY DEF Kept, Requested, About, Open, Current, Waiting, requestVars

\* A jid that is in no list and has no request of its own.
LEMMA NotRequested ==
    ASSUME RequestTypes, Lists, NEW k \in Jids, NEW a \in Keys, Kept(k, a),
           k \notin discoRequestJidSet
    PROVE  /\ discoTimerJidDict[k] # "jid"
           /\ \A h \in Hashes : /\ ~Contains(Waiting(h), k)
                                /\ ~(Open(h) /\ Current(h) = k)
                                /\ discoTimerJidDict[k] = h => h \in stored
  <1>1. discoTimerJidDict[k] # "jid"
    BY DEF Kept, Requested
  <1>2. ASSUME NEW h \in Hashes
        PROVE  ~Contains(Waiting(h), k) /\ ~(Open(h) /\ Current(h) = k)
    BY CurrentWaits DEF Kept, About
  <1>3. ASSUME NEW h \in Hashes PROVE discoTimerJidDict[k] = h => h \in stored
    BY <1>2 DEF Kept, About
  <1> QED BY <1>1, <1>2, <1>3

\* The list that a jid is in is that of the hash it announces.
LEMMA WhereListed ==
    ASSUME RequestTypes, Lists, NEW k \in Jids, NEW a \in Keys, Kept(k, a), NEW h \in Hashes
    PROVE  /\ Contains(Waiting(h), k) => a = h /\ k \in discoRequestJidSet
           /\ Open(h) /\ Current(h) = k => a = h
           /\ Once(k, Waiting(h))
  BY CurrentWaits DEF Kept, About

LEMMA JoinsKept ==
    ASSUME RequestsKept, NEW j \in Jids, NEW h \in Hashes, h \notin stored,
           Joins(j, h), UNCHANGED stored,
           NEW k \in Jids, NEW a \in Keys, Kept(k, a),
           k = j => a = h /\ j \notin discoRequestJidSet
    PROVE  Kept(k, a)'
  <1> USE DEF RequestsKept
  <1>1. /\ \A g \in Hashes \ {h} : Waiting(g)' = Waiting(g) /\ Open(g)' = Open(g)
                                   /\ Current(g)' = Current(g)
        /\ Waiting(h)' = Append(Waiting(h), j)
        /\ discoRequestHashDict'[h].index = discoRequestHashDict[h].index
    BY JoinsLists DEF Waiting, Open, Current
  <1>2. Waiting(h) \in Seq(Jids)
    BY WaitingType
  <1>3. /\ Open(h)'
        /\ Open(h) => Current(h)' = Current(h)
        /\ ~Open(h) => Current(h)' = j
    <2>1. Waiting(h)' # <<>>
      BY <1>1, <1>2, AppendFacts
    <2>2. CASE Open(h)
      <3>1. discoRequestHashDict[h].index \in 1..Len(Waiting(h))
        BY <2>2 DEF Lists, IndexKnown
      <3>2. Waiting(h)'[discoRequestHashDict[h].index] = Waiting(h)[discoRequestHashDict[h].index]
        BY <3>1, <1>1, <1>2, AppendFacts
      <3> QED BY <2>1, <2>2, <3>2, <1>1 DEF Open, Current
    <2>3. CASE ~Open(h)
      <3>1. discoRequestHashDict[h].index = 1 /\ Waiting(h) = <<>>
        BY <2>3 DEF Lists, IndexKnown, Open
      <3>2. Waiting(h)'[1] = j
        BY <3>1, <1>1
      <3> QED BY <2>1, <2>3, <3>1, <3>2, <1>1 DEF Open, Current
    <2> QED BY <2>2, <2>3
  <1>4. discoRequestJidSet' = discoRequestJidSet \cup {j}
    BY DEF Joins
  <1>5. /\ Open(h) => discoTimerJidDict' = discoTimerJidDict
        /\ ~Open(h) => discoTimerJidDict' = [discoTimerJidDict EXCEPT ![j] = h]
    BY DEF Joins, Asks
  <1>6. /\ Contains(Waiting(h), k) => Contains(Waiting(h)', k)
        /\ Contains(Waiting(h)', k) => Contains(Waiting(h), k) \/ k = j
        /\ Contains(Waiting(h)', j)
        /\ Once(k, Waiting(h)) /\ (k = j => ~Contains(Waiting(h), k)) => Once(k, Waiting(h)')
    BY <1>1, <1>2, AppendMembers
  <1>7. discoTimerJidDict \in [Jids -> Keys \cup {"jid"}] /\ h # "none" /\ h # "jid"
    BY NamesAssumption DEF RequestTypes
  <1>8. CASE k = j
    <2>1. /\ discoTimerJidDict[k] # "jid"
          /\ \A g \in Hashes : /\ ~Contains(Waiting(g), k)
                               /\ ~(Open(g) /\ Current(g) = k)
                               /\ discoTimerJidDict[k] = g => g \in stored
      BY <1>8, NotRequested
    <2>2. a = h
      BY <1>8
    <2>3. discoTimerJidDict'[k] # "jid"
      BY <1>5, <1>7, <2>1, <1>8
    <2>4. Requested(k, a)'
      BY <1>6, <1>8, <2>2, <2>3 DEF Requested
    <2>5. ASSUME NEW g \in Hashes \ {h} PROVE About(k, g, a)'
      <3>1. discoTimerJidDict'[k] = g => g \in stored
        BY <1>5, <1>7, <1>8, <2>1
      <3>2. Once(k, Waiting(g))
        BY WhereListed
      <3> QED BY <1>1, <2>1, <3>1, <3>2 DEF About
    <2>6. About(k, h, a)'
      <3>1. Once(k, Waiting(h)')
        BY <1>6, <2>1, WhereListed
      <3>2. Open(h) => discoTimerJidDict'[k] # h
        BY <1>5, <2>1
      <3>3. ~Open(h) => discoTimerJidDict'[k] = h
        BY <1>5, <1>7, <1>8
      <3> QED BY <1>3, <1>4, <1>8, <2>1, <2>2, <3>1, <3>2, <3>3 DEF About
    <2> QED BY <2>4, <2>5, <2>6 DEF Kept
  <1>9. CASE k # j
    <2>1. discoTimerJidDict'[k] = discoTimerJidDict[k]
      BY <1>5, <1>7, <1>9
    <2>2. k \in discoRequestJidSet' <=> k \in discoRequestJidSet
      BY <1>4, <1>9
    <2>3. \A g \in Hashes : Contains(Waiting(g)', k) <=> Contains(Waiting(g), k)
      BY <1>1, <1>6, <1>9
    <2>4. Requested(k, a)'
      BY <2>1, <2>2, <2>3 DEF Kept, Requested
    <2>5. ASSUME NEW g \in Hashes \ {h} PROVE About(k, g, a)'
      BY <1>1, <2>1, <2>2 DEF Kept, About
    <2>6. About(k, h, a)'
      <3>1. About(k, h, a)
        BY DEF Kept
      <3>2. Once(k, Waiting(h)')
        BY <1>6, <1>9, <3>1 DEF About
      <3> QED BY <1>3, <1>9, <2>1, <2>2, <2>3, <3>1, <3>2 DEF About
    <2> QED BY <2>4, <2>5, <2>6 DEF Kept
  <1> QED BY <1>8, <1>9

LEMMA AsksAloneKept ==
    ASSUME RequestsKept, NEW j \in Jids, AsksAlone(j), UNCHANGED stored,
           NEW k \in Jids, NEW a \in Keys, Kept(k, a),
           k = j => a = "none" /\ j \notin discoRequestJidSet
    PROVE  Kept(k, a)'
  <1>1. /\ discoRequestJidSet' = discoRequestJidSet \cup {j}
        /\ discoTimerJidDict' = [discoTimerJidDict EXCEPT ![j] = "jid"]
        /\ discoRequestHashDict' = discoRequestHashDict
    BY DEF AsksAlone, Asks
  <1>2. discoTimerJidDict \in [Jids -> Keys \cup {"jid"}] /\ "jid" \notin Hashes
    BY NamesAssumption DEF RequestsKept, RequestTypes
  <1>3. CASE k = j
    <2>1. \A g \in Hashes : ~Contains(Waiting(g), k) /\ ~(Open(g) /\ Current(g) = k)
      BY <1>3, NotRequested DEF RequestsKept
    <2>2. discoTimerJidDict'[k] = "jid" /\ k \in discoRequestJidSet'
      BY <1>1, <1>2, <1>3
    <2>3. \A g \in Hashes : Once(k, Waiting(g))
      BY WhereListed DEF RequestsKept
    <2> QED BY <1>1, <1>2, <1>3, <2>1, <2>2, <2>3
            DEF Kept, Requested, About, Waiting, Open, Current
  <1>4. CASE k # j
    <2>1. /\ discoTimerJidDict'[k] = discoTimerJidDict[k]
          /\ k \in discoRequestJidSet' <=> k \in discoRequestJidSet
      BY <1>1, <1>2, <1>4
    <2> QED BY <1>1, <2>1 DEF Kept, Requested, About, Waiting, Open, Current
  <1> QED BY <1>3, <1>4

LEMMA EndsAloneKept ==
    ASSUME RequestsKept, NEW j \in Jids, EndsAlone(j), UNCHANGED stored,
           NEW k \in Jids, NEW a \in Keys, Kept(k, a), k = j => a = "none"
    PROVE  Kept(k, a)'
  <1>1. /\ discoRequestJidSet' = discoRequestJidSet \ {j}
        /\ discoTimerJidDict' = [discoTimerJidDict EXCEPT ![j] = "none"]
        /\ discoRequestHashDict' = discoRequestHashDict
    BY DEF EndsAlone
  <1>2. discoTimerJidDict \in [Jids -> Keys \cup {"jid"}] /\ "none" \notin Hashes
    BY NamesAssumption DEF RequestsKept, RequestTypes
  <1>3. CASE k = j
    <2>1. \A g \in Hashes : ~Contains(Waiting(g), k) /\ ~(Open(g) /\ Current(g) = k)
      BY <1>2, <1>3, WhereListed DEF RequestsKept
    <2>2. discoTimerJidDict'[k] = "none" /\ k \notin discoRequestJidSet'
      BY <1>1, <1>2, <1>3
    <2>3. \A g \in Hashes : Once(k, Waiting(g))
      BY WhereListed DEF RequestsKept
    <2> QED BY <1>1, <1>2, <1>3, <2>1, <2>2, <2>3
            DEF Kept, Requested, About, Waiting, Open, Current
  <1>4. CASE k # j
    <2>1. /\ discoTimerJidDict'[k] = discoTimerJidDict[k]
          /\ k \in discoRequestJidSet' <=> k \in discoRequestJidSet
      BY <1>1, <1>2, <1>4
    <2> QED BY <1>1, <2>1 DEF Kept, Requested, About, Waiting, Open, Current
  <1> QED BY <1>3, <1>4

LEMMA ClosesKept ==
    ASSUME RequestsKept, NEW j \in Jids, NEW h \in Hashes, Closes(j, h),
           stored' = stored \cup {h},
           NEW k \in Jids, NEW a \in Keys, Kept(k, a), k = j => a = h
    PROVE  Kept(k, a)'
  <1> USE DEF RequestsKept
  <1>1. /\ \A g \in Hashes \ {h} : Waiting(g)' = Waiting(g) /\ Open(g)' = Open(g)
                                   /\ Current(g)' = Current(g)
        /\ Waiting(h)' = <<>> /\ ~Open(h)'
    BY ClosesLists DEF Waiting, Open, Current, NoList
  <1>2. /\ discoRequestJidSet' = discoRequestJidSet \ ToSet(Waiting(h))
        /\ discoTimerJidDict' = [discoTimerJidDict EXCEPT ![j] = "none"]
    BY DEF Closes
  <1>3. /\ k \in discoRequestJidSet' <=> k \in discoRequestJidSet /\ ~Contains(Waiting(h), k)
    BY <1>2, WaitingType, MembersOfSet
  <1>4. /\ discoTimerJidDict \in [Jids -> Keys \cup {"jid"}]
        /\ "none" \notin Hashes /\ "jid" \notin Hashes
    BY NamesAssumption DEF RequestTypes
  <1>5. /\ k # j => discoTimerJidDict'[k] = discoTimerJidDict[k]
        /\ k = j => discoTimerJidDict'[k] = "none"
    BY <1>2, <1>4
  <1>6. Requested(k, a) /\ \A g \in Hashes : About(k, g, a)
    BY DEF Kept
  <1>7. Requested(k, a)'
    <2>1. k \in discoRequestJidSet' =>
              \/ discoTimerJidDict'[k] = "jid" /\ a = "none"
              \/ a \in Hashes /\ Contains(Waiting(a)', k)
      BY <1>1, <1>3, <1>4, <1>5, <1>6 DEF Requested
    <2>2. discoTimerJidDict'[k] = "jid" => k \in discoRequestJidSet' /\ a = "none"
      <3>1. discoTimerJidDict'[k] = "jid" => discoTimerJidDict[k] = "jid"
        BY <1>5
      <3>2. a = "none" => ~Contains(Waiting(h), k)
        BY <1>4, <1>6 DEF About
      <3> QED BY <1>3, <1>6, <3>1, <3>2 DEF Requested
    <2> QED BY <2>1, <2>2 DEF Requested
  <1>8. ASSUME NEW g \in Hashes \ {h} PROVE About(k, g, a)'
    <2>1. Contains(Waiting(g), k) => k \in discoRequestJidSet' /\ a = g
      BY <1>3, <1>6 DEF About
    <2>2. Open(g) /\ Current(g) = k => discoTimerJidDict'[k] = g
      BY <1>5, <1>6, WhereListed DEF About
    <2>3. discoTimerJidDict'[k] = g => g \in stored \/ (Open(g) /\ Current(g) = k)
      BY <1>4, <1>5, <1>6 DEF About
    <2>4. Once(k, Waiting(g))
      BY <1>6 DEF About
    <2> QED BY <1>1, <2>1, <2>2, <2>3, <2>4 DEF About
  <1>9. About(k, h, a)'
    BY <1>1, EmptyFacts DEF About
  <1> QED BY <1>7, <1>8, <1>9 DEF Kept

LEMMA NotOpenKept ==
    ASSUME RequestsKept, NEW h \in Hashes, NEW timers, Ceasing(h, timers),
           NotOpen(h, timers), UNCHANGED stored,
           NEW k \in Jids, NEW a \in Keys, Kept(k, a)
    PROVE  Kept(k, a)'
  <1>1. /\ discoRequestHashDict' = discoRequestHashDict
        /\ discoRequestJidSet' = discoRequestJidSet
        /\ \/ discoTimerJidDict'[k] = discoTimerJidDict[k]
           \/ discoTimerJidDict[k] = h /\ discoTimerJidDict'[k] = "none"
    BY DEF NotOpen, Ceasing
  <1>2. "none" \notin Hashes /\ "jid" \notin Hashes
    BY NamesAssumption
  <1>3. Requested(k, a)'
    BY <1>1, <1>2 DEF Kept, Requested, Waiting
  <1>4. ASSUME NEW g \in Hashes PROVE About(k, g, a)'
    BY <1>1, <1>2 DEF Kept, About, Waiting, Open, Current, NotOpen
  <1> QED BY <1>3, <1>4 DEF Kept

LEMMA MovesOnKept ==
    ASSUME RequestsKept, NEW h \in Hashes, NEW mismatch \in BOOLEAN, NEW timers,
           Ceasing(h, timers), MovesOn(h, mismatch, timers), UNCHANGED stored,
           NEW k \in Jids, NEW a \in Keys, Kept(k, a)
    PROVE  Kept(k, a)'
  <1> DEFINE rest == RestOf(h, mismatch)
             next == RestOf(h, mismatch)[NextOf(h, mismatch)]
             out  == OutOf(h, mismatch)
  <1> USE DEF RequestsKept
  <1>1. /\ \A g \in Hashes \ {h} : Waiting(g)' = Waiting(g) /\ Open(g)' = Open(g)
                                   /\ Current(g)' = Current(g)
        /\ Waiting(h)' = rest /\ Open(h)' /\ Current(h)' = next
        /\ next \in Jids /\ Contains(rest, next)
    <2> HIDE DEF RequestsKept
    <2>1. /\ \A g \in Hashes \ {h} : discoRequestHashDict'[g] = discoRequestHashDict[g]
          /\ discoRequestHashDict'[h] = [index |-> NextOf(h, mismatch), jids |-> rest]
          /\ rest # <<>>
          /\ next \in Jids /\ Contains(rest, next)
      BY MovesOnEffect
    <2> QED BY <2>1 DEF Waiting, Open, Current
  <1>2. Open(h) /\ h \notin stored
    BY DEF MovesOn, StoredClosed
  <1>3. /\ Contains(rest, k) => Contains(Waiting(h), k)
        /\ Contains(Waiting(h), k) => Contains(rest, k) \/ k \in out
        /\ Once(k, Waiting(h)) => Once(k, rest)
        /\ Once(k, Waiting(h)) /\ k \in out => ~Contains(rest, k)
    BY <1>2, RestFacts
  <1>4. k \in out => k = Current(h)
    BY DEF OutOf
  <1>5. k \in discoRequestJidSet' <=> k \in discoRequestJidSet /\ k \notin out
    BY DEF MovesOn
  <1>6. "none" \notin Hashes /\ "jid" \notin Hashes
    BY NamesAssumption
  <1>7. Current(h) \in Jids /\ Contains(Waiting(h), Current(h))
    BY <1>2, CurrentWaits
  <1>8. /\ k = next => discoTimerJidDict'[k] = h
        /\ k # next /\ k = Current(h) => discoTimerJidDict'[k] = "none"
        /\ k # next /\ k # Current(h) => discoTimerJidDict'[k] = timers[k]
    BY <1>1, <1>7 DEF MovesOn, Ceased, Ceasing
  <1>9. /\ timers[k] = discoTimerJidDict[k]
           \/ (discoTimerJidDict[k] = h /\ timers[k] = "none")
    BY DEF Ceasing
  <1> HIDE DEF rest, next, out
  <1>10. Requested(k, a) /\ \A g \in Hashes : About(k, g, a)
    BY DEF Kept
  <1>11. Contains(Waiting(h), k) => a = h /\ k \in discoRequestJidSet
    BY <1>10 DEF About
  <1>12. Once(k, Waiting(h))
    BY <1>10 DEF About
  <1>13. discoTimerJidDict[k] = h => Current(h) = k
    BY <1>2, <1>10 DEF About
  <1>14. k = next \/ k = Current(h) => Contains(Waiting(h), k)
    BY <1>1, <1>3, <1>7
  <1>15. ~Contains(Waiting(h), k) => discoTimerJidDict'[k] = discoTimerJidDict[k]
    BY <1>8, <1>9, <1>13, <1>14
  <1>16. Contains(Waiting(h), k) => discoTimerJidDict'[k] # "jid"
    BY <1>6, <1>8, <1>9, <1>10, <1>11 DEF Requested
  <1>17. Requested(k, a)'
    <2>1. CASE Contains(Waiting(h), k)
      <3>1. a = h /\ (k \in discoRequestJidSet' => Contains(rest, k))
        BY <2>1, <1>3, <1>5, <1>11
      <3> QED BY <2>1, <3>1, <1>1, <1>16 DEF Requested
    <2>2. CASE ~Contains(Waiting(h), k)
      <3>1. k \notin out
        BY <2>2, <1>4, <1>7
      <3>2. k \in discoRequestJidSet' <=> k \in discoRequestJidSet
        BY <3>1, <1>5
      <3>3. a \in Hashes /\ Contains(Waiting(a), k) => Contains(Waiting(a)', k)
        BY <2>2, <1>1
      <3> QED BY <2>2, <3>2, <3>3, <1>10, <1>15 DEF Requested
    <2> QED BY <2>1, <2>2
  <1>18. About(k, h, a)'
    <2>1. discoTimerJidDict'[k] = h => k = next
      BY <1>6, <1>8, <1>9, <1>13
    <2>2. Contains(rest, k) => k \in discoRequestJidSet' /\ a = h
      BY <1>3, <1>5, <1>11, <1>12
    <2> QED BY <1>1, <1>3, <1>8, <1>12, <2>1, <2>2 DEF About
  <1>19. ASSUME NEW g \in Hashes \ {h} PROVE About(k, g, a)'
    <2>1. About(k, g, a)
      BY <1>10
    <2>2. CASE Contains(Waiting(h), k)
      <3>1. ~Contains(Waiting(g), k) /\ ~(Open(g) /\ Current(g) = k)
        BY <2>2, <1>11, WhereListed
      <3>2. discoTimerJidDict'[k] = g => g \in stored
        BY <2>1, <3>1, <1>6, <1>8, <1>9 DEF About
      <3> QED BY <2>1, <3>1, <3>2, <1>1 DEF About
    <2>3. CASE ~Contains(Waiting(h), k)
      <3>1. k \in discoRequestJidSet' <=> k \in discoRequestJidSet
        BY <2>3, <1>4, <1>5, <1>7
      <3> QED BY <2>1, <2>3, <3>1, <1>1, <1>15 DEF About
    <2> QED BY <2>2, <2>3
  <1> QED BY <1>17, <1>18, <1>19 DEF Kept

LEMMA EndsKept ==
    ASSUME RequestsKept, NEW h \in Hashes, NEW mismatch \in BOOLEAN, NEW timers,
           Ceasing(h, timers), Ends(h, mismatch, timers), UNCHANGED stored,
           NEW k \in Jids, NEW a \in Keys, Kept(k, a)
    PROVE  Kept(k, a)'
  <1> USE DEF RequestsKept
  <1>1. /\ \A g \in Hashes \ {h} : Waiting(g)' = Waiting(g) /\ Open(g)' = Open(g)
                                   /\ Current(g)' = Current(g)
        /\ Waiting(h)' = <<>> /\ ~Open(h)'
    BY EndsLists DEF Waiting, Open, Current, NoList
  <1>2. Open(h) /\ h \notin stored
    BY DEF Ends, StoredClosed
  <1>3. Current(h) \in Jids /\ Contains(Waiting(h), Current(h))
    BY <1>2, CurrentWaits
  <1>4. k \in discoRequestJidSet' <=> k \in discoRequestJidSet /\ ~Contains(Waiting(h), k)
    <2>1. /\ Contains(RestOf(h, mismatch), k) => Contains(Waiting(h), k)
          /\ Contains(Waiting(h), k) =>
                 Contains(RestOf(h, mismatch), k) \/ k \in OutOf(h, mismatch)
          /\ RestOf(h, mismatch) \in Seq(Jids)
      BY <1>2, RestFacts
    <2>2. k \in OutOf(h, mismatch) => Contains(Waiting(h), k)
      BY <1>3 DEF OutOf
    <2>3. k \in ToSet(RestOf(h, mismatch)) <=> Contains(RestOf(h, mismatch), k)
      BY <2>1, MembersOfSet
    <2> QED BY <2>1, <2>2, <2>3 DEF Ends
  <1>5. "none" \notin Hashes /\ "jid" \notin Hashes
    BY NamesAssumption
  <1>6. /\ k = Current(h) => discoTimerJidDict'[k] = "none"
        /\ k # Current(h) => discoTimerJidDict'[k] = timers[k]
    BY <1>3 DEF Ends, Ceased, Ceasing
  <1>7. /\ timers[k] = discoTimerJidDict[k]
           \/ (discoTimerJidDict[k] = h /\ timers[k] = "none")
    BY DEF Ceasing
  <1>8. Requested(k, a) /\ \A g \in Hashes : About(k, g, a)
    BY DEF Kept
  <1>9. discoTimerJidDict[k] = h => Current(h) = k
    BY <1>2, <1>8 DEF About
  <1>10. Requested(k, a)'
    <2>1. CASE Contains(Waiting(h), k)
      <3>1. k \notin discoRequestJidSet' /\ a = h
        BY <2>1, <1>4, <1>8 DEF About
      <3>2. discoTimerJidDict'[k] # "jid"
        BY <3>1, <1>5, <1>6, <1>7, <1>8 DEF Requested
      <3> QED BY <3>1, <3>2 DEF Requested
    <2>2. CASE ~Contains(Waiting(h), k)
      <3>1. /\ discoTimerJidDict'[k] = discoTimerJidDict[k]
            /\ k \in discoRequestJidSet' <=> k \in discoRequestJidSet
        BY <2>2, <1>3, <1>4, <1>6, <1>7, <1>9
      <3>2. a \in Hashes /\ Contains(Waiting(a), k) => Contains(Waiting(a)', k)
        BY <2>2, <1>1
      <3> QED BY <3>1, <3>2, <1>8 DEF Requested
    <2> QED BY <2>1, <2>2
  <1>11. About(k, h, a)'
    <2>1. discoTimerJidDict'[k] # h
      BY <1>5, <1>6, <1>7, <1>9
    <2> QED BY <2>1, <1>1, EmptyFacts DEF About
  <1>12. ASSUME NEW g \in Hashes \ {h} PROVE About(k, g, a)'
    <2>1. About(k, g, a)
      BY <1>8
    <2>2. CASE Contains(Waiting(h), k)
      <3>1. ~Contains(Waiting(g), k) /\ ~(Open(g) /\ Current(g) = k)
        BY <2>2, <1>8, WhereListed
      <3>2. discoTimerJidDict'[k] = g => g \in stored
        BY <2>1, <3>1, <1>5, <1>6, <1>7 DEF About
      <3> QED BY <2>1, <3>1, <3>2, <1>1 DEF About
    <2>3. CASE ~Contains(Waiting(h), k)
      <3>1. /\ discoTimerJidDict'[k] = discoTimerJidDict[k]
            /\ k \in discoRequestJidSet' <=> k \in discoRequestJidSet
        BY <2>3, <1>3, <1>4, <1>6, <1>7, <1>9
      <3> QED BY <2>1, <3>1, <1>1 DEF About
    <2> QED BY <2>2, <2>3
  <1> QED BY <1>10, <1>11, <1>12 DEF Kept

\* The three outcomes together.
LEMMA QueryKeeps ==
    ASSUME RequestsKept, NEW h \in Hashes, NEW mismatch \in BOOLEAN, NEW res, NEW timers,
           Ceasing(h, timers), MaybeQueryNext(h, mismatch, res, timers), UNCHANGED stored
    PROVE  /\ RequestsKept'
           /\ \A k \in Jids, a \in Keys : Kept(k, a) => Kept(k, a)'
           /\ resource' = res \/ \E jids : resource' = Failing(res, jids)
  <1>1. /\ \/ NotOpen(h, timers)
           \/ MovesOn(h, mismatch, timers)
           \/ Ends(h, mismatch, timers)
        /\ resource' = res \/ \E jids : resource' = Failing(res, jids)
    BY QueryCases
  <1>2. RequestsKept'
    BY <1>1, NotOpenLists, MovesOnLists, EndsLists
  <1>3. ASSUME NEW k \in Jids, NEW a \in Keys, Kept(k, a) PROVE Kept(k, a)'
    BY <1>1, <1>3, NotOpenKept, MovesOnKept, EndsKept
  <1> QED BY <1>1, <1>2, <1>3

----------------------------------------------------------------------------
(* The handlers.                                                               *)

\* What holds before a step, the jids that changed their hash left out.
Base == StorageTypes /\ informed \subseteq Jids /\ LinkedByHash /\ RequestsKept

\* What every step does.
StepKeeps ==
    /\ Base'
    /\ \A k \in Jids, a \in Keys : Kept(k, a) /\ a = resource'[k].hash => Kept(k, a)'

\* A failure is noted without touching hash or capabilities.
LEMMA FailingFacts ==
    ASSUME NEW res \in [Jids -> Resources], NEW jids
    PROVE  /\ Failing(res, jids) \in [Jids -> Resources]
           /\ \A k \in Jids : /\ Failing(res, jids)[k].hash = res[k].hash
                              /\ Failing(res, jids)[k].caps = res[k].caps
  <1>1. ASSUME NEW k \in Jids
        PROVE  /\ [res[k] EXCEPT !.failed = TRUE] \in Resources
               /\ [res[k] EXCEPT !.failed = TRUE].hash = res[k].hash
               /\ [res[k] EXCEPT !.failed = TRUE].caps = res[k].caps
    BY DEF Resources
  <1> QED BY <1>1 DEF Failing

\* The same capabilities of the same hashes.
LEMMA SameLinks ==
    ASSUME LinkedByHash, UNCHANGED stored,
           \A k \in Jids : /\ resource'[k].hash = resource[k].hash
                           /\ resource'[k].caps = resource[k].caps
    PROVE  LinkedByHash'
  BY DEF LinkedByHash

\* Only one jid is linked in another way.
LEMMA OneLink ==
    ASSUME LinkedByHash, UNCHANGED stored, NEW j \in Jids,
           \A k \in Jids \ {j} : resource'[k].hash = resource[k].hash
                                 /\ resource'[k].caps = resource[k].caps,
           resource'[j].caps \in Hashes => resource'[j].caps = resource'[j].hash,
           resource'[j].caps = "own" => resource'[j].hash = "none",
           resource'[j].hash \in stored => resource'[j].caps = resource'[j].hash
    PROVE  LinkedByHash'
  <1>1. ASSUME NEW k \in Jids
        PROVE  /\ resource'[k].caps \in Hashes => resource'[k].caps = resource'[k].hash
               /\ resource'[k].caps = "own" => resource'[k].hash = "none"
               /\ resource'[k].hash \in stored => resource'[k].caps = resource'[k].hash
    BY DEF LinkedByHash
  <1> QED BY <1>1 DEF LinkedByHash

LEMMA PresenceKeeps ==
    ASSUME Base, NEW j \in Jids, NEW h \in Hashes, NEW fetches \in BOOLEAN,
           HandlePresenceCapabilities(j, h, fetches)
    PROVE  StepKeeps
  <1> USE DEF Base
  <1> DEFINE caps == CapsAfter(j, h)
             e    == [resource[j] EXCEPT !.there = TRUE, !.hash = h, !.caps = caps]
  <1>1. /\ resource \in [Jids -> Resources] /\ resource[j] \in Resources
        /\ stored \subseteq Hashes
        /\ "none" \notin Hashes /\ "own" \notin Hashes
    BY NamesAssumption DEF StorageTypes
  <1>2. /\ caps \in Keys \cup {"own"}
        /\ caps \in Hashes => caps = h
        /\ caps # "own"
        /\ h \in stored => caps = h
    <2>1. CASE resource[j].hash = h
      <3>1. caps = resource[j].caps
        BY <2>1 DEF CapsAfter
      <3> QED BY <2>1, <3>1, <1>1 DEF LinkedByHash, Resources
    <2>2. CASE resource[j].hash # h
      <3>1. caps = IF h \in stored THEN h ELSE "none"
        BY <2>2 DEF CapsAfter
      <3> QED BY <3>1, <1>1 DEF Keys
    <2> QED BY <2>1, <2>2
  <1>3. resource' = [resource EXCEPT ![j] = e]
    BY DEF HandlePresenceCapabilities
  <1>4. informed' \subseteq Jids /\ UNCHANGED stored
    BY DEF HandlePresenceCapabilities
  <1>5. UNCHANGED requestVars
        \/ (/\ caps = "none" /\ ~(Open(h) /\ j \in discoRequestJidSet)
            /\ Joins(j, h))
    BY DEF HandlePresenceCapabilities
  <1> HIDE DEF caps
  <1>6. e \in Resources /\ e.hash = h /\ e.caps = caps
    BY <1>1, <1>2 DEF Resources, Keys
  <1> HIDE DEF e
  <1>7. StorageTypes'
    BY <1>1, <1>3, <1>4, <1>6 DEF StorageTypes
  <1>8. /\ \A k \in Jids \ {j} : resource'[k] = resource[k]
        /\ resource'[j] = e
    BY <1>1, <1>3
  <1>9. LinkedByHash'
    BY <1>2, <1>4, <1>6, <1>8, OneLink
  <1>10. CASE UNCHANGED requestVars
    BY <1>4, <1>7, <1>9, <1>10, SameLists, SameKept DEF StepKeeps
  <1>11. CASE /\ caps = "none" /\ ~(Open(h) /\ j \in discoRequestJidSet)
              /\ Joins(j, h)
    <2>1. h \notin stored
      BY <1>11, <1>2, <1>1
    <2>2. RequestsKept'
      BY <2>1, <1>4, <1>11, JoinsLists
    <2>3. ASSUME NEW k \in Jids, NEW a \in Keys, Kept(k, a), a = resource'[k].hash
          PROVE  Kept(k, a)'
      <3>1. ASSUME k = j PROVE a = h /\ j \notin discoRequestJidSet
        <4>1. a = h
          BY <2>3, <3>1, <1>6, <1>8
        <4>2. Contains(Waiting(h), j) => Open(h)
          BY EmptyFacts DEF Open
        <4>3. j \in discoRequestJidSet => Contains(Waiting(h), j)
          BY <2>3, <3>1, <4>1, <1>1 DEF Kept, Requested
        <4> QED BY <4>1, <4>2, <4>3, <1>11
      <3> QED BY <2>1, <2>3, <3>1, <1>4, <1>11, JoinsKept
    <2> QED BY <2>2, <2>3, <1>4, <1>7, <1>9 DEF StepKeeps
  <1> QED BY <1>5, <1>10, <1>11

LEMMA LegacyKeeps ==
    ASSUME Base, NEW j \in Jids, NEW fetches \in BOOLEAN,
           HandleLegacyPresenceCapabilities(j, fetches)
    PROVE  StepKeeps
  <1> USE DEF Base
  <1> DEFINE e == [resource[j] EXCEPT !.there = TRUE, !.hash = "none", !.caps = "none"]
  <1>1. /\ resource \in [Jids -> Resources] /\ resource[j] \in Resources
        /\ stored \subseteq Hashes
        /\ "none" \notin Hashes
    BY NamesAssumption DEF StorageTypes
  <1>2. resource' = [resource EXCEPT ![j] = e] /\ informed' \subseteq Jids /\ UNCHANGED stored
    BY DEF HandleLegacyPresenceCapabilities
  <1>3. UNCHANGED requestVars \/ (j \notin discoRequestJidSet /\ AsksAlone(j))
    BY DEF HandleLegacyPresenceCapabilities
  <1>4. e \in Resources /\ e.hash = "none" /\ e.caps = "none"
    BY <1>1 DEF Resources, Keys
  <1> HIDE DEF e
  <1>5. StorageTypes'
    BY <1>1, <1>2, <1>4 DEF StorageTypes
  <1>6. /\ \A k \in Jids \ {j} : resource'[k] = resource[k]
        /\ resource'[j] = e
    BY <1>1, <1>2
  <1>7. LinkedByHash'
    BY <1>1, <1>2, <1>4, <1>6, OneLink
  <1>8. CASE UNCHANGED requestVars
    BY <1>2, <1>5, <1>7, <1>8, SameLists, SameKept DEF StepKeeps
  <1>9. CASE j \notin discoRequestJidSet /\ AsksAlone(j)
    <2>1. RequestsKept'
      BY <1>2, <1>9, AloneLists
    <2>2. ASSUME NEW k \in Jids, NEW a \in Keys, Kept(k, a), a = resource'[k].hash
          PROVE  Kept(k, a)'
      <3>1. k = j => a = "none"
        BY <2>2, <1>4, <1>6
      <3> QED BY <2>2, <3>1, <1>2, <1>9, AsksAloneKept
    <2> QED BY <2>1, <2>2, <1>2, <1>5, <1>7 DEF StepKeeps
  <1> QED BY <1>3, <1>8, <1>9

LEMMA FetchKeeps ==
    ASSUME Base, NEW j \in Jids, FetchCapabilitiesForJID(j)
    PROVE  StepKeeps
  <1> USE DEF Base
  <1>1. /\ resource[j] \in Resources /\ resource[j].hash \in Keys
        /\ stored \subseteq Hashes
        /\ "none" \notin Hashes
    BY NamesAssumption DEF StorageTypes, Resources
  <1>2. /\ j \notin discoRequestJidSet /\ resource[j].caps = "none"
        /\ UNCHANGED stored /\ UNCHANGED resource /\ UNCHANGED informed
        /\ \/ resource[j].hash \in Hashes /\ Joins(j, resource[j].hash)
           \/ resource[j].hash = "none" /\ AsksAlone(j)
    BY <1>1 DEF FetchCapabilitiesForJID, Keys, storageVars
  <1>3. StorageTypes' /\ LinkedByHash'
    BY <1>2 DEF StorageTypes, LinkedByHash
  <1>4. CASE resource[j].hash \in Hashes /\ Joins(j, resource[j].hash)
    <2> DEFINE h == resource[j].hash
    <2>1. h \in Hashes /\ h \notin stored /\ Joins(j, h)
      BY <1>1, <1>2, <1>4 DEF LinkedByHash
    <2>2. RequestsKept'
      BY <2>1, <1>2, JoinsLists
    <2>3. ASSUME NEW k \in Jids, NEW a \in Keys, Kept(k, a), a = resource'[k].hash
          PROVE  Kept(k, a)'
      <3>1. k = j => a = h
        BY <2>3, <1>2
      <3> HIDE DEF h
      <3> QED BY <2>1, <2>3, <3>1, <1>2, JoinsKept
    <2> QED BY <2>2, <2>3, <1>2, <1>3 DEF StepKeeps
  <1>5. CASE resource[j].hash = "none" /\ AsksAlone(j)
    <2>1. RequestsKept'
      BY <1>2, <1>5, AloneLists
    <2>2. ASSUME NEW k \in Jids, NEW a \in Keys, Kept(k, a), a = resource'[k].hash
          PROVE  Kept(k, a)'
      <3>1. k = j => a = "none"
        BY <2>2, <1>2, <1>5
      <3> QED BY <2>2, <3>1, <1>2, <1>5, AsksAloneKept
    <2> QED BY <2>1, <2>2, <1>2, <1>3 DEF StepKeeps
  <1> QED BY <1>2, <1>4, <1>5

\* What is forgotten is linked to nothing.
LEMMA ForgetsKeeps ==
    ASSUME Base, WillSendUnavailable \/ \E j \in Jids : ReceiveUnavailable(j)
    PROVE  StepKeeps
  <1> USE DEF Base
  <1>1. /\ UNCHANGED stored /\ UNCHANGED requestVars
        /\ informed' \subseteq Jids
        /\ resource' \in [Jids -> Resources]
        /\ \A k \in Jids : resource'[k] = resource[k] \/ resource'[k] = Absent
    <2>1. Absent \in Resources
      BY DEF Absent, Resources, Keys
    <2>2. resource \in [Jids -> Resources]
      BY DEF StorageTypes
    <2>3. CASE WillSendUnavailable
      BY <2>1, <2>2, <2>3 DEF WillSendUnavailable
    <2>4. CASE \E j \in Jids : ReceiveUnavailable(j)
      <3>1. PICK j \in Jids : ReceiveUnavailable(j)
        BY <2>4
      <3>2. /\ resource' = [resource EXCEPT ![j] = Absent]
            /\ informed' = informed \ {j}
            /\ UNCHANGED stored /\ UNCHANGED requestVars
        BY <3>1 DEF ReceiveUnavailable
      <3> QED BY <2>1, <2>2, <3>2
    <2> QED BY <2>3, <2>4
  <1>2. StorageTypes'
    BY <1>1 DEF StorageTypes
  <1>3. LinkedByHash'
    <2>1. /\ Absent.hash = "none" /\ Absent.caps = "none"
          /\ "none" \notin Hashes /\ stored \subseteq Hashes
      BY NamesAssumption DEF Absent, StorageTypes
    <2>2. ASSUME NEW k \in Jids
          PROVE  /\ resource'[k].caps \in Hashes => resource'[k].caps = resource'[k].hash
                 /\ resource'[k].caps = "own" => resource'[k].hash = "none"
                 /\ resource'[k].hash \in stored => resource'[k].caps = resource'[k].hash
      <3>1. CASE resource'[k] = resource[k]
        BY <3>1 DEF LinkedByHash
      <3>2. CASE resource'[k] = Absent
        BY <3>2, <2>1
      <3> QED BY <3>1, <3>2, <1>1
    <2> QED BY <2>2, <1>1 DEF LinkedByHash
  <1> QED BY <1>1, <1>2, <1>3, SameLists, SameKept DEF StepKeeps

\* An answer with the hash that was announced.
LEMMA MatchesKeeps ==
    ASSUME Base, NEW j \in Jids, NEW h \in Hashes, resource[j].hash = h, Matches(j, h)
    PROVE  StepKeeps
  <1> USE DEF Base
  <1>1. /\ resource \in [Jids -> Resources] /\ stored \subseteq Hashes
        /\ "none" \notin Hashes /\ "own" \notin Hashes /\ h # "own" /\ h # "none"
    BY NamesAssumption DEF StorageTypes
  <1>2. /\ stored' = stored \cup {h}
        /\ resource' = [k \in Jids |-> IF resource[k].hash = h
                                       THEN [resource[k] EXCEPT !.caps = h] ELSE resource[k]]
        /\ Closes(j, h)
        /\ informed' \subseteq Jids
    BY DEF Matches, Closes
  <1>3. ASSUME NEW k \in Jids
        PROVE  /\ resource'[k] \in Resources
               /\ resource'[k].hash = resource[k].hash
               /\ resource[k].hash = h => resource'[k].caps = h
               /\ resource[k].hash # h => resource'[k].caps = resource[k].caps
    <2>1. resource[k] \in Resources
      BY <1>1
    <2>2. LET e == [resource[k] EXCEPT !.caps = h]
          IN  e \in Resources /\ e.hash = resource[k].hash /\ e.caps = h
      BY <2>1 DEF Resources, Keys
    <2>3. resource'[k] = IF resource[k].hash = h
                         THEN [resource[k] EXCEPT !.caps = h] ELSE resource[k]
      BY <1>2
    <2> QED BY <2>1, <2>2, <2>3
  <1>4. StorageTypes'
    BY <1>1, <1>2, <1>3 DEF StorageTypes
  <1>5. LinkedByHash'
    <2>1. ASSUME NEW k \in Jids
          PROVE  /\ resource'[k].caps \in Hashes => resource'[k].caps = resource'[k].hash
                 /\ resource'[k].caps = "own" => resource'[k].hash = "none"
                 /\ resource'[k].hash \in stored' => resource'[k].caps = resource'[k].hash
      <3>1. CASE resource[k].hash = h
        BY <3>1, <1>1, <1>3
      <3>2. CASE resource[k].hash # h
        BY <3>2, <1>2, <1>3 DEF LinkedByHash
      <3> QED BY <3>1, <3>2
    <2> QED BY <2>1 DEF LinkedByHash
  <1>6. RequestsKept'
    BY <1>2, ClosesLists
  <1>7. ASSUME NEW k \in Jids, NEW a \in Keys, Kept(k, a), a = resource'[k].hash
        PROVE  Kept(k, a)'
    <2>1. k = j => a = h
      BY <1>3, <1>7
    <2> QED BY <2>1, <1>2, <1>7, ClosesKept
  <1> QED BY <1>2, <1>4, <1>5, <1>6, <1>7 DEF StepKeeps

\* An answer with another.
LEMMA MismatchesKeeps ==
    ASSUME Base, NEW j \in Jids, NEW h \in Hashes, resource[j].hash = h, Mismatches(j, h)
    PROVE  StepKeeps
  <1> USE DEF Base
  <1> DEFINE e == [resource[j] EXCEPT !.hash = "none", !.caps = "own"]
             r == [resource EXCEPT ![j] = e]
  <1>1. /\ resource \in [Jids -> Resources] /\ resource[j] \in Resources
        /\ stored \subseteq Hashes
        /\ "none" \notin Hashes /\ "own" \notin Hashes
    BY NamesAssumption DEF StorageTypes
  <1>2. /\ MaybeQueryNext(h, TRUE, r, discoTimerJidDict)
        /\ informed' \subseteq Jids /\ UNCHANGED stored
    BY DEF Mismatches
  <1>3. e \in Resources /\ e.hash = "none" /\ e.caps = "own"
    BY <1>1 DEF Resources, Keys
  <1> HIDE DEF e
  <1>4. /\ r \in [Jids -> Resources] /\ r[j] = e
        /\ \A k \in Jids \ {j} : r[k] = resource[k]
    BY <1>1, <1>3
  <1> HIDE DEF r
  <1>5. Ceasing(h, discoTimerJidDict)
    BY DEF Ceasing, RequestsKept, RequestTypes
  <1>6. /\ RequestsKept'
        /\ \A k \in Jids, a \in Keys : Kept(k, a) => Kept(k, a)'
        /\ resource' = r \/ \E jids : resource' = Failing(r, jids)
    BY <1>2, <1>5, QueryKeeps
  <1>7. /\ resource' \in [Jids -> Resources]
        /\ \A k \in Jids : /\ resource'[k].hash = r[k].hash
                           /\ resource'[k].caps = r[k].caps
    BY <1>4, <1>6, FailingFacts
  <1>8. StorageTypes'
    BY <1>1, <1>2, <1>7 DEF StorageTypes
  <1>9. LinkedByHash'
    <2>1. /\ \A k \in Jids \ {j} : resource'[k].hash = resource[k].hash
                                   /\ resource'[k].caps = resource[k].caps
          /\ resource'[j].hash = "none" /\ resource'[j].caps = "own"
      BY <1>3, <1>4, <1>7
    <2> QED BY <2>1, <1>1, <1>2, OneLink
  <1> QED BY <1>2, <1>6, <1>8, <1>9 DEF StepKeeps

LEMMA AnswersAloneKeeps ==
    ASSUME Base, NEW j \in Jids, resource[j].hash = "none", AnswersAlone(j)
    PROVE  StepKeeps
  <1> USE DEF Base
  <1> DEFINE e == [resource[j] EXCEPT !.there = TRUE, !.caps = "own"]
  <1>1. /\ resource \in [Jids -> Resources] /\ resource[j] \in Resources
        /\ stored \subseteq Hashes
        /\ "none" \notin Hashes /\ "own" \notin Hashes
    BY NamesAssumption DEF StorageTypes
  <1>2. /\ resource' = [resource EXCEPT ![j] = e]
        /\ EndsAlone(j)
        /\ informed' \subseteq Jids /\ UNCHANGED stored
    BY DEF AnswersAlone, EndsAlone
  <1>3. e \in Resources /\ e.hash = "none" /\ e.caps = "own"
    BY <1>1 DEF Resources, Keys
  <1> HIDE DEF e
  <1>4. /\ resource' \in [Jids -> Resources] /\ resource'[j] = e
        /\ \A k \in Jids \ {j} : resource'[k] = resource[k]
    BY <1>1, <1>2, <1>3
  <1>5. StorageTypes'
    BY <1>1, <1>2, <1>4 DEF StorageTypes
  <1>6. LinkedByHash'
    BY <1>1, <1>2, <1>3, <1>4, OneLink
  <1>7. RequestsKept'
    BY <1>2, AloneLists
  <1>8. ASSUME NEW k \in Jids, NEW a \in Keys, Kept(k, a), a = resource'[k].hash
        PROVE  Kept(k, a)'
    <2>1. k = j => a = "none"
      BY <1>3, <1>4, <1>8
    <2> QED BY <2>1, <1>2, <1>8, EndsAloneKept
  <1> QED BY <1>2, <1>5, <1>6, <1>7, <1>8 DEF StepKeeps

\* No answer about a jid alone: the jid announces no hash, or it changed.
LEMMA FailsAloneKeeps ==
    ASSUME Base, NEW j \in Jids, FailsAlone(j), UNCHANGED <<stored, informed>>,
           resource[j].hash = "none" \/ discoTimerJidDict[j] = "jid"
    PROVE  StepKeeps
  <1> USE DEF Base
  <1>1. resource \in [Jids -> Resources]
    BY DEF StorageTypes
  <1>2. /\ resource' = Failing(resource, {j})
        /\ EndsAlone(j)
        /\ UNCHANGED stored /\ UNCHANGED informed
    BY DEF FailsAlone, EndsAlone
  <1>3. /\ resource' \in [Jids -> Resources]
        /\ \A k \in Jids : /\ resource'[k].hash = resource[k].hash
                           /\ resource'[k].caps = resource[k].caps
    BY <1>1, <1>2, FailingFacts
  <1>4. StorageTypes' /\ LinkedByHash'
    BY <1>2, <1>3, SameLinks DEF StorageTypes
  <1>5. RequestsKept'
    BY <1>2, AloneLists
  <1>6. ASSUME NEW k \in Jids, NEW a \in Keys, Kept(k, a), a = resource'[k].hash
        PROVE  Kept(k, a)'
    <2>1. k = j => a = "none"
      BY <1>3, <1>6 DEF Kept, Requested
    <2> QED BY <2>1, <1>2, <1>6, EndsAloneKept
  <1> QED BY <1>2, <1>4, <1>5, <1>6 DEF StepKeeps

\* No answer about a hash.
LEMMA NextKeeps ==
    ASSUME Base, NEW h \in Hashes, NEW timers, Ceasing(h, timers),
           MaybeQueryNext(h, FALSE, resource, timers), UNCHANGED <<stored, informed>>
    PROVE  StepKeeps
  <1> USE DEF Base
  <1>1. resource \in [Jids -> Resources]
    BY DEF StorageTypes
  <1>2. /\ RequestsKept'
        /\ \A k \in Jids, a \in Keys : Kept(k, a) => Kept(k, a)'
        /\ resource' = resource \/ \E jids : resource' = Failing(resource, jids)
    BY QueryKeeps
  <1>3. /\ resource' \in [Jids -> Resources]
        /\ \A k \in Jids : /\ resource'[k].hash = resource[k].hash
                           /\ resource'[k].caps = resource[k].caps
    BY <1>1, <1>2, FailingFacts
  <1>4. StorageTypes' /\ LinkedByHash'
    BY <1>3, SameLinks DEF StorageTypes
  <1> QED BY <1>2, <1>4 DEF StepKeeps

LEMMA ResponseKeeps ==
    ASSUME Base, NEW j \in Jids, NEW matches \in BOOLEAN, HandleDiscoResponse(j, matches)
    PROVE  StepKeeps
  <1>1. CASE resource[j].hash \in Hashes /\ Matches(j, resource[j].hash)
    BY <1>1, MatchesKeeps
  <1>2. CASE resource[j].hash \in Hashes /\ Mismatches(j, resource[j].hash)
    BY <1>2, MismatchesKeeps
  <1>3. CASE resource[j].hash = "none" /\ AnswersAlone(j)
    BY <1>3, AnswersAloneKeeps
  <1> QED BY <1>1, <1>2, <1>3 DEF HandleDiscoResponse

LEMMA ErrorKeeps ==
    ASSUME Base, NEW j \in Jids, HandleDiscoErrorResponse(j)
    PROVE  StepKeeps
  <1>1. UNCHANGED <<stored, informed>>
    BY DEF HandleDiscoErrorResponse
  <1>2. CASE /\ resource[j].hash \in Hashes
             /\ MaybeQueryNext(resource[j].hash, FALSE, resource, discoTimerJidDict)
    <2>1. Ceasing(resource[j].hash, discoTimerJidDict)
      BY DEF Base, RequestsKept, RequestTypes, Ceasing
    <2> QED BY <1>1, <1>2, <2>1, NextKeeps
  <1>3. CASE resource[j].hash = "none" /\ FailsAlone(j)
    BY <1>1, <1>3, FailsAloneKeeps
  <1> QED BY <1>2, <1>3 DEF HandleDiscoErrorResponse

LEMMA TimeoutKeeps ==
    ASSUME Base, NEW j \in Jids, Timeout(j)
    PROVE  StepKeeps
  <1>1. UNCHANGED <<stored, informed>>
    BY DEF Timeout
  <1> DEFINE timers == [discoTimerJidDict EXCEPT ![j] = "none"]
             for    == discoTimerJidDict[j]
  <1>2. \/ for \in Hashes /\ MaybeQueryNext(for, FALSE, resource, timers)
        \/ for = "jid" /\ FailsAlone(j)
    BY DEF Timeout
  <1>3. CASE for \in Hashes /\ MaybeQueryNext(for, FALSE, resource, timers)
    <2>1. Ceasing(for, timers)
      BY <1>3 DEF Base, RequestsKept, RequestTypes, Ceasing, Keys
    <2> HIDE DEF timers, for
    <2> QED BY <1>1, <1>3, <2>1, NextKeeps
  <1>4. CASE for = "jid" /\ FailsAlone(j)
    BY <1>1, <1>4, FailsAloneKeeps
  <1> QED BY <1>2, <1>3, <1>4

----------------------------------------------------------------------------
(* The theorems.                                                               *)

LEMMA StepStep ==
    ASSUME NamesAssumption, Base, Step
    PROVE  StepKeeps
  <1>1. ASSUME NEW j \in Jids, NEW fetches \in BOOLEAN, NEW h \in Announced[j],
               HandlePresenceCapabilities(j, h, fetches)
        PROVE  StepKeeps
    BY <1>1, NamesAssumption, PresenceKeeps
  <1>2. ASSUME NEW j \in Jids, NEW fetches \in BOOLEAN,
               HandleLegacyPresenceCapabilities(j, fetches)
        PROVE  StepKeeps
    BY <1>2, LegacyKeeps
  <1>3. ASSUME NEW j \in Jids, FetchCapabilitiesForJID(j) PROVE StepKeeps
    BY <1>3, FetchKeeps
  <1>4. CASE WillSendUnavailable \/ \E j \in Jids : ReceiveUnavailable(j)
    BY <1>4, ForgetsKeeps
  <1>5. ASSUME NEW j \in Jids, NEW matches \in BOOLEAN, HandleDiscoResponse(j, matches)
        PROVE  StepKeeps
    BY <1>5, ResponseKeeps
  <1>6. ASSUME NEW j \in Jids, HandleDiscoErrorResponse(j) PROVE StepKeeps
    BY <1>6, ErrorKeeps
  <1>7. ASSUME NEW j \in Jids, Timeout(j) PROVE StepKeeps
    BY <1>7, TimeoutKeeps
  <1> QED BY <1>1, <1>2, <1>3, <1>4, <1>5, <1>6, <1>7 DEF Step

LEMMA InitInv == Init => IInv
  <1> SUFFICES ASSUME Init PROVE IInv
    OBVIOUS
  <1>1. Absent \in Resources /\ Absent.hash = "none" /\ Absent.caps = "none"
    BY DEF Absent, Resources, Keys
  <1>2. NoList \in [index : Nat, jids : Seq(Jids)] /\ NoList.jids = <<>> /\ NoList.index = 1
    BY DEF NoList
  <1>3. \A j \in Jids : resource[j] = Absent /\ discoTimerJidDict[j] = "none"
    BY DEF Init
  <1>4. \A h \in Hashes : discoRequestHashDict[h] = NoList
    BY DEF Init
  <1>5. TypeOK
    BY <1>1, <1>2 DEF Init, TypeOK, Keys, Resources
  <1>6. Lists
    BY <1>2, <1>4 DEF Lists, IndexKnown, Open, Waiting
  <1>7. StoredClosed
    BY DEF StoredClosed, Init
  <1>8. LinkedByHash
    BY <1>1, <1>3, NamesAssumption DEF LinkedByHash, Init
  <1>9. Fits
    <2> SUFFICES ASSUME NEW k \in Jids, NEW a \in Keys PROVE Kept(k, a)
      BY DEF Fits
    <2>1. k \notin Concerned
      BY <1>2, <1>3, <1>4, EmptyFacts DEF Concerned, Listed, Waiting, Init
    <2> QED BY <2>1, <1>5, <1>6, Unconcerned DEF TypeOK, RequestTypes
  <1> QED BY <1>5, <1>6, <1>7, <1>8, <1>9 DEF IInv

LEMMA BaseOfInv == ASSUME IInv PROVE Base
  BY DEF IInv, Base, TypeOK, StorageTypes, Resources, RequestTypes, RequestsKept

LEMMA NextInv == ASSUME IInv, [Next]_vars PROVE IInv'
  <1>1. CASE UNCHANGED vars
    <2>1. /\ UNCHANGED storageVars /\ UNCHANGED requestVars
          /\ UNCHANGED informed /\ UNCHANGED moved
      BY <1>1 DEF vars
    <2>2. TypeOK' /\ LinkedByHash'
      BY <2>1 DEF IInv, TypeOK, LinkedByHash, storageVars, requestVars
    <2>3. Lists' /\ StoredClosed'
      BY <2>1, BaseOfInv, SameLists DEF Base, RequestsKept, storageVars
    <2>4. Fits'
      BY <2>1, SameKept DEF IInv, Fits, storageVars
    <2> QED BY <2>2, <2>3, <2>4 DEF IInv
  <1>2. CASE Next
    <2>1. Base /\ Step /\ Remembers
      BY <1>2, BaseOfInv DEF Next
    <2>2. StepKeeps
      BY <2>1, NamesAssumption, StepStep
    <2>3. /\ StorageTypes' /\ informed' \subseteq Jids /\ LinkedByHash'
          /\ RequestTypes' /\ Lists' /\ StoredClosed'
      BY <2>2 DEF StepKeeps, Base, RequestsKept
    <2>4. moved' \subseteq Jids
      <3>1. Concerned' \subseteq Jids
        BY <2>3 DEF Concerned, Listed, RequestTypes, Waiting, ToSet
      <3> QED BY <3>1, <2>1 DEF Remembers
    <2>5. TypeOK'
      BY <2>3, <2>4 DEF TypeOK, StorageTypes, Resources, RequestTypes
    <2>6. Fits'
      <3> SUFFICES ASSUME NEW k \in Jids, k \notin moved', NEW a \in Keys, a = resource'[k].hash
                   PROVE  Kept(k, a)'
        BY DEF Fits
      <3>1. CASE k \notin Concerned'
        BY <3>1, <2>3, UnconcernedNext
      <3>2. CASE k \in Concerned'
        <4>1. k \notin moved /\ (k \notin Concerned \/ resource'[k].hash = resource[k].hash)
          BY <3>2, <2>1 DEF Remembers
        <4>2. Kept(k, a)
          <5>1. CASE k \notin Concerned
            BY <5>1, <2>1, Unconcerned DEF Base, RequestsKept
          <5>2. CASE resource'[k].hash = resource[k].hash
            BY <5>2, <4>1 DEF IInv, Fits
          <5> QED BY <4>1, <5>1, <5>2
        <4> QED BY <4>2, <2>2 DEF StepKeeps
      <3> QED BY <3>1, <3>2
    <2> QED BY <2>3, <2>5, <2>6 DEF IInv
  <1> QED BY <1>1, <1>2

LEMMA Invariance == Spec => []IInv
  <1>1. Init => IInv
    BY InitInv
  <1>2. IInv /\ [Next]_vars => IInv'
    BY NextInv
  <1> QED BY <1>1, <1>2, PTL DEF Spec

\* The state has its types, whatever arrives and in whatever order.
THEOREM TypeCorrect == Spec => []TypeOK
  <1>1. IInv => TypeOK
    BY DEF IInv
  <1> QED BY <1>1, Invariance, PTL

\* A jid is linked to the capabilities of the hash it announces as soon as they are stored, and
\* to no others.
THEOREM LinkedCorrect == Spec => []LinkedByHash
  <1>1. IInv => LinkedByHash
    BY DEF IInv
  <1> QED BY <1>1, Invariance, PTL

LEMMA InvOneIsAsked == ASSUME IInv PROVE OneIsAsked
  <1>1. ASSUME NEW h \in Hashes PROVE IndexInRange(h)
    <2>1. Open(h) => discoRequestHashDict[h].index \in 1..Len(Waiting(h))
      BY DEF IInv, Lists, IndexKnown
    <2>2. Waiting(h) \in Seq(Jids)
      BY BaseOfInv, WaitingType DEF Base, RequestsKept
    <2> QED BY <2>1, <2>2 DEF IndexInRange
  <1>2. ASSUME NEW h \in Hashes, NEW j \in Jids \ moved, Open(h)
        PROVE  Current(h) = j <=> discoTimerJidDict[j] = h
    <2>1. resource[j].hash \in Keys
      BY DEF IInv, TypeOK
    <2>2. About(j, h, resource[j].hash)
      BY <2>1 DEF IInv, Fits, Kept
    <2>3. h \notin stored
      BY <1>2 DEF IInv, StoredClosed
    <2> QED BY <1>2, <2>2, <2>3 DEF About
  <1> QED BY <1>1, <1>2 DEF OneIsAsked

\* One jid of a list is asked at a time, and timed, and the index of the list is its own.
THEOREM OneIsAskedCorrect == Spec => []OneIsAsked
  <1>1. IInv => OneIsAsked
    BY InvOneIsAsked
  <1> QED BY <1>1, Invariance, PTL

LEMMA InvRequests == ASSUME IInv PROVE RequestsAreReal
  <1> SUFFICES ASSUME NEW j \in Jids \ moved
               PROVE  /\ j \in discoRequestJidSet =>
                          \/ discoTimerJidDict[j] = "jid" /\ resource[j].hash = "none"
                          \/ /\ resource[j].hash \in Hashes
                             /\ j \in ToSet(Waiting(resource[j].hash))
                      /\ \A h \in Hashes : j \in ToSet(Waiting(h)) =>
                             j \in discoRequestJidSet /\ resource[j].hash = h
    BY DEF RequestsAreReal
  <1>1. resource[j].hash \in Keys
    BY DEF IInv, TypeOK
  <1>2. Kept(j, resource[j].hash)
    BY <1>1 DEF IInv, Fits
  <1>3. \A h \in Hashes : j \in ToSet(Waiting(h)) <=> Contains(Waiting(h), j)
    BY BaseOfInv, WaitingType, MembersOfSet DEF Base, RequestsKept
  <1> QED BY <1>1, <1>2, <1>3 DEF Kept, Requested, About

\* Who is said to have a request has one, and who is in a list is said to.
THEOREM RequestsCorrect == Spec => []RequestsAreReal
  <1>1. IInv => RequestsAreReal
    BY InvRequests
  <1> QED BY <1>1, Invariance, PTL

\* Whoever is waiting when its capabilities become known is told of.
LEMMA TellsWhoWaits ==
    ASSUME IInv, Next, NEW k \in discoRequestJidSet \ moved,
           resource'[k].caps # resource[k].caps, resource'[k].caps # "none"
    PROVE  k \in informed'
  <1>1. /\ k \in Jids /\ resource \in [Jids -> Resources]
        /\ discoRequestJidSet \subseteq Jids
    BY BaseOfInv DEF Base, StorageTypes, RequestsKept, RequestTypes
  <1>2. ASSUME NEW j \in Jids, NEW e, resource' = [resource EXCEPT ![j] = e]
        PROVE  k = j /\ resource'[k] = e
    BY <1>1, <1>2
  <1>3. ASSUME NEW j \in Jids, NEW fetches \in BOOLEAN, NEW h \in Announced[j],
               HandlePresenceCapabilities(j, h, fetches)
        PROVE  k \in informed'
    <2> DEFINE e == [resource[j] EXCEPT !.there = TRUE, !.hash = h, !.caps = CapsAfter(j, h)]
    <2>1. resource' = [resource EXCEPT ![j] = e]
      BY <1>3 DEF HandlePresenceCapabilities
    <2>2. k = j /\ resource'[k] = e
      <3> HIDE DEF e
      <3> QED BY <2>1, <1>2
    <2>3. e.caps = CapsAfter(j, h)
      BY <1>1 DEF Resources
    <2>4. resource[j].hash # h
      BY <2>2, <2>3 DEF CapsAfter
    <2>5. CapsAfter(j, h) # "none"
      BY <2>2, <2>3
    <2> QED BY <1>3, <2>2, <2>4, <2>5 DEF HandlePresenceCapabilities
  <1>4. ASSUME NEW j \in Jids, NEW fetches \in BOOLEAN,
               HandleLegacyPresenceCapabilities(j, fetches)
        PROVE  FALSE
    <2> DEFINE e == [resource[j] EXCEPT !.there = TRUE, !.hash = "none", !.caps = "none"]
    <2>1. resource' = [resource EXCEPT ![j] = e]
      BY <1>4 DEF HandleLegacyPresenceCapabilities
    <2>2. e.caps = "none"
      BY <1>1 DEF Resources
    <2> HIDE DEF e
    <2> QED BY <2>1, <2>2, <1>2
  <1>5. ASSUME NEW j \in Jids, FetchCapabilitiesForJID(j) PROVE FALSE
    BY <1>5 DEF FetchCapabilitiesForJID, storageVars
  <1>6. ASSUME WillSendUnavailable \/ \E j \in Jids : ReceiveUnavailable(j) PROVE FALSE
    <2>1. resource'[k] = resource[k] \/ resource'[k] = Absent
      <3>1. CASE WillSendUnavailable
        BY <3>1, <1>1 DEF WillSendUnavailable
      <3>2. CASE \E j \in Jids : ReceiveUnavailable(j)
        BY <3>2, <1>1, <1>2 DEF ReceiveUnavailable
      <3> QED BY <1>6, <3>1, <3>2
    <2> QED BY <2>1 DEF Absent
  <1>7. ASSUME NEW res \in [Jids -> Resources],
               resource' = res \/ \E jids : resource' = Failing(res, jids)
        PROVE  resource'[k].caps = res[k].caps
    BY <1>1, <1>7, FailingFacts
  <1>8. ASSUME NEW j \in Jids, NEW matches \in BOOLEAN, HandleDiscoResponse(j, matches)
        PROVE  k \in informed'
    <2> DEFINE h == resource[j].hash
    <2>1. CASE h \in Hashes /\ Matches(j, h)
      <3>1. resource[k].hash = h
        <4>1. resource'[k] = IF resource[k].hash = h THEN [resource[k] EXCEPT !.caps = h]
                             ELSE resource[k]
          BY <2>1, <1>1 DEF Matches
        <4> QED BY <4>1
      <3>2. k \in ToSet(Waiting(h))
        <4>1. \/ discoTimerJidDict[k] = "jid" /\ resource[k].hash = "none"
              \/ k \in ToSet(Waiting(resource[k].hash))
          BY <1>1, InvRequests DEF RequestsAreReal
        <4> QED BY <2>1, <3>1, <4>1, NamesAssumption
      <3>3. resource'[k].caps = h
        <4>1. resource'[k] = [resource[k] EXCEPT !.caps = h] /\ resource[k] \in Resources
          BY <2>1, <3>1, <1>1 DEF Matches
        <4> QED BY <4>1 DEF Resources
      <3> QED BY <2>1, <3>2, <3>3, <1>1 DEF Matches, Notified
    <2>2. CASE h \in Hashes /\ Mismatches(j, h)
      <3> DEFINE e == [resource[j] EXCEPT !.hash = "none", !.caps = "own"]
                 r == [resource EXCEPT ![j] = e]
      <3>1. MaybeQueryNext(h, TRUE, r, discoTimerJidDict) /\ informed' = informed \cup {j}
        BY <2>2 DEF Mismatches
      <3>2. e \in Resources
        BY <1>1 DEF Resources, Keys
      <3> HIDE DEF e
      <3>3. r \in [Jids -> Resources] /\ (k # j => r[k] = resource[k])
        BY <1>1, <3>2
      <3> HIDE DEF r, h
      <3>4. resource' = r \/ \E jids : resource' = Failing(r, jids)
        BY <3>1, QueryCases
      <3>5. k = j
        BY <3>3, <3>4, <1>7
      <3> QED BY <3>1, <3>5
    <2>3. CASE h = "none" /\ AnswersAlone(j)
      <3>1. k = j
        BY <2>3, <1>2 DEF AnswersAlone
      <3> QED BY <2>3, <3>1 DEF AnswersAlone
    <2> QED BY <1>8, <2>1, <2>2, <2>3 DEF HandleDiscoResponse
  <1>9. ASSUME NEW j \in Jids, FailsAlone(j) PROVE FALSE
    <2>1. resource' = Failing(resource, {j})
      BY <1>9 DEF FailsAlone
    <2> QED BY <2>1, <1>1, <1>7
  <1>10. ASSUME NEW h \in Hashes, NEW timers, MaybeQueryNext(h, FALSE, resource, timers)
         PROVE  FALSE
    <2>1. resource' = resource \/ \E jids : resource' = Failing(resource, jids)
      BY <1>10, QueryCases
    <2> QED BY <2>1, <1>1, <1>7
  <1>11. ASSUME NEW j \in Jids, HandleDiscoErrorResponse(j) PROVE FALSE
    BY <1>9, <1>10, <1>11 DEF HandleDiscoErrorResponse
  <1>12. ASSUME NEW j \in Jids, Timeout(j) PROVE FALSE
    BY <1>9, <1>10, <1>12 DEF Timeout
  <1> QED BY <1>3, <1>4, <1>5, <1>6, <1>8, <1>11, <1>12 DEF Next, Step

\* When the capabilities of a jid for which there is a request become known, the delegates are
\* told.
THEOREM WhoWaitsIsToldCorrect == Spec => WhoWaitsIsTold
  <1>1. ASSUME IInv, [Next]_vars
        PROVE  [\A j \in discoRequestJidSet \ moved :
                    resource'[j].caps # resource[j].caps /\ resource'[j].caps # "none"
                        => j \in informed']_vars
    BY <1>1, TellsWhoWaits
  <1> QED BY <1>1, Invariance, PTL DEF Spec, WhoWaitsIsTold

=============================================================================
