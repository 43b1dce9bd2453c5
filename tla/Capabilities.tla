---------------------------- MODULE Capabilities ----------------------------
(* XMPPCapabilities (Extensions/XEP-0115) finding out what others can do, with *)
(* the part of XMPPCapabilitiesCoreDataStorage that it relies on.              *)
(*                                                                             *)
(* A contact announces a hash of its capabilities, or none, with its presence. *)
(* One of those that announce a hash nobody knows is asked; if it is silent,   *)
(* fails, or answers something that has another hash, the next one is.  All of *)
(* it runs on the module queue, and the storage keeps the order of its calls,  *)
(* so that a handler is one step.  What interleaves are presences, timers and  *)
(* answers: these are matched with the jid they come from and not with the     *)
(* query, so that one that is late, or meant for another module, is handled    *)
(* like any other, and answers may come at any time and from anybody.          *)
(* A disconnection reaches the module only through the presence that goes out  *)
(* before it: requests and timers outlive the connection.                      *)
EXTENDS Naturals, Sequences, FiniteSets, SequencesExt

CONSTANTS
    Jids,
    Hashes,    \* of capabilities, with their algorithm: the keys of discoRequestHashDict
    Announced, \* the hashes that a jid may announce
    Leaving,   \* who may become unavailable, "me" among them
    MaxList    \* bound: the length of a list to which a jid is added

ASSUME NamesAssumption ==
    /\ {"none", "own", "jid"} \cap Hashes = {}
    /\ Leaving \subseteq Jids \cup {"me"}
    /\ Announced \in [Jids -> SUBSET Hashes]

ASSUME BoundAssumption == MaxList \in Nat \ {0}

VARIABLES
    \* the storage
    resource,              \* what it holds of a jid
    stored,                \* the hashes whose capabilities it holds
    \* the module
    discoRequestJidSet,
    discoRequestHashDict,  \* [index, jids] of a hash, no jids standing for no entry
    discoTimerJidDict,     \* what the timer of a jid that can still fire is for
    \* history, for the properties
    informed,              \* whose capabilities, as stored, the delegates were told last
    moved                  \* whose hash changed under a request, while one concerns them

storageVars == <<resource, stored>>
requestVars == <<discoRequestJidSet, discoRequestHashDict, discoTimerJidDict>>
vars == <<storageVars, requestVars, informed, moved>>

Keys   == Hashes \cup {"none"}
Absent == [there |-> FALSE, hash |-> "none", caps |-> "none", failed |-> FALSE]
NoList == [index |-> 1, jids |-> <<>>]

TypeOK ==
    /\ resource \in [Jids -> [there : BOOLEAN, hash : Keys, caps : Keys \cup {"own"},
                              failed : BOOLEAN]]
    /\ stored \subseteq Hashes
    /\ discoRequestJidSet \subseteq Jids
    /\ discoRequestHashDict \in [Hashes -> [index : Nat, jids : Seq(Jids)]]
    /\ discoTimerJidDict \in [Jids -> Keys \cup {"jid"}]
    /\ informed \subseteq Jids
    /\ moved \subseteq Jids

Waiting(h)   == discoRequestHashDict[h].jids
Open(h)      == Waiting(h) # <<>>
Current(h)   == Waiting(h)[discoRequestHashDict[h].index]
Listed       == UNION {ToSet(Waiting(h)) : h \in Hashes}
Concerned    == discoRequestJidSet \cup Listed \cup {j \in Jids : discoTimerJidDict[j] # "none"}

Init ==
    /\ resource = [j \in Jids |-> Absent]
    /\ stored = {}
    /\ discoRequestJidSet = {}
    /\ discoRequestHashDict = [h \in Hashes |-> NoList]
    /\ discoTimerJidDict = [j \in Jids |-> "none"]
    /\ informed = {}
    /\ moved = {}

----------------------------------------------------------------------------
(* The pieces of the handlers.                                                 *)

\* A query is sent and its timer started, in place of the one the jid had.
Asks(j, for, timers) == discoTimerJidDict' = [timers EXCEPT ![j] = for]

\* A jid joins the list of a hash that is being asked for, or opens it.
Joins(j, h) ==
    /\ Len(Waiting(h)) < MaxList
    /\ discoRequestJidSet' = discoRequestJidSet \cup {j}
    /\ discoRequestHashDict' =
           [discoRequestHashDict EXCEPT ![h].jids = Append(@, j)]
    /\ IF Open(h)
       THEN UNCHANGED discoTimerJidDict
       ELSE Asks(j, h, discoTimerJidDict)

\* A query about the jid alone.
AsksAlone(j) ==
    /\ discoRequestJidSet' = discoRequestJidSet \cup {j}
    /\ Asks(j, "jid", discoTimerJidDict)
    /\ UNCHANGED discoRequestHashDict

\* Linked to what is known of the hash it announces, if that is another one.
CapsAfter(j, h) ==
    IF resource[j].hash = h THEN resource[j].caps
    ELSE IF h \in stored THEN h ELSE "none"

Failing(res, jids) ==
    [j \in Jids |-> IF j \in jids /\ res[j].there THEN [res[j] EXCEPT !.failed = TRUE]
                    ELSE res[j]]

----------------------------------------------------------------------------
(* The end of a query about a hash: the next in the list is asked, or nobody.  *)

\* The next one is asked without a timer.
QueryNext_Untimed(h, next, rest, res, timers) ==
    /\ next <= Len(rest)
    /\ discoRequestHashDict' =
           [discoRequestHashDict EXCEPT ![h] = [index |-> next, jids |-> rest]]
    /\ discoTimerJidDict' = timers
    /\ resource' = res

QueryNext(h, next, rest, res, timers) ==
    /\ next <= Len(rest)
    /\ discoRequestHashDict' =
           [discoRequestHashDict EXCEPT ![h] = [index |-> next, jids |-> rest]]
    /\ Asks(rest[next], h, timers)
    /\ resource' = res

GiveUp(h, next, rest, res, timers) ==
    /\ next > Len(rest)
    /\ discoRequestHashDict' = [discoRequestHashDict EXCEPT ![h] = NoList]
    /\ discoTimerJidDict' = timers
    /\ resource' = Failing(res, ToSet(rest))

\* Without a mismatch the index moves on; with one the jid at the index, which need not be
\* the one that answered, is taken out of the list.
MaybeQueryNext(h, mismatch, res, timers) ==
    LET index  == discoRequestHashDict[h].index
        next   == IF mismatch THEN index ELSE index + 1
        rest   == IF mismatch THEN RemoveAt(Waiting(h), index) ELSE Waiting(h)
        out    == IF mismatch THEN {Current(h)} ELSE {}
        ceased == [timers EXCEPT ![Current(h)] = "none"]
    IN  \/ /\ ~Open(h)
           /\ resource' = res
           /\ discoTimerJidDict' = timers
           /\ UNCHANGED <<discoRequestJidSet, discoRequestHashDict>>
        \/ /\ Open(h)
           /\ QueryNext(h, next, rest, res, ceased)
           /\ discoRequestJidSet' = discoRequestJidSet \ out
        \/ /\ Open(h)
           /\ GiveUp(h, next, rest, res, ceased)
           /\ discoRequestJidSet' = discoRequestJidSet \ (out \cup ToSet(rest))

----------------------------------------------------------------------------
(* Presences and requests of the application.                                  *)

\* An available presence with a hash.  "fetches" is autoFetchHashedCapabilities, which may be
\* set at any time.
HandlePresenceCapabilities(j, h, fetches) ==
    LET caps == CapsAfter(j, h) IN
    /\ resource' = [resource EXCEPT ![j] = [@ EXCEPT !.there = TRUE, !.hash = h, !.caps = caps]]
    /\ informed' = IF resource[j].hash = h THEN informed
                   ELSE IF caps = "none" THEN informed \ {j} ELSE informed \cup {j}
    /\ UNCHANGED stored
    /\ \/ caps # "none" /\ UNCHANGED requestVars
       \/ caps = "none" /\ ~fetches /\ UNCHANGED requestVars
       \/ caps = "none" /\ fetches /\ Open(h) /\ j \in discoRequestJidSet /\ UNCHANGED requestVars
       \/ caps = "none" /\ fetches /\ ~(Open(h) /\ j \in discoRequestJidSet) /\ Joins(j, h)

\* One in the legacy format: the storage compares the hash it is given, nil, with what it holds
\* and finds that it changed, so that what was known is forgotten.
HandleLegacyPresenceCapabilities(j, fetches) ==
    /\ resource' = [resource EXCEPT ![j] = [@ EXCEPT !.there = TRUE, !.hash = "none", !.caps = "none"]]
    /\ informed' = informed \ {j}
    /\ UNCHANGED stored
    /\ IF fetches /\ j \notin discoRequestJidSet THEN AsksAlone(j) ELSE UNCHANGED requestVars

\* The application asks, or a presence without capabilities or the authentication does.
FetchCapabilitiesForJID(j) ==
    /\ j \notin discoRequestJidSet
    /\ resource[j].caps = "none" /\ ~resource[j].failed
    /\ IF resource[j].hash \in Hashes THEN Joins(j, resource[j].hash) ELSE AsksAlone(j)
    /\ UNCHANGED <<storageVars, informed>>

\* A contact becomes unavailable: the storage forgets it, the module does not.
ReceiveUnavailable(j) ==
    /\ j \in Leaving
    /\ resource' = [resource EXCEPT ![j] = Absent]
    /\ informed' = informed \ {j}
    /\ UNCHANGED <<stored, requestVars>>

\* We do: the storage forgets everybody.
WillSendUnavailable ==
    /\ "me" \in Leaving
    /\ resource' = [j \in Jids |-> Absent]
    /\ informed' = {}
    /\ UNCHANGED <<stored, requestVars>>

----------------------------------------------------------------------------
(* Answers.                                                                    *)

\* Of whom the delegates are told.  Not only of the one that answered.
Notified_AnsweringOnly(j, h) == {j}
Notified(j, h) == ToSet(Waiting(h))

\* With the hash that was announced: it holds for all who announced it, and the delegates are
\* told of those in the list.  The timer of the jid that answered is cancelled.
Matches(j, h) ==
    /\ stored' = stored \cup {h}
    /\ resource' = [k \in Jids |-> IF resource[k].hash = h THEN [resource[k] EXCEPT !.caps = h]
                                   ELSE resource[k]]
    /\ discoRequestJidSet' = discoRequestJidSet \ ToSet(Waiting(h))
    /\ discoRequestHashDict' = [discoRequestHashDict EXCEPT ![h] = NoList]
    /\ discoTimerJidDict' = [discoTimerJidDict EXCEPT ![j] = "none"]
    /\ informed' =
           {k \in Jids : IF k \in Notified(j, h) THEN resource'[k].caps = h
                         ELSE k \in informed /\ resource'[k].caps = resource[k].caps}

\* With another hash: the answer is taken for the jid alone.
Mismatches(j, h) ==
    /\ MaybeQueryNext(h, TRUE, [resource EXCEPT ![j] = [@ EXCEPT !.hash = "none", !.caps = "own"]],
                      discoTimerJidDict)
    /\ informed' = informed \cup {j}
    /\ UNCHANGED stored

\* From a jid that announces none.
AnswersAlone(j) ==
    /\ resource' = [resource EXCEPT ![j] = [@ EXCEPT !.there = TRUE, !.caps = "own"]]
    /\ discoRequestJidSet' = discoRequestJidSet \ {j}
    /\ discoTimerJidDict' = [discoTimerJidDict EXCEPT ![j] = "none"]
    /\ informed' = informed \cup {j}
    /\ UNCHANGED <<stored, discoRequestHashDict>>

HandleDiscoResponse(j, matches) ==
    LET h == resource[j].hash IN
    /\ \/ h \in Hashes /\ matches /\ Matches(j, h)
       \/ h \in Hashes /\ ~matches /\ Mismatches(j, h)
       \/ h = "none" /\ AnswersAlone(j)

\* No answer about the jid alone, by an error or a timeout: noted, and no longer requested.
FailsAlone(j) ==
    /\ resource' = Failing(resource, {j})
    /\ discoRequestJidSet' = discoRequestJidSet \ {j}
    /\ discoTimerJidDict' = [discoTimerJidDict EXCEPT ![j] = "none"]
    /\ UNCHANGED discoRequestHashDict

HandleDiscoErrorResponse(j) ==
    LET h == resource[j].hash IN
    /\ \/ h \in Hashes /\ MaybeQueryNext(h, FALSE, resource, discoTimerJidDict)
       \/ h = "none" /\ FailsAlone(j)
    /\ UNCHANGED <<stored, informed>>

\* A timer of a hash ends the wait and asks nobody else.
Timeout_AsksNobody(j) ==
    LET for == discoTimerJidDict[j] IN
    /\ \/ /\ for \in Hashes
          /\ discoTimerJidDict' = [discoTimerJidDict EXCEPT ![j] = "none"]
          /\ UNCHANGED <<resource, discoRequestJidSet, discoRequestHashDict>>
       \/ for = "jid" /\ FailsAlone(j)
    /\ UNCHANGED <<stored, informed>>

\* A timer fires once and knows for what it was started.
Timeout(j) ==
    LET for == discoTimerJidDict[j] IN
    /\ \/ /\ for \in Hashes
          /\ MaybeQueryNext(for, FALSE, resource, [discoTimerJidDict EXCEPT ![j] = "none"])
       \/ for = "jid" /\ FailsAlone(j)
    /\ UNCHANGED <<stored, informed>>

----------------------------------------------------------------------------
Step ==
    \/ \E j \in Jids, fetches \in BOOLEAN :
           \/ \E h \in Announced[j] : HandlePresenceCapabilities(j, h, fetches)
           \/ HandleLegacyPresenceCapabilities(j, fetches)
    \/ \E j \in Jids : FetchCapabilitiesForJID(j)
    \/ \E j \in Jids : ReceiveUnavailable(j)
    \/ WillSendUnavailable
    \/ \E j \in Jids, matches \in BOOLEAN : HandleDiscoResponse(j, matches)
    \/ \E j \in Jids : HandleDiscoErrorResponse(j)
    \/ \E j \in Jids : Timeout(j)

\* The history of changes, whatever the step.
Remembers ==
    moved' = {j \in Concerned' :
                  j \in moved \/ (j \in Concerned /\ resource'[j].hash # resource[j].hash)}

Next == Step /\ Remembers

Spec == Init /\ [][Next]_vars

\* Timers fire.  Presences and answers may never come.
LiveSpec == Spec /\ \A j \in Jids : WF_vars(Timeout(j) /\ Remembers)

----------------------------------------------------------------------------
(* Properties.                                                                 *)

\* A jid is linked to the capabilities of the hash it announces as soon as they are stored, and
\* has capabilities of its own only if it announces none (or gave up the one it did not answer).
LinkedByHash ==
    \A j \in Jids :
        /\ resource[j].caps \in Hashes => resource[j].caps = resource[j].hash
        /\ resource[j].caps = "own" => resource[j].hash = "none"
        /\ resource[j].hash \in stored => resource[j].caps = resource[j].hash

\* The index kept in a list is that of one of its jids, whatever was removed from it, and
\* objectAtIndex: does not raise.
IndexInRange(h) == Open(h) => discoRequestHashDict[h].index \in DOMAIN Waiting(h)

\* A list waits for one of its jids at a time, and that one is being timed, so that the next
\* will be asked; unless it has changed its hash, or left, meanwhile.
OneIsAsked ==
    \A h \in Hashes :
        /\ IndexInRange(h)
        /\ \A j \in Jids \ moved : Open(h) => (Current(h) = j <=> discoTimerJidDict[j] = h)

\* Who is said to have a request is in the list of the hash it announces, or has a query of its
\* own whose time runs; who is in a list is said to have a request.
RequestsAreReal ==
    \A j \in Jids \ moved :
        /\ j \in discoRequestJidSet =>
               \/ discoTimerJidDict[j] = "jid" /\ resource[j].hash = "none"
               \/ resource[j].hash \in Hashes /\ j \in ToSet(Waiting(resource[j].hash))
        /\ \A h \in Hashes : j \in ToSet(Waiting(h)) =>
               j \in discoRequestJidSet /\ resource[j].hash = h

\* When the capabilities of a jid for which there is a request become known, the delegates are
\* told, whoever gave the answer: "When the capabilities are received, the
\* xmppCapabilities:didDiscoverCapabilities:forJID: delegate method is invoked."
WhoWaitsIsTold ==
    [][\A j \in discoRequestJidSet \ moved :
           resource'[j].caps # resource[j].caps /\ resource'[j].caps # "none" => j \in informed']_vars

\* The same of every jid whose capabilities are known.  It does not hold: what an
\* answer says of jids that are in no list, the one that answers included if it is late, is
\* stored without telling anybody.
AllAreTold == \A j \in Jids \ moved : resource[j].caps # "none" => j \in informed

\* Nobody is waited for indefinitely: "if that jid doesn't respond within a sensible time period,
\* we should move on to the next jid in the list"; unless it has changed its hash, or left.  A
\* list as a whole need not end, if contacts keep joining it whose answers do not match.
NobodyIsAwaitedForever ==
    \A h \in Hashes, j \in Jids :
        Open(h) /\ Current(h) = j /\ j \notin moved
            ~> ~Open(h) \/ Current(h) # j \/ j \in moved

\* The jid whose answer has not the hash it announced is taken out of the lists: "We need to
\* remove the naughty jid from the lists."
NaughtyIsRemoved ==
    [][\A j \in Jids \ moved :
           resource[j].hash \in Hashes /\ resource'[j].hash = "none" /\ resource'[j].caps = "own"
               => j \notin Listed']_vars
=============================================================================
