----------------------- MODULE ScheduledEventsProofs -----------------------
(***************************************************************************)
(* Proofs about ScheduledEvents, for any events, period and budgets: the   *)
(* types, and that no event speaks more often than it was asked to.        *)
(***************************************************************************)
EXTENDS ScheduledEvents, TLAPS

EventsType(f) == DOMAIN f \subseteq Ids /\ \A e \in DOMAIN f : f[e] \in Objects

TInv ==
    /\ now \in Nat
    /\ EventsType(server) /\ EventsType(index)
    /\ DOMAIN index \subseteq DOMAIN server
    /\ up \in BOOLEAN /\ served \in BOOLEAN
    /\ lock \in {"free", "turn", "watcher"}
    /\ watcher \in {"asleep", "work", "mark", "speak"}
    /\ arm \subseteq DOMAIN index /\ fire \subseteq DOMAIN index
    /\ arm \intersect fire = {} /\ arm \subseteq Recurring
    /\ lock = "watcher" => watcher \in {"mark", "speak"}
    /\ current \in Ids
    /\ watcher \in {"mark", "speak"} => current \in DOMAIN index /\ current \notin fire
    /\ left \in [Events -> Nat]
    /\ fired \in [Ids -> Nat] /\ settings \in [Ids -> Nat]
    /\ armed \in [Ids -> Nat \union {Never}]

LEMMA SpendType ==
    ASSUME left \in [Events -> Nat], NEW k \in Events, Spend(k) PROVE left' \in [Events -> Nat]
BY DEF Spend, Events

LEMMA WithType ==
    ASSUME NEW f, EventsType(f), NEW e \in Ids, NEW obj \in Objects
    PROVE  /\ EventsType(With(f, e, obj)) /\ DOMAIN With(f, e, obj) = DOMAIN f \union {e}
           /\ With(f, e, obj)[e] = obj
           /\ \A d \in DOMAIN f \ {e} : With(f, e, obj)[d] = f[d]
BY DEF EventsType, With

LEMMA WriteType ==
    ASSUME TInv, NEW e \in DOMAIN index, NEW obj \in Objects, Write(e, obj)
    PROVE  /\ EventsType(server') /\ EventsType(index')
           /\ DOMAIN server' = DOMAIN server /\ DOMAIN index' = DOMAIN index
           /\ server'[e] = obj /\ index'[e] = obj
           /\ \A d \in DOMAIN server \ {e} : server'[d] = server[d]
           /\ \A d \in DOMAIN index \ {e} : index'[d] = index[d]
BY DEF TInv, EventsType, Write

LEMMA MarkedType ==
    ASSUME TInv, NEW e \in DOMAIN index
    PROVE  /\ Marked(e) \in Objects /\ Marked(e).at = index[e].at
           /\ Marked(e).last = now /\ e \in Ids
BY DEF TInv, EventsType, Marked, Objects, Statuses

LEMMA CancelledType ==
    ASSUME TInv, NEW e \in DOMAIN index
    PROVE  LET obj == [index[e] EXCEPT !.status = "Cancelled"] IN
           /\ obj \in Objects /\ obj.at = index[e].at /\ obj.last = index[e].last /\ e \in Ids
BY DEF TInv, EventsType, Objects, Statuses

LEMMA TypeInit == Init => TInv
<1> SUFFICES ASSUME Init PROVE TInv
  OBVIOUS
<1>1. EventsType(Nothing) /\ DOMAIN Nothing = {}
  BY DEF EventsType, Nothing
<1> QED
  BY <1>1, ConstantsAssumption DEF Init, TInv, Never

LEMMA PeopleType ==
    ASSUME TInv, HumanCreates \/ HumanReschedules \/ HumanFlips
    PROVE  TInv'
<1>1. left' \in [Events -> Nat]
  BY SpendType DEF TInv, HumanCreates, HumanReschedules, HumanFlips, Events
<1>2. UNCHANGED <<now, index, up, served, lock, watchVars, fired, armed>>
  BY DEF HumanCreates, HumanReschedules, HumanFlips
<1>3. CASE HumanCreates
  <2>1. PICK e \in Ids \ DOMAIN server, at \in 1..MaxTime :
            /\ server' = With(server, e, [at |-> at, status |-> "Unset", last |-> Never])
            /\ settings' = [settings EXCEPT ![e] = 1]
    BY <1>3 DEF HumanCreates
  <2> DEFINE obj == [at |-> at, status |-> "Unset", last |-> Never]
  <2>2. obj \in Objects /\ server' = With(server, e, obj)
    BY <2>1, ConstantsAssumption DEF Objects, Statuses
  <2> HIDE DEF obj
  <2>3. EventsType(server') /\ DOMAIN index' \subseteq DOMAIN server'
    <3>1. /\ EventsType(With(server, e, obj))
          /\ DOMAIN With(server, e, obj) = DOMAIN server \union {e}
      BY <2>2, WithType DEF TInv
    <3> QED
      BY <1>2, <2>2, <3>1 DEF TInv
  <2> QED
    BY <1>1, <1>2, <2>1, <2>3 DEF TInv, watchVars
<1>4. CASE HumanReschedules
  <2>1. PICK e \in DOMAIN server, at \in 0..MaxTime :
            /\ server' = [server EXCEPT ![e].at = at]
            /\ settings' = [settings EXCEPT ![e] = @ + 1]
    BY <1>4 DEF HumanReschedules
  <2>2. EventsType(server') /\ DOMAIN server' = DOMAIN server
    BY <2>1, ConstantsAssumption DEF TInv, EventsType, Objects
  <2>3. e \in Ids /\ settings' \in [Ids -> Nat]
    BY <2>1 DEF TInv, EventsType
  <2> QED
    BY <1>1, <1>2, <2>2, <2>3 DEF TInv, watchVars
<1>5. CASE HumanFlips
  <2>1. PICK e \in DOMAIN server, s \in {"Pending", "Cancelled"} :
            server' = [server EXCEPT ![e].status = s]
    BY <1>5 DEF HumanFlips
  <2>2. EventsType(server') /\ DOMAIN server' = DOMAIN server
    BY <2>1 DEF TInv, EventsType, Objects, Statuses
  <2>3. settings' = settings
    BY <1>5 DEF HumanFlips
  <2> QED
    BY <1>1, <1>2, <2>2, <2>3 DEF TInv, watchVars
<1> QED
  BY <1>3, <1>4, <1>5

LEMMA BirthType ==
    ASSUME TInv, NEW e, NEW at \in 1..MaxTime
    PROVE  /\ Birth(e, at) \in Objects /\ Birth(e, at).at = at
           /\ Birth(e, at).last = IF e \in Recurring THEN now ELSE Never
BY ConstantsAssumption DEF TInv, Birth, Objects, Statuses

LEMMA ToolType == ASSUME TInv, ToolSets \/ ToolCancels PROVE TInv'
<1>1. CASE ToolSets
  <2>1. PICK e \in Ids \ DOMAIN server, at \in 1..MaxTime :
            /\ server' = With(server, e, Birth(e, at))
            /\ index' = With(index, e, Birth(e, at))
            /\ settings' = [settings EXCEPT ![e] = 1]
            /\ armed' = (IF e \in Recurring THEN [armed EXCEPT ![e] = now] ELSE armed)
    BY <1>1 DEF ToolSets
  <2>2. /\ EventsType(server') /\ EventsType(index') /\ DOMAIN index \subseteq DOMAIN index'
        /\ DOMAIN index' \subseteq DOMAIN server'
    <3>1. Birth(e, at) \in Objects
      BY BirthType
    <3>2. /\ EventsType(With(server, e, Birth(e, at)))
          /\ DOMAIN With(server, e, Birth(e, at)) = DOMAIN server \union {e}
      BY <3>1, WithType DEF TInv
    <3>3. /\ EventsType(With(index, e, Birth(e, at)))
          /\ DOMAIN With(index, e, Birth(e, at)) = DOMAIN index \union {e}
      BY <3>1, WithType DEF TInv
    <3> QED
      BY <2>1, <3>2, <3>3 DEF TInv
  <2>3. UNCHANGED <<now, up, served, lock, watchVars, left, fired>>
    BY <1>1 DEF ToolSets
  <2> QED
    BY <2>1, <2>2, <2>3 DEF TInv, watchVars
<1>2. CASE ToolCancels
  <2>1. PICK e \in DOMAIN index : Write(e, [index[e] EXCEPT !.status = "Cancelled"])
    BY <1>2 DEF ToolCancels
  <2>2. /\ EventsType(server') /\ EventsType(index') /\ DOMAIN index' = DOMAIN index
        /\ DOMAIN server' = DOMAIN server
    BY <2>1, CancelledType, WriteType
  <2>3. UNCHANGED <<now, settings, up, served, lock, watchVars, left, fired, armed>>
    BY <1>2 DEF ToolCancels
  <2> QED
    BY <2>2, <2>3 DEF TInv, watchVars
<1> QED
  BY <1>1, <1>2

LEMMA ProcessType ==
    ASSUME TInv, Minute \/ Crash \/ Start \/ Discover \/ Resync \/ TurnStarts \/ TurnEnds
    PROVE  TInv'
<1>1. CASE Minute
  BY <1>1 DEF Minute, watchVars, TInv
<1>2. CASE Crash
  <2>1. EventsType(index') /\ DOMAIN index' = {}
    BY <1>2 DEF Crash, Nothing, EventsType
  <2>2. left' \in [Events -> Nat]
    BY <1>2, SpendType DEF Crash, TInv, Events
  <2> QED
    BY <1>2, <2>1, <2>2 DEF Crash, worldVars, TInv
<1>3. CASE Start \/ Resync
  BY <1>3 DEF Start, Resync, worldVars, watchVars, TInv
<1>4. CASE TurnStarts
  BY <1>4, SpendType DEF TurnStarts, worldVars, watchVars, TInv, Events
<1>5. CASE Discover \/ TurnEnds
  BY <1>5 DEF Discover, TurnEnds, worldVars, watchVars, TInv
<1> QED
  BY <1>1, <1>2, <1>3, <1>4, <1>5

LEMMA WatchType == ASSUME TInv, Watch \/ FireMarkFails PROVE TInv'
<1>1. CASE Tick
  <2>1. arm' \intersect fire' = {} /\ arm' \subseteq Recurring
    BY <1>1 DEF Tick, Stray, Due, DueAt
  <2>2. arm' \subseteq DOMAIN index /\ fire' \subseteq DOMAIN index
    BY <1>1 DEF Tick, Stray, Due, Scanned
  <2> QED
    BY <1>1, <2>1, <2>2 DEF Tick, worldVars, TInv
<1>2. CASE ArmOne
  <2>1. PICK e \in arm :
            /\ arm' = arm \ {e}
            /\ \/ /\ Write(e, Marked(e))
                  /\ armed' = (IF armed[e] = Never THEN [armed EXCEPT ![e] = now] ELSE armed)
                  /\ UNCHANGED left
               \/ Spend("net") /\ UNCHANGED <<server, index, armed>>
    BY <1>2 DEF ArmOne
  <2>2. UNCHANGED <<now, settings, up, served, lock, watcher, fire, current, fired>>
        /\ watcher = "work"
    BY <1>2 DEF ArmOne
  <2>3. CASE Write(e, Marked(e))
    <3>1. /\ EventsType(server') /\ EventsType(index') /\ DOMAIN index' = DOMAIN index
          /\ DOMAIN server' = DOMAIN server
      BY <2>1, <2>3, MarkedType, WriteType DEF TInv
    <3>2. armed' \in [Ids -> Nat \union {Never}] /\ left' \in [Events -> Nat]
      BY <2>1, SpendType DEF TInv, Events
    <3> QED
      BY <2>1, <2>2, <3>1, <3>2 DEF TInv
  <2>4. CASE Spend("net") /\ UNCHANGED <<server, index, armed>>
    BY <2>1, <2>2, <2>4, SpendType DEF TInv, Events
  <2> QED
    BY <2>1, <2>3, <2>4
<1>3. CASE Unheard \/ TickDone
  BY <1>3 DEF Unheard, TickDone, worldVars, TInv
<1>4. CASE FireLocks
  BY <1>4 DEF FireLocks, worldVars, TInv, EventsType
<1>5. CASE FireMarks
  <2>1. /\ EventsType(server') /\ EventsType(index') /\ DOMAIN index' = DOMAIN index
        /\ DOMAIN server' = DOMAIN server
    BY <1>5, MarkedType, WriteType DEF FireMarks, TInv
  <2> QED
    BY <1>5, <2>1 DEF FireMarks, TInv
<1>6. CASE FireSpeaks
  BY <1>6 DEF FireSpeaks, worldVars, TInv
<1>7. CASE FireMarkFails
  BY <1>7, SpendType DEF FireMarkFails, worldVars, TInv, Events
<1> QED
  BY <1>1, <1>2, <1>3, <1>4, <1>5, <1>6, <1>7 DEF Watch

LEMMA TypeStep == TInv /\ [Next]_vars => TInv'
<1> SUFFICES ASSUME TInv, [Next]_vars PROVE TInv'
  OBVIOUS
<1>1. CASE UNCHANGED vars
  BY <1>1 DEF vars, TInv
<1> QED
  BY <1>1, PeopleType, ToolType, ProcessType, WatchType DEF Next, Environment

\* Every event is well formed on the server and in the index, which holds no event
\* the server lacks; only the watcher that marks or speaks holds its turn lock.
THEOREM TypeCorrect == Spec => []TypeOK
<1>1. TInv => TypeOK
  BY DEF TInv, TypeOK, EventsType
<1> QED
  BY <1>1, TypeInit, TypeStep, PTL DEF Spec

(***************************************************************************)
(* How often an event may still speak.                                     *)
(***************************************************************************)
\* The bot's copy has the stamp of the server, which nobody else writes.
Stamps ==
    /\ \A e \in DOMAIN server : server[e].last <= now
    /\ \A e \in DOMAIN index : index[e].last = server[e].last

\* The event is picked for firing, and not marked yet.
Waiting(e) == e \in fire \/ (watcher = "mark" /\ current = e)

\* It is marked, and about to speak.
Speaking(e) == IF watcher = "speak" /\ current = e THEN 1 ELSE 0

\* The times after t that the server and the copy give a one-shot: two while a
\* person has moved it and the copy does not know yet.
InCopy(e, t) == e \in DOMAIN index /\ index[e].at > t
OnServer(e, t) ==
    server[e].at > t /\ (e \in DOMAIN index => index[e].at # server[e].at)
Later(e, t) == (IF InCopy(e, t) THEN 1 ELSE 0) + (IF OnServer(e, t) THEN 1 ELSE 0)

\* Each time given to a one-shot pays for one firing: those that were, the one
\* under way, and those that may follow.
OneShot(e) ==
    IF e \in DOMAIN server
    THEN /\ fired[e] + Speaking(e) + Later(e, server[e].last) <= settings[e]
         /\ Waiting(e) => fired[e] + 1 + Later(e, now) <= settings[e]
    ELSE fired[e] = 0

\* Each occurrence up to the stamp pays for one firing of a recurring event, and
\* the occurrence it is picked for lies behind the stamp.
Anchored(e) ==
    IF e \in DOMAIN server /\ server[e].last # Never
    THEN /\ armed[e] # Never /\ armed[e] <= server[e].last
         /\ fired[e] + Speaking(e) <= Occurrences(armed[e], server[e].last)
         /\ Waiting(e) => Occurrences(server[e].last, now) >= 1
    ELSE armed[e] = Never /\ fired[e] = 0 /\ ~Waiting(e) /\ Speaking(e) = 0

Paid(e) == IF e \in Recurring THEN Anchored(e) ELSE OneShot(e)

FInv == Stamps /\ \A e \in Ids : Paid(e)

\* Facts of whole division.
LEMMA DivType == ASSUME NEW a \in Nat PROVE a \div Period \in Nat
BY ConstantsAssumption, Z3

LEMMA DivGrows ==
    ASSUME NEW a \in Nat, NEW b \in Nat, a <= b PROVE a \div Period <= b \div Period
BY ConstantsAssumption

LEMMA NextReached ==
    ASSUME NEW a \in Nat, NEW b \in Nat, NextOccurrence(a) <= b
    PROVE  Occurrences(a, b) >= 1
<1>1. a \div Period + 1 <= b \div Period
  BY ConstantsAssumption DEF NextOccurrence
<1> QED
  BY <1>1, DivType DEF Occurrences

LEMMA EventType ==
    ASSUME TInv, NEW e \in Ids
    PROVE  /\ fired[e] \in Nat /\ settings[e] \in Nat /\ armed[e] \in Nat \union {-1}
           /\ now \in Nat /\ Speaking(e) \in {0, 1}
           /\ e \in DOMAIN server => /\ server[e].at \in Nat
                                     /\ server[e].last \in Nat \union {-1}
           /\ e \in DOMAIN index => /\ index[e].at \in Nat /\ e \in DOMAIN server
                                    /\ index[e].last \in Nat \union {-1}
BY DEF TInv, EventsType, Objects, Never, Speaking

LEMMA LaterType ==
    ASSUME NEW e, NEW t
    PROVE  /\ Later(e, t) \in 0..2
           /\ InCopy(e, t) => Later(e, t) >= 1
           /\ e \in DOMAIN server /\ server[e].at > t => Later(e, t) >= 1
BY DEF Later, InCopy, OnServer

\* What a step leaves of an event, but for its times.
Kept(e) ==
    /\ fired'[e] = fired[e] /\ armed'[e] = armed[e]
    /\ e \in DOMAIN server' <=> e \in DOMAIN server
    /\ e \in DOMAIN server => server'[e].last = server[e].last
    /\ Waiting(e)' => Waiting(e)
    /\ Speaking(e)' <= Speaking(e)

LEMMA AnchoredKept ==
    ASSUME TInv, TInv', NEW e \in Recurring, Anchored(e), Kept(e), now <= now'
    PROVE  Anchored(e)'
<1>1. /\ fired[e] \in Nat /\ now \in Nat /\ now' \in Nat
      /\ Speaking(e) \in {0, 1} /\ Speaking(e)' \in {0, 1}
      /\ armed[e] \in Nat \union {-1}
      /\ e \in DOMAIN server => server[e].last \in Nat \union {-1}
  BY EventType, ConstantsAssumption DEF TInv, Speaking
<1>2. CASE e \in DOMAIN server /\ server[e].last # Never
  <2>1. server[e].last \in Nat /\ armed[e] \in Nat
    BY <1>1, <1>2 DEF Anchored, Never
  <2>2. now \div Period <= now' \div Period
    BY <1>1, DivGrows
  <2>3. /\ server[e].last \div Period \in Nat /\ armed[e] \div Period \in Nat
        /\ now \div Period \in Nat /\ now' \div Period \in Nat
    BY <1>1, <2>1, DivType
  <2>4. Occurrences(server[e].last, now) >= 1 => Occurrences(server[e].last, now') >= 1
    BY <2>2, <2>3 DEF Occurrences
  <2>5. Occurrences(armed[e], server[e].last) \in Int
    BY <2>3 DEF Occurrences
  <2>6. /\ armed[e] # Never /\ armed[e] <= server[e].last
        /\ fired[e] + Speaking(e) <= Occurrences(armed[e], server[e].last)
        /\ Waiting(e) => Occurrences(server[e].last, now) >= 1
    BY <1>2 DEF Anchored
  <2>7. fired'[e] + Speaking(e)' <= Occurrences(armed'[e], server'[e].last)
    BY <1>1, <1>2, <2>5, <2>6 DEF Kept
  <2>8. /\ e \in DOMAIN server' /\ server'[e].last # Never
        /\ armed'[e] # Never /\ armed'[e] <= server'[e].last
        /\ Waiting(e)' => Occurrences(server'[e].last, now') >= 1
    BY <1>2, <2>4, <2>6 DEF Kept
  <2> QED
    BY <2>7, <2>8 DEF Anchored
<1>3. CASE ~(e \in DOMAIN server /\ server[e].last # Never)
  BY <1>1, <1>3 DEF Anchored, Kept
<1> QED
  BY <1>2, <1>3

\* A one-shot stays paid for when it can fire no more often than before.
LEMMA OneShotKept ==
    ASSUME TInv, TInv', NEW e \in Ids, OneShot(e), Kept(e), settings'[e] = settings[e],
           e \in DOMAIN server =>
              /\ Later(e, now)' <= Later(e, now)
              /\ Later(e, server[e].last)' <= Later(e, server[e].last)
    PROVE  OneShot(e)'
<1>1. /\ fired[e] \in Nat /\ settings[e] \in Nat /\ now \in Nat
      /\ Speaking(e) \in {0, 1} /\ Speaking(e)' \in {0, 1}
  BY EventType DEF Speaking
<1>2. CASE e \in DOMAIN server
  <2>1. /\ Later(e, now) \in 0..2 /\ Later(e, server[e].last) \in 0..2
        /\ Later(e, now)' \in 0..2 /\ Later(e, server[e].last)' \in 0..2
    BY DEF Later
  <2>2. /\ fired[e] + Speaking(e) + Later(e, server[e].last) <= settings[e]
        /\ Waiting(e) => fired[e] + 1 + Later(e, now) <= settings[e]
    BY <1>2 DEF OneShot
  <2>3. /\ fired'[e] + Speaking(e)' + Later(e, server[e].last)' <= settings'[e]
        /\ Waiting(e)' => fired'[e] + 1 + Later(e, now)' <= settings'[e]
    BY <1>1, <1>2, <2>1, <2>2 DEF Kept
  <2> QED
    BY <1>2, <2>3 DEF OneShot, Kept
<1>3. CASE e \notin DOMAIN server
  BY <1>3 DEF OneShot, Kept
<1> QED
  BY <1>2, <1>3

\* A step that is about other events, or about the status or the lock.
LEMMA QuietPaid ==
    ASSUME TInv, TInv', NEW e \in Ids, Paid(e), Kept(e), settings'[e] = settings[e], now <= now',
           e \in DOMAIN server => server'[e].at = server[e].at,
           e \in DOMAIN index' <=> e \in DOMAIN index,
           e \in DOMAIN index => index'[e].at = index[e].at
    PROVE  Paid(e)'
<1>1. e \in DOMAIN server => /\ Later(e, now)' <= Later(e, now)
                             /\ Later(e, server[e].last)' <= Later(e, server[e].last)
  <2>1. /\ now \in Nat /\ now' \in Nat
        /\ e \in DOMAIN server => server[e].at \in Nat /\ server[e].last \in Nat \union {-1}
        /\ e \in DOMAIN index => index[e].at \in Nat
    BY EventType DEF TInv
  <2> QED
    BY <2>1 DEF Later, InCopy, OnServer, Kept
<1> QED
  BY <1>1, AnchoredKept, OneShotKept DEF Paid

\* A step that copies the object from one side to the other, or forgets the copy.
LEMMA CopiedPaid ==
    ASSUME TInv, TInv', NEW e \in Ids, Paid(e), Kept(e), UNCHANGED <<now, settings>>,
           e \in DOMAIN index' => e \in DOMAIN server /\ index'[e].at = server'[e].at,
           e \in DOMAIN server =>
              \/ server'[e].at = server[e].at
              \/ e \in DOMAIN index /\ server'[e].at = index[e].at
    PROVE  Paid(e)'
<1>1. e \in DOMAIN server => /\ Later(e, now)' <= Later(e, now)
                             /\ Later(e, server[e].last)' <= Later(e, server[e].last)
  <2>1. /\ now \in Nat
        /\ e \in DOMAIN server => server[e].at \in Nat /\ server[e].last \in Nat \union {-1}
        /\ e \in DOMAIN index => index[e].at \in Nat
    BY EventType
  <2> QED
    BY <2>1 DEF Later, InCopy, OnServer, Kept
<1>2. now <= now'
  BY DEF TInv
<1> QED
  BY <1>1, <1>2, AnchoredKept, OneShotKept DEF Paid

\* Steps that touch no event: time, the lock, the tick that ends or moves on.
LEMMA IdlePaid ==
    ASSUME TInv, TInv', FInv,
           UNCHANGED <<server, index, settings, fired, armed>>, now <= now',
           \A e \in Ids : Waiting(e)' => Waiting(e),
           watcher' = "speak" => watcher = "speak" /\ current' = current
    PROVE  FInv'
<1>1. Stamps'
  <2>1. \A e \in DOMAIN server : server[e].last <= now'
    BY DEF FInv, Stamps, TInv, EventsType, Objects, Never
  <2> QED
    BY <2>1 DEF FInv, Stamps
<1>2. ASSUME NEW e \in Ids PROVE Paid(e)'
  <2>1. Kept(e)
    BY DEF Kept, Speaking
  <2> QED
    BY <2>1, QuietPaid DEF FInv, Stamps
<1> QED
  BY <1>1, <1>2 DEF FInv

LEMMA IdleSteps ==
    ASSUME TInv, TInv', FInv,
           \/ Minute \/ Discover \/ TurnStarts \/ TurnEnds \/ Unheard \/ TickDone
           \/ FireLocks \/ FireMarkFails \/ UNCHANGED vars
    PROVE  FInv'
<1>1. UNCHANGED <<server, index, settings, fired, armed>> /\ now <= now'
  BY DEF Minute, Discover, TurnStarts, TurnEnds, Unheard, TickDone, FireLocks,
         FireMarkFails, vars, worldVars, TInv
<1>2. \A e \in Ids : Waiting(e)' => Waiting(e)
  BY DEF Minute, Discover, TurnStarts, TurnEnds, Unheard, TickDone, FireLocks,
         FireMarkFails, vars, watchVars, Waiting
<1>3. watcher' = "speak" => watcher = "speak" /\ current' = current
  BY DEF Minute, Discover, TurnStarts, TurnEnds, Unheard, TickDone, FireLocks,
         FireMarkFails, vars, watchVars
<1> QED
  BY <1>1, <1>2, <1>3, IdlePaid

LEMMA CopySteps == ASSUME TInv, TInv', FInv, Crash \/ Start \/ Resync PROVE FInv'
<1>1. UNCHANGED <<now, server, settings, fired, armed>>
  BY DEF Crash, Start, Resync, worldVars
<1>2. \A e \in DOMAIN index' : e \in DOMAIN server /\ index'[e] = server[e]
  BY DEF Crash, Start, Resync, Nothing
<1>3. ASSUME NEW e \in Ids PROVE Kept(e)
  BY <1>1 DEF Crash, Start, Resync, watchVars, Kept, Waiting, Speaking
<1>4. Stamps'
  BY <1>1, <1>2 DEF FInv, Stamps
<1>5. ASSUME NEW e \in Ids PROVE Paid(e)'
  BY <1>1, <1>2, <1>3, CopiedPaid DEF FInv
<1> QED
  BY <1>4, <1>5 DEF FInv

LEMMA HumanSteps ==
    ASSUME TInv, TInv', FInv, HumanCreates \/ HumanReschedules \/ HumanFlips PROVE FInv'
<1>1. UNCHANGED <<now, index, watcher, fire, current, fired, armed>> /\ now <= now'
  BY DEF HumanCreates, HumanReschedules, HumanFlips, watchVars, TInv
<1>2. ASSUME NEW e \in Ids
      PROVE  /\ Waiting(e)' <=> Waiting(e)
             /\ Speaking(e)' = Speaking(e) /\ Speaking(e)' <= Speaking(e)
             /\ fired'[e] = fired[e] /\ armed'[e] = armed[e]
  BY <1>1 DEF Waiting, Speaking
<1>3. CASE HumanCreates
  <2>1. PICK e \in Ids \ DOMAIN server, at \in 1..MaxTime :
            /\ server' = With(server, e, [at |-> at, status |-> "Unset", last |-> Never])
            /\ settings' = [settings EXCEPT ![e] = 1]
    BY <1>3 DEF HumanCreates
  <2>2. /\ DOMAIN server' = DOMAIN server \union {e}
        /\ server'[e] = [at |-> at, status |-> "Unset", last |-> Never]
        /\ \A d \in DOMAIN server : server'[d] = server[d]
    BY <2>1 DEF With
  <2>3. settings'[e] = 1 /\ \A d \in Ids \ {e} : settings'[d] = settings[d]
    BY <2>1 DEF TInv
  <2>4. Stamps'
    BY <1>1, <2>1, <2>2 DEF FInv, Stamps, TInv, Never
  <2>5. ~Waiting(e) /\ Speaking(e) = 0 /\ e \notin DOMAIN index
    BY <2>1 DEF TInv, Waiting, Speaking
  <2>6. Paid(e)'
    <3>1. fired[e] = 0 /\ (e \in Recurring => armed[e] = Never)
      BY <2>1 DEF FInv, Paid, Anchored, OneShot
    <3>2. Later(e, server[e].last)' \in 0..1
      BY <1>1, <2>2, <2>5 DEF Later, InCopy, OnServer
    <3>3. e \notin Recurring => OneShot(e)'
      BY <1>1, <1>2, <2>1, <2>2, <2>3, <2>5, <3>1, <3>2 DEF OneShot
    <3>4. e \in Recurring => Anchored(e)'
      BY <1>1, <1>2, <2>1, <2>2, <2>5, <3>1 DEF Anchored
    <3> QED
      BY <3>3, <3>4 DEF Paid
  <2>7. ASSUME NEW d \in Ids \ {e} PROVE Paid(d)'
    <3>1. Kept(d)
      BY <1>1, <1>2, <2>2 DEF Kept
    <3> QED
      BY <1>1, <2>2, <2>3, <3>1, QuietPaid DEF FInv
  <2> QED
    BY <2>4, <2>6, <2>7 DEF FInv
<1>4. CASE HumanReschedules
  <2>1. PICK e \in DOMAIN server, at \in 0..MaxTime :
            /\ server' = [server EXCEPT ![e].at = at]
            /\ settings' = [settings EXCEPT ![e] = @ + 1]
    BY <1>4 DEF HumanReschedules
  <2>2. /\ DOMAIN server' = DOMAIN server /\ e \in Ids
        /\ server'[e].at = at /\ server'[e].last = server[e].last
        /\ \A d \in DOMAIN server \ {e} : server'[d] = server[d]
    BY <2>1 DEF TInv, EventsType, Objects
  <2>3. settings'[e] = settings[e] + 1 /\ \A d \in Ids \ {e} : settings'[d] = settings[d]
    BY <2>1, <2>2 DEF TInv
  <2>4. Stamps'
    <3>1. \A d \in DOMAIN server : server'[d].last = server[d].last
      BY <2>2
    <3>2. \A d \in DOMAIN index : d \in DOMAIN server /\ index'[d] = index[d]
      BY <1>1 DEF TInv
    <3>3. now' = now /\ DOMAIN index' = DOMAIN index
      BY <1>1
    <3> QED
      BY <2>2, <3>1, <3>2, <3>3 DEF FInv, Stamps
  <2>5. \A d \in Ids : Kept(d)
    BY <1>1, <1>2, <2>2 DEF Kept
  <2>6. e \notin Recurring => OneShot(e)'
    <3>1. /\ Later(e, server[e].last)' <= Later(e, server[e].last) + 1
          /\ Later(e, now)' <= Later(e, now) + 1
          /\ Later(e, server[e].last)' \in 0..2 /\ Later(e, server[e].last) \in 0..2
          /\ Later(e, now)' \in 0..2 /\ Later(e, now) \in 0..2
      BY <1>1, <2>2 DEF Later, InCopy, OnServer
    <3>2. /\ fired[e] \in Nat /\ settings[e] \in Nat /\ Speaking(e) \in {0, 1}
      BY <2>2, EventType
    <3>3. e \notin Recurring =>
            /\ fired[e] + Speaking(e) + Later(e, server[e].last) <= settings[e]
            /\ Waiting(e) => fired[e] + 1 + Later(e, now) <= settings[e]
      BY <2>1, <2>2 DEF FInv, Paid, OneShot
    <3>4. e \notin Recurring =>
            /\ fired'[e] + Speaking(e)' + Later(e, server[e].last)' <= settings'[e]
            /\ Waiting(e)' => fired'[e] + 1 + Later(e, now)' <= settings'[e]
      BY <1>1, <1>2, <2>2, <2>3, <3>1, <3>2, <3>3
    <3> QED
      BY <2>1, <2>2, <3>4 DEF OneShot
  <2>7. e \in Recurring => Paid(e)'
    BY <1>1, <2>2, <2>5, AnchoredKept DEF FInv, Paid
  <2>8. ASSUME NEW d \in Ids \ {e} PROVE Paid(d)'
    BY <1>1, <2>2, <2>3, <2>5, QuietPaid DEF FInv
  <2> QED
    BY <2>4, <2>6, <2>7, <2>8 DEF FInv, Paid
<1>5. CASE HumanFlips
  <2>1. PICK e \in DOMAIN server, s \in {"Pending", "Cancelled"} :
            server' = [server EXCEPT ![e].status = s]
    BY <1>5 DEF HumanFlips
  <2>2. /\ DOMAIN server' = DOMAIN server
        /\ \A d \in DOMAIN server : server'[d].at = server[d].at /\ server'[d].last = server[d].last
    BY <2>1 DEF TInv, EventsType, Objects
  <2>3. UNCHANGED settings
    BY <1>5 DEF HumanFlips
  <2>4. Stamps'
    <3>1. \A d \in DOMAIN server : server'[d].last = server[d].last
      BY <2>2
    <3>2. \A d \in DOMAIN index : d \in DOMAIN server /\ index'[d] = index[d]
      BY <1>1 DEF TInv
    <3>3. now' = now /\ DOMAIN index' = DOMAIN index
      BY <1>1
    <3> QED
      BY <2>2, <3>1, <3>2, <3>3 DEF FInv, Stamps
  <2>5. ASSUME NEW d \in Ids PROVE Paid(d)'
    <3>1. Kept(d)
      BY <1>1, <1>2, <2>2 DEF Kept
    <3> QED
      BY <1>1, <2>2, <2>3, <3>1, QuietPaid DEF FInv
  <2> QED
    BY <2>4, <2>5 DEF FInv
<1> QED
  BY <1>3, <1>4, <1>5

LEMMA ToolSteps == ASSUME TInv, TInv', FInv, ToolSets \/ ToolCancels PROVE FInv'
<1>1. UNCHANGED <<now, watcher, fire, current, fired>> /\ now <= now'
  BY DEF ToolSets, ToolCancels, watchVars, TInv
<1>2. ASSUME NEW e \in Ids
      PROVE  /\ Waiting(e)' <=> Waiting(e)
             /\ Speaking(e)' = Speaking(e) /\ Speaking(e)' <= Speaking(e)
             /\ fired'[e] = fired[e]
  BY <1>1 DEF Waiting, Speaking
<1>3. CASE ToolSets
  <2>1. PICK e \in Ids \ DOMAIN server, at \in 1..MaxTime :
            /\ IF e \in Recurring THEN at = 1 ELSE at > now
            /\ server' = With(server, e, Birth(e, at))
            /\ index' = With(index, e, Birth(e, at))
            /\ settings' = [settings EXCEPT ![e] = 1]
            /\ armed' = (IF e \in Recurring THEN [armed EXCEPT ![e] = now] ELSE armed)
    BY <1>3 DEF ToolSets
  <2>2. /\ DOMAIN server' = DOMAIN server \union {e} /\ DOMAIN index' = DOMAIN index \union {e}
        /\ server'[e] = Birth(e, at) /\ index'[e] = Birth(e, at)
        /\ \A d \in DOMAIN server \ {e} : server'[d] = server[d]
        /\ \A d \in DOMAIN index \ {e} : index'[d] = index[d]
    BY <2>1 DEF With
  <2>3. /\ settings'[e] = 1 /\ \A d \in Ids \ {e} : settings'[d] = settings[d]
        /\ \A d \in Ids \ {e} : armed'[d] = armed[d]
        /\ e \in Recurring => armed'[e] = now
    BY <2>1 DEF TInv
  <2>4. /\ Birth(e, at).at = at
        /\ Birth(e, at).last = IF e \in Recurring THEN now ELSE Never
    BY BirthType
  <2>5. ~Waiting(e) /\ Speaking(e) = 0 /\ e \notin DOMAIN index
    BY <2>1 DEF TInv, Waiting, Speaking
  <2>6. Stamps'
    <3>1. server'[e].last <= now /\ index'[e].last = server'[e].last
      BY <2>2, <2>4 DEF Never, TInv
    <3>2. \A d \in DOMAIN server : server'[d].last <= now
      BY <2>1, <2>2 DEF FInv, Stamps
    <3>3. \A d \in DOMAIN index : index'[d].last = server'[d].last
      BY <2>1, <2>2, <2>5 DEF FInv, Stamps, TInv
    <3> QED
      BY <1>1, <2>2, <3>1, <3>2, <3>3 DEF Stamps
  <2>7. Paid(e)'
    <3>1. fired[e] = 0
      BY <2>1 DEF FInv, Paid, Anchored, OneShot
    <3>2. Later(e, server[e].last)' \in 0..1
      BY <2>2 DEF Later, InCopy, OnServer
    <3>3. e \notin Recurring => OneShot(e)'
      BY <1>2, <2>1, <2>2, <2>3, <2>5, <3>1, <3>2 DEF OneShot
    <3>4. e \in Recurring => Anchored(e)'
      <4>1. Occurrences(now, now) = 0 /\ now \in Nat
        BY DivType DEF Occurrences, TInv
      <4>2. CASE e \in Recurring
        <5>1. e \in DOMAIN server' /\ server'[e].last = now /\ armed'[e] = now /\ now # Never
          BY <2>2, <2>3, <2>4, <4>1, <4>2 DEF Never
        <5>2. fired'[e] = 0 /\ Speaking(e)' = 0 /\ ~Waiting(e)'
          BY <1>2, <2>1, <2>5, <3>1
        <5> QED
          BY <4>1, <5>1, <5>2 DEF Anchored
      <4> QED
        BY <4>2
    <3> QED
      BY <3>3, <3>4 DEF Paid
  <2>8. ASSUME NEW d \in Ids \ {e} PROVE Paid(d)'
    <3>1. Kept(d)
      BY <1>1, <1>2, <2>2, <2>3 DEF Kept
    <3> QED
      BY <1>1, <2>2, <2>3, <3>1, QuietPaid DEF FInv
  <2> QED
    BY <2>6, <2>7, <2>8 DEF FInv
<1>4. CASE ToolCancels
  <2>1. PICK e \in DOMAIN index : Write(e, [index[e] EXCEPT !.status = "Cancelled"])
    BY <1>4 DEF ToolCancels
  <2>2. settings' = settings /\ armed' = armed
    BY <1>4 DEF ToolCancels
  <2> DEFINE obj == [index[e] EXCEPT !.status = "Cancelled"]
  <2>3. obj \in Objects /\ obj.at = index[e].at /\ obj.last = index[e].last /\ e \in Ids
    BY CancelledType
  <2>4. Write(e, obj)
    BY <2>1
  <2> HIDE DEF obj
  <2>5. /\ DOMAIN server' = DOMAIN server /\ DOMAIN index' = DOMAIN index
        /\ server'[e] = obj /\ index'[e] = obj
        /\ \A d \in DOMAIN server \ {e} : server'[d] = server[d]
        /\ \A d \in DOMAIN index \ {e} : index'[d] = index[d]
    BY <2>3, <2>4, WriteType
  <2>6. e \in DOMAIN server /\ index[e].last = server[e].last
    BY <2>1 DEF TInv, FInv, Stamps
  <2>7. \A d \in DOMAIN server : server'[d].last = server[d].last
    BY <2>3, <2>5, <2>6
  <2>8. \A d \in DOMAIN index : index'[d].at = index[d].at /\ index'[d].last = index[d].last
    BY <2>3, <2>5
  <2>9. Stamps'
    BY <1>1, <2>5, <2>7, <2>8 DEF FInv, Stamps, TInv
  <2>10. ASSUME NEW d \in Ids PROVE Kept(d)
    BY <1>2, <2>2, <2>5, <2>7 DEF Kept
  <2>11. Paid(e)'
    BY <1>1, <2>2, <2>3, <2>5, <2>6, <2>10, CopiedPaid DEF FInv
  <2>12. ASSUME NEW d \in Ids \ {e} PROVE Paid(d)'
    BY <1>1, <2>2, <2>5, <2>8, <2>10, QuietPaid DEF FInv
  <2> QED
    BY <2>9, <2>11, <2>12 DEF FInv
<1> QED
  BY <1>3, <1>4

\* The tick picks what the copy says is due: a time it holds after the stamp and
\* not after now, an occurrence after the stamp.
LEMMA TickStep == ASSUME TInv, TInv', FInv, Tick PROVE FInv'
<1>1. UNCHANGED <<now, server, index, settings, fired, armed>>
  BY DEF Tick, worldVars
<1>2. watcher = "asleep" /\ watcher' = "work" /\ fire' = {e \in Ids : Due(e)}
  BY DEF Tick
<1>3. ASSUME NEW e \in Ids
      PROVE  Speaking(e) = 0 /\ Speaking(e)' = 0 /\ (Waiting(e)' => Due(e))
  BY <1>2 DEF Speaking, Waiting
<1>4. ASSUME NEW e \in Ids, Due(e)
      PROVE  /\ e \in DOMAIN index /\ e \in DOMAIN server /\ index[e].last = server[e].last
             /\ server[e].last <= now
             /\ e \in Recurring => server[e].last # Never /\ NextOccurrence(server[e].last) <= now
             /\ e \notin Recurring => /\ index[e].at > server[e].last
                                      /\ index[e].at <= now
  <2>1. e \in DOMAIN index /\ e \in DOMAIN server /\ index[e].last = server[e].last
        /\ server[e].last <= now
    BY <1>4 DEF Due, Scanned, TInv, FInv, Stamps
  <2>2. index[e].at \in Nat /\ index[e].last \in Nat \union {-1}
    BY <2>1, EventType
  <2> QED
    BY <1>4, <2>1, <2>2 DEF Due, Scanned, DueAt, Never, Off
<1>5. Stamps'
  BY <1>1 DEF FInv, Stamps
<1>6. ASSUME NEW e \in Recurring PROVE Anchored(e)'
  <2>1. Anchored(e) /\ e \in Ids
    BY ConstantsAssumption DEF FInv, Paid
  <2>2. Waiting(e)' => /\ e \in DOMAIN server /\ server[e].last # Never
                       /\ Occurrences(server[e].last, now) >= 1
    <3>1. CASE Due(e)
      <4>1. server[e].last \in Nat /\ now \in Nat
        BY <1>4, <2>1, <3>1, EventType DEF Never
      <4> QED
        BY <1>4, <2>1, <3>1, <4>1, NextReached
    <3> QED
      BY <1>3, <2>1, <3>1
  <2> QED
    BY <1>1, <1>3, <2>1, <2>2 DEF Anchored
<1>7. ASSUME NEW e \in Ids \ Recurring PROVE OneShot(e)'
  <2>1. OneShot(e)
    BY DEF FInv, Paid
  <2>2. e \in DOMAIN server =>
          fired[e] + Speaking(e) + Later(e, server[e].last) <= settings[e]
    BY <2>1 DEF OneShot
  <2>3. Waiting(e)' => e \in DOMAIN server /\ fired[e] + 1 + Later(e, now) <= settings[e]
    <3>1. CASE Due(e)
      <4>1. /\ server[e].at \in Nat /\ index[e].at \in Nat /\ now \in Nat
            /\ server[e].last \in Nat \union {-1} /\ fired[e] \in Nat /\ settings[e] \in Nat
        BY <1>4, <3>1, EventType
      <4>2. InCopy(e, server[e].last) /\ ~InCopy(e, now)
        BY <1>4, <3>1, <4>1 DEF InCopy
      <4>3. OnServer(e, now) => OnServer(e, server[e].last)
        BY <1>4, <3>1, <4>1 DEF OnServer
      <4>4. Later(e, now) + 1 <= Later(e, server[e].last)
        BY <4>2, <4>3 DEF Later
      <4>5. Later(e, now) \in 0..2 /\ Later(e, server[e].last) \in 0..2
        BY LaterType
      <4> QED
        BY <1>3, <1>4, <2>2, <3>1, <4>1, <4>4, <4>5
    <3> QED
      BY <1>3, <3>1
  <2>4. /\ Later(e, server[e].last)' = Later(e, server[e].last)
        /\ Later(e, now)' = Later(e, now)
    BY <1>1 DEF Later, InCopy, OnServer
  <2> QED
    BY <1>1, <1>3, <2>1, <2>2, <2>3, <2>4 DEF OneShot
<1> QED
  BY <1>5, <1>6, <1>7 DEF FInv, Paid

\* What the stamp of an event does to the two objects.
LEMMA StampStep ==
    ASSUME TInv, TInv', FInv, NEW e \in DOMAIN index, Write(e, Marked(e)), now' = now
    PROVE  /\ Stamps' /\ e \in Ids /\ e \in DOMAIN server
           /\ DOMAIN server' = DOMAIN server /\ DOMAIN index' = DOMAIN index
           /\ server'[e].last = now /\ server'[e].at = index[e].at
           /\ index'[e].at = index[e].at
           /\ \A d \in DOMAIN server \ {e} : server'[d] = server[d]
           /\ \A d \in DOMAIN index \ {e} : index'[d] = index[d]
<1>1. /\ Marked(e) \in Objects /\ Marked(e).at = index[e].at
      /\ Marked(e).last = now /\ e \in Ids
  BY MarkedType
<1>2. /\ DOMAIN server' = DOMAIN server /\ DOMAIN index' = DOMAIN index
      /\ server'[e] = Marked(e) /\ index'[e] = Marked(e)
      /\ \A d \in DOMAIN server \ {e} : server'[d] = server[d]
      /\ \A d \in DOMAIN index \ {e} : index'[d] = index[d]
  BY <1>1, WriteType
<1>3. now \in Nat /\ DOMAIN index \subseteq DOMAIN server
  BY DEF TInv
<1>4. Stamps'
  <2>1. \A d \in DOMAIN server : server'[d].last <= now
    BY <1>1, <1>2, <1>3 DEF FInv, Stamps
  <2>2. \A d \in DOMAIN index : index'[d].last = server'[d].last
    BY <1>1, <1>2, <1>3 DEF FInv, Stamps
  <2> QED
    BY <1>2, <2>1, <2>2 DEF Stamps
<1> QED
  BY <1>1, <1>2, <1>3, <1>4

LEMMA ArmStep == ASSUME TInv, TInv', FInv, ArmOne PROVE FInv'
<1>1. PICK e \in arm :
          \/ /\ Write(e, Marked(e))
             /\ armed' = (IF armed[e] = Never THEN [armed EXCEPT ![e] = now] ELSE armed)
          \/ UNCHANGED <<server, index, armed>>
  BY DEF ArmOne
<1>2. UNCHANGED <<now, settings, watcher, fire, current, fired>> /\ now <= now'
  BY DEF ArmOne, TInv
<1>3. watcher = "work"
  BY DEF ArmOne
<1>4. ASSUME NEW d \in Ids
      PROVE  /\ Waiting(d)' <=> Waiting(d)
             /\ Speaking(d) = 0 /\ Speaking(d)' = 0 /\ Speaking(d)' <= Speaking(d)
             /\ fired'[d] = fired[d]
  BY <1>2, <1>3 DEF Waiting, Speaking
<1>5. CASE UNCHANGED <<server, index, armed>>
  BY <1>2, <1>3, <1>4, <1>5, IdlePaid
<1>6. CASE /\ Write(e, Marked(e))
           /\ armed' = (IF armed[e] = Never THEN [armed EXCEPT ![e] = now] ELSE armed)
  <2>1. e \in DOMAIN index /\ e \in Recurring
    BY DEF TInv
  <2>2. /\ Stamps' /\ e \in Ids /\ e \in DOMAIN server
        /\ DOMAIN server' = DOMAIN server /\ DOMAIN index' = DOMAIN index
        /\ server'[e].last = now
        /\ \A d \in DOMAIN server \ {e} : server'[d] = server[d]
        /\ \A d \in DOMAIN index \ {e} : index'[d] = index[d]
    BY <1>2, <1>6, <2>1, StampStep
  <2>3. /\ armed'[e] = IF armed[e] = Never THEN now ELSE armed[e]
        /\ \A d \in Ids \ {e} : armed'[d] = armed[d]
    BY <1>6, <2>2 DEF TInv
  <2>4. ~Waiting(e)
    BY <1>3 DEF TInv, Waiting
  <2>5. /\ fired[e] \in Nat /\ now \in Nat /\ now # Never
        /\ armed[e] \in Nat \union {-1} /\ server[e].last \in Nat \union {-1}
    BY <2>2, EventType DEF Never
  <2>6. Anchored(e)
    BY <2>1, <2>2 DEF FInv, Paid
  <2>7. server[e].last = Never => Anchored(e)'
    <3> SUFFICES ASSUME server[e].last = Never PROVE Anchored(e)'
      OBVIOUS
    <3>1. armed[e] = Never /\ fired[e] = 0
      BY <2>6 DEF Anchored
    <3>2. Occurrences(now, now) = 0
      BY <2>5, DivType DEF Occurrences
    <3>3. /\ e \in DOMAIN server' /\ server'[e].last = now /\ armed'[e] = now
          /\ fired'[e] = 0 /\ Speaking(e)' = 0 /\ ~Waiting(e)'
      BY <1>4, <2>2, <2>3, <2>4, <3>1
    <3> QED
      BY <2>5, <3>2, <3>3 DEF Anchored
  <2>8. server[e].last # Never => Anchored(e)'
    <3> SUFFICES ASSUME server[e].last # Never PROVE Anchored(e)'
      OBVIOUS
    <3>1. /\ armed[e] # Never /\ armed[e] <= server[e].last /\ server[e].last <= now
          /\ fired[e] <= Occurrences(armed[e], server[e].last)
      BY <1>4, <2>2, <2>5, <2>6 DEF Anchored, FInv, Stamps
    <3>2. armed[e] \in Nat /\ server[e].last \in Nat
      BY <2>5, <3>1 DEF Never
    <3>3. server[e].last \div Period <= now \div Period
      BY <2>5, <3>1, <3>2, DivGrows
    <3>4. /\ server[e].last \div Period \in Nat /\ armed[e] \div Period \in Nat
          /\ now \div Period \in Nat
      BY <2>5, <3>2, DivType
    <3>5. fired[e] <= Occurrences(armed[e], now) /\ armed[e] <= now
      BY <2>5, <3>1, <3>2, <3>3, <3>4 DEF Occurrences
    <3>6. /\ e \in DOMAIN server' /\ server'[e].last = now /\ armed'[e] = armed[e]
          /\ fired'[e] = fired[e] /\ Speaking(e)' = 0 /\ ~Waiting(e)'
      BY <1>4, <2>2, <2>3, <2>4, <3>1
    <3> QED
      BY <2>5, <3>1, <3>5, <3>6 DEF Anchored
  <2>9. Paid(e)'
    BY <2>1, <2>7, <2>8 DEF Paid
  <2>10. ASSUME NEW d \in Ids \ {e} PROVE Paid(d)'
    <3>1. Kept(d)
      BY <1>4, <2>2, <2>3 DEF Kept
    <3> QED
      BY <1>2, <2>2, <3>1, QuietPaid DEF FInv
  <2> QED
    BY <2>2, <2>9, <2>10 DEF FInv
<1> QED
  BY <1>1, <1>5, <1>6

\* Marked before it speaks: what the event was picked for is behind its stamp, and
\* the copy that was marked is what the server has now.
LEMMA MarkStep == ASSUME TInv, TInv', FInv, FireMarks PROVE FInv'
<1>0. PICK e : e = current
  OBVIOUS
<1>1. UNCHANGED <<now, settings, fire, current, fired, armed>> /\ now <= now'
  BY DEF FireMarks, TInv
<1>2. watcher = "mark" /\ watcher' = "speak" /\ Write(e, Marked(e))
  BY <1>0 DEF FireMarks
<1>3. e \in DOMAIN index /\ e \notin fire
  BY <1>0, <1>2 DEF TInv
<1>4. /\ Stamps' /\ e \in Ids /\ e \in DOMAIN server
      /\ DOMAIN server' = DOMAIN server /\ DOMAIN index' = DOMAIN index
      /\ server'[e].last = now /\ server'[e].at = index[e].at
      /\ index'[e].at = index[e].at
      /\ \A d \in DOMAIN server \ {e} : server'[d] = server[d]
      /\ \A d \in DOMAIN index \ {e} : index'[d] = index[d]
  BY <1>1, <1>2, <1>3, StampStep
<1>5. Waiting(e) /\ Speaking(e) = 0 /\ ~Waiting(e)' /\ Speaking(e)' = 1
  BY <1>0, <1>1, <1>2, <1>3 DEF Waiting, Speaking
<1>6. /\ fired[e] \in Nat /\ settings[e] \in Nat /\ armed[e] \in Nat \union {-1}
      /\ now \in Nat /\ server[e].last \in Nat \union {-1} /\ now # Never
      /\ fired'[e] = fired[e] /\ settings'[e] = settings[e] /\ armed'[e] = armed[e]
  BY <1>1, <1>4, EventType DEF Never
<1>7. e \notin Recurring => OneShot(e)'
  <2>1. e \notin Recurring => fired[e] + 1 + Later(e, now) <= settings[e]
    BY <1>4, <1>5 DEF FInv, Paid, OneShot
  <2>2. Later(e, server[e].last)' <= Later(e, now)
    BY <1>3, <1>4 DEF Later, InCopy, OnServer
  <2>3. Later(e, now) \in 0..2 /\ Later(e, server[e].last)' \in 0..2
    BY DEF Later
  <2>4. e \notin Recurring => fired'[e] + Speaking(e)' + Later(e, server[e].last)' <= settings'[e]
    BY <1>5, <1>6, <2>1, <2>2, <2>3
  <2> QED
    BY <1>4, <1>5, <2>4 DEF OneShot
<1>8. e \in Recurring => Anchored(e)'
  <2> SUFFICES ASSUME e \in Recurring PROVE Anchored(e)'
    OBVIOUS
  <2>1. /\ server[e].last # Never /\ armed[e] # Never /\ armed[e] <= server[e].last
        /\ fired[e] <= Occurrences(armed[e], server[e].last)
        /\ Occurrences(server[e].last, now) >= 1
    BY <1>4, <1>5, <1>6 DEF FInv, Paid, Anchored
  <2>2. server[e].last \in Nat /\ armed[e] \in Nat /\ server[e].last <= now
    BY <1>4, <1>6, <2>1 DEF Never, FInv, Stamps
  <2>3. /\ server[e].last \div Period \in Nat /\ armed[e] \div Period \in Nat
        /\ now \div Period \in Nat
    BY <1>6, <2>2, DivType
  <2>4. fired[e] + 1 <= Occurrences(armed[e], now)
    BY <1>6, <2>1, <2>3 DEF Occurrences
  <2>5. fired'[e] + Speaking(e)' <= Occurrences(armed'[e], server'[e].last)
    BY <1>4, <1>5, <1>6, <2>4
  <2>6. armed'[e] # Never /\ armed'[e] <= server'[e].last
    BY <1>4, <1>6, <2>1, <2>2
  <2> QED
    BY <1>4, <1>5, <1>6, <2>5, <2>6 DEF Anchored
<1>9. Paid(e)'
  BY <1>7, <1>8 DEF Paid
<1>10. ASSUME NEW d \in Ids \ {e} PROVE Paid(d)'
  <2>1. Kept(d)
    BY <1>0, <1>1, <1>2, <1>4 DEF Kept, Waiting, Speaking
  <2> QED
    BY <1>1, <1>4, <2>1, QuietPaid DEF FInv
<1> QED
  BY <1>4, <1>9, <1>10 DEF FInv

LEMMA SpeakStep == ASSUME TInv, TInv', FInv, FireSpeaks PROVE FInv'
<1>0. PICK e : e = current
  OBVIOUS
<1>1. UNCHANGED <<now, server, index, settings, fire, current, armed>> /\ now <= now'
  BY DEF FireSpeaks, worldVars, TInv
<1>2. /\ watcher = "speak" /\ watcher' = "work" /\ e \in Ids /\ e \notin fire
      /\ fired'[e] = fired[e] + 1 /\ \A d \in Ids \ {e} : fired'[d] = fired[d]
  BY <1>0 DEF FireSpeaks, TInv
<1>3. Speaking(e) = 1 /\ Speaking(e)' = 0 /\ ~Waiting(e)' /\ ~Waiting(e)
  BY <1>0, <1>1, <1>2 DEF Waiting, Speaking
<1>4. fired[e] \in Nat /\ fired'[e] + Speaking(e)' = fired[e] + Speaking(e)
  BY <1>2, <1>3, EventType
<1>5. Stamps'
  BY <1>1 DEF FInv, Stamps
<1>6. Paid(e)'
  <2>1. e \in DOMAIN server
    BY <1>0, <1>2 DEF TInv
  <2>2. CASE e \in Recurring
    <3>1. Anchored(e)
      BY <1>2, <2>2 DEF FInv, Paid
    <3>2. server[e].last # Never
      BY <1>3, <3>1 DEF Anchored
    <3> QED
      BY <1>1, <1>3, <1>4, <2>1, <2>2, <3>1, <3>2 DEF Anchored, Paid
  <2>3. CASE e \notin Recurring
    <3>1. fired[e] + Speaking(e) + Later(e, server[e].last) <= settings[e]
      BY <1>2, <2>1, <2>3 DEF FInv, Paid, OneShot
    <3>2. Later(e, server[e].last)' = Later(e, server[e].last)
      BY <1>1 DEF Later, InCopy, OnServer
    <3>3. settings'[e] = settings[e] /\ e \in DOMAIN server'
      BY <1>1, <2>1
    <3>4. fired'[e] + Speaking(e)' + Later(e, server[e].last)' <= settings'[e]
      BY <1>4, <3>1, <3>2, <3>3
    <3> QED
      BY <1>3, <2>3, <3>3, <3>4 DEF OneShot, Paid
  <2> QED
    BY <2>2, <2>3
<1>7. ASSUME NEW d \in Ids \ {e} PROVE Paid(d)'
  <2>1. Kept(d)
    BY <1>0, <1>1, <1>2 DEF Kept, Waiting, Speaking
  <2> QED
    BY <1>1, <2>1, QuietPaid DEF FInv
<1> QED
  BY <1>5, <1>6, <1>7 DEF FInv

LEMMA FiredInit == Init => FInv
<1> SUFFICES ASSUME Init PROVE FInv
  OBVIOUS
<1>1. DOMAIN server = {} /\ DOMAIN index = {}
  BY DEF Init, Nothing
<1>2. Stamps
  BY <1>1 DEF Stamps
<1>3. ASSUME NEW e \in Ids PROVE Paid(e)
  <2>1. fired[e] = 0 /\ armed[e] = Never /\ ~Waiting(e) /\ Speaking(e) = 0
    BY DEF Init, Waiting, Speaking
  <2> QED
    BY <1>1, <2>1 DEF Paid, Anchored, OneShot
<1> QED
  BY <1>2, <1>3 DEF FInv

LEMMA FiredStep == ASSUME TInv, TInv', FInv, [Next]_vars PROVE FInv'
BY IdleSteps, CopySteps, HumanSteps, ToolSteps, TickStep, ArmStep, MarkStep, SpeakStep
   DEF Next, Watch, Environment

LEMMA FiredEnough == TInv /\ FInv => AtMostOnce
<1> SUFFICES ASSUME TInv, FInv, NEW e \in Ids
             PROVE  IF e \in Recurring
                    THEN fired[e] > 0 =>
                            armed[e] # Never /\ fired[e] <= Occurrences(armed[e], now)
                    ELSE fired[e] <= settings[e]
  BY DEF AtMostOnce
<1>1. /\ fired[e] \in Nat /\ settings[e] \in Nat /\ armed[e] \in Nat \union {-1}
      /\ now \in Nat /\ Speaking(e) \in {0, 1}
      /\ e \in DOMAIN server => server[e].last \in Nat \union {-1}
  BY EventType
<1>2. CASE e \notin Recurring
  <2>1. OneShot(e) /\ (e \in DOMAIN server => Later(e, server[e].last) \in 0..2)
    BY <1>2, LaterType DEF FInv, Paid
  <2> QED
    BY <1>1, <1>2, <2>1 DEF OneShot
<1>3. CASE e \in Recurring /\ fired[e] > 0
  <2>1. /\ e \in DOMAIN server /\ server[e].last # Never /\ armed[e] # Never
        /\ armed[e] <= server[e].last /\ server[e].last <= now
        /\ fired[e] + Speaking(e) <= Occurrences(armed[e], server[e].last)
    BY <1>1, <1>3 DEF FInv, Paid, Anchored, Stamps
  <2>2. server[e].last \in Nat /\ armed[e] \in Nat
    BY <1>1, <2>1 DEF Never
  <2>3. server[e].last \div Period <= now \div Period
    BY <1>1, <2>1, <2>2, DivGrows
  <2>4. /\ server[e].last \div Period \in Nat /\ armed[e] \div Period \in Nat
        /\ now \div Period \in Nat
    BY <1>1, <2>2, DivType
  <2> QED
    BY <1>1, <1>3, <2>1, <2>3, <2>4 DEF Occurrences
<1> QED
  BY <1>2, <1>3

\* Firing is at-most-once, for any number of events, crashes, failed marks and
\* edits: each time a one-shot is given pays for one firing, each occurrence since
\* its anchor for one of a recurring event (mark_fired, written before the event
\* speaks; due_at).
THEOREM FiresAtMostOnce == Spec => []AtMostOnce
<1>1. Init => TInv /\ FInv
  BY TypeInit, FiredInit
<1>2. TInv /\ FInv /\ [Next]_vars => TInv' /\ FInv'
  BY TypeStep, FiredStep
<1> QED
  BY <1>1, <1>2, FiredEnough, PTL DEF Spec
=============================================================================
