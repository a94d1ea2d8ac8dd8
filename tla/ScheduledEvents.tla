-------------------------- MODULE ScheduledEvents --------------------------
(***************************************************************************)
(* Scheduled Events of one space: objects people edit in Anytype, the tool *)
(* sets and cancels in a turn, and the schedule watcher fires              *)
(* (application/scheduler.py, domain/scheduling.py, _watch_schedule,       *)
(* run_scheduled).                                                         *)
(*                                                                         *)
(* The watcher scans the shared index without the turn lock and acts on    *)
(* what it saw later, lock in hand; the index itself is a copy of the      *)
(* server as old as the last resync, and every write sends the whole copy  *)
(* of the event back.                                                      *)
(***************************************************************************)
EXTENDS Integers, FiniteSets

CONSTANTS
    Ids,        \* event objects
    Recurring,  \* those with a cron line; the others are one-shots
    Verbatim,   \* those that post a message, without a turn
    Period,     \* minutes between two occurrences of a cron line
    MaxTime,    \* the clock stops here
    Budget,     \* how many environment events of each kind may happen
    Together    \* the kinds that may happen in the same behaviour

Off == 0        \* an empty or disabled schedule
Never == -1     \* no gc_last_fired
Events == {"human", "turn", "crash", "net"}

ASSUME ConstantsAssumption ==
    /\ Recurring \subseteq Ids /\ Verbatim \subseteq Ids
    /\ Period \in Nat \ {0} /\ MaxTime \in Nat
    /\ Budget \in [Events -> Nat]
    /\ Together \subseteq SUBSET Events

Statuses == {"Unset", "Pending", "Completed", "Cancelled"}

\* An event as an object: when it fires, its lifecycle select, its stamp.  For
\* a cron line "at" only tells set (1) from off.
Objects == [at : Nat, status : Statuses, last : Nat \union {Never}]

VARIABLES
    now,      \* minutes of the local clock
    server,   \* the events that exist, as the server has them
    index,    \* and as the bot's shared index has them
    up,       \* the bot runs
    served,   \* the space has a chat to speak into
    lock,     \* ChannelRoute.lock: free, turn or watcher
    watcher,  \* the schedule watcher: asleep, at work, or firing one event
    arm,      \* the tick's recurring strays
    fire,     \* the tick's due events
    current,  \* the event being fired
    left,     \* environment events of each kind that may still happen
    fired,    \* history: how often each event spoke in the chat
    settings, \* history: how often each one-shot was given a time
    armed     \* history: when each recurring event was anchored first

worldVars == <<now, server, settings>>
watchVars == <<watcher, arm, fire, current>>
vars == <<now, server, index, up, served, lock, watcher, arm, fire, current,
          left, fired, settings, armed>>

Happened == {k \in Events : left[k] < Budget[k]}

\* The environment does something, within the bounds.
Spend(kind) ==
    /\ left[kind] > 0
    /\ \E kinds \in Together : Happened \union {kind} \subseteq kinds
    /\ left' = [left EXCEPT ![kind] = @ - 1]

Nothing == [e \in {} |-> 0]
With(f, e, obj) == [d \in DOMAIN f \union {e} |-> IF d = e THEN obj ELSE f[d]]

Init ==
    /\ now = 1 /\ server = Nothing /\ index = Nothing
    /\ up = TRUE /\ served = FALSE /\ lock = "free"
    /\ watcher = "asleep" /\ arm = {} /\ fire = {} /\ current \in Ids
    /\ left = Budget
    /\ fired = [e \in Ids |-> 0] /\ settings = [e \in Ids |-> 0]
    /\ armed = [e \in Ids |-> Never]

-----------------------------------------------------------------------------
(* domain/scheduling. *)

IsActive(status) == status \notin {"Completed", "Cancelled"}

\* The first occurrence of a cron line strictly after t.
NextOccurrence(t) == (t \div Period + 1) * Period

Occurrences(from, to) == to \div Period - from \div Period

\* due_at: Never when the event is spent or not yet armed.
DueAt(e, obj) ==
    IF e \in Recurring
    THEN IF obj.last = Never THEN Never ELSE NextOccurrence(obj.last)
    ELSE IF obj.last # Never /\ obj.last >= obj.at THEN Never ELSE obj.at

Scanned(e) == e \in DOMAIN index /\ IsActive(index[e].status) /\ index[e].at # Off
Stray(e) == Scanned(e) /\ e \in Recurring /\ index[e].last = Never
Due(e) ==
    /\ Scanned(e)
    /\ DueAt(e, index[e]) # Never /\ DueAt(e, index[e]) <= now

\* _status: the time the list shows as the next one of an event.
ListedFor(e) ==
    IF ~Scanned(e) THEN Never
    ELSE IF Stray(e) THEN NextOccurrence(now)
    ELSE DueAt(e, index[e])

-----------------------------------------------------------------------------
(* Time, people and the process. *)

Minute ==
    /\ now < MaxTime
    /\ now' = now + 1
    /\ UNCHANGED <<server, settings, index, up, served, lock, watchVars, left,
                   fired, armed>>

\* A person creates an event in the Anytype UI: no status, no stamp.
HumanCreates ==
    /\ Spend("human")
    /\ \E e \in Ids \ DOMAIN server, at \in 1..MaxTime :
          /\ e \in Recurring => at = 1
          /\ server' = With(server, e, [at |-> at, status |-> "Unset",
                                        last |-> Never])
          /\ settings' = [settings EXCEPT ![e] = 1]
    /\ UNCHANGED <<now, index, up, served, lock, watchVars, fired, armed>>

\* A person gives an event another time, or turns it off.
HumanReschedules ==
    /\ Spend("human")
    /\ \E e \in DOMAIN server, at \in 0..MaxTime :
          /\ at # server[e].at
          /\ e \in Recurring => at \in {Off, 1}
          /\ server' = [server EXCEPT ![e].at = at]
          /\ settings' = [settings EXCEPT ![e] = @ + 1]
    /\ UNCHANGED <<now, index, up, served, lock, watchVars, fired, armed>>

\* A person flips the status.
HumanFlips ==
    /\ Spend("human")
    /\ \E e \in DOMAIN server, s \in {"Pending", "Cancelled"} :
          /\ s # server[e].status
          /\ server' = [server EXCEPT ![e].status = s]
    /\ UNCHANGED <<now, settings, index, up, served, lock, watchVars, fired,
                   armed>>

Crash ==
    /\ up /\ Spend("crash")
    /\ up' = FALSE /\ index' = Nothing /\ served' = FALSE /\ lock' = "free"
    /\ watcher' = "asleep" /\ arm' = {} /\ fire' = {}
    /\ UNCHANGED <<worldVars, current, fired, armed>>

Start ==
    /\ ~up
    /\ up' = TRUE /\ index' = server
    /\ UNCHANGED <<worldVars, served, lock, watchVars, left, fired, armed>>

\* The discovery watcher registers the space's first chat.
Discover ==
    /\ up /\ ~served
    /\ served' = TRUE
    /\ UNCHANGED <<worldVars, index, up, lock, watchVars, left, fired, armed>>

-----------------------------------------------------------------------------
(* What happens under the turn lock: turns, and the resync of the graph. *)

\* Scheduler._write_fields: the whole copy of the index, changed, is sent, and
\* the answer replaces the copy.
Write(e, obj) ==
    /\ server' = [server EXCEPT ![e] = obj]
    /\ index' = [index EXCEPT ![e] = obj]

\* A turn runs: one of a chat, or one a due event started.
InTurn == lock = "turn" \/ (lock = "watcher" /\ watcher = "speak")

TurnStarts ==
    /\ up /\ lock = "free" /\ Spend("turn")
    /\ lock' = "turn"
    /\ UNCHANGED <<worldVars, index, up, served, watchVars, fired, armed>>

Birth(e, at) == [at |-> at, status |-> "Pending",
                 last |-> IF e \in Recurring THEN now ELSE Never]

\* The schedule tool, action set.
ToolSets ==
    /\ InTurn
    /\ \E e \in Ids \ DOMAIN server, at \in 1..MaxTime :
          /\ IF e \in Recurring THEN at = 1 ELSE at > now
          /\ server' = With(server, e, Birth(e, at))
          /\ index' = With(index, e, Birth(e, at))
          /\ settings' = [settings EXCEPT ![e] = 1]
          /\ armed' = (IF e \in Recurring THEN [armed EXCEPT ![e] = now]
                                          ELSE armed)
    /\ UNCHANGED <<now, up, served, lock, watchVars, left, fired>>

\* The schedule tool, action cancel.
ToolCancels ==
    /\ InTurn
    /\ \E e \in DOMAIN index :
          /\ index[e].status # "Cancelled"
          /\ Write(e, [index[e] EXCEPT !.status = "Cancelled"])
    /\ UNCHANGED <<now, settings, up, served, lock, watchVars, left, fired,
                   armed>>

TurnEnds ==
    /\ lock = "turn"
    /\ lock' = "free"
    /\ UNCHANGED <<worldVars, index, up, served, watchVars, left, fired, armed>>

\* _watch_graph and _watch_changes: edits made in the UI reach the index.
Resync ==
    /\ up /\ lock = "free" /\ index # server
    /\ index' = server
    /\ UNCHANGED <<worldVars, up, served, lock, watchVars, left, fired, armed>>

-----------------------------------------------------------------------------
(* _watch_schedule. *)

\* Scheduler.tick: a scan of the index, whoever holds the lock.
Tick ==
    /\ up /\ watcher = "asleep"
    /\ \E e \in Ids : Stray(e) \/ Due(e)
    /\ watcher' = "work"
    /\ arm' = {e \in Ids : Stray(e)} /\ fire' = {e \in Ids : Due(e)}
    /\ UNCHANGED <<worldVars, index, up, served, lock, current, left, fired,
                   armed>>

\* Mutant of Marked: a fired one-shot is not stamped and stays Pending.
MarkedPending(e) ==
    [index[e] EXCEPT !.last = IF e \in Recurring THEN now ELSE @,
                     !.status = "Pending"]

\* mark_fired: stamped now; a one-shot is completed, anything else Pending.
Marked(e) ==
    [index[e] EXCEPT
        !.last = now,
        !.status = IF e \notin Recurring /\ index[e].at # Off
                   THEN "Completed" ELSE "Pending"]

\* A stray is stamped without firing; the stamp may fail and be retried.
ArmOne ==
    /\ watcher = "work" /\ lock = "free"
    /\ \E e \in arm :
          /\ arm' = arm \ {e}
          /\ \/ /\ Write(e, Marked(e))
                /\ armed' = (IF armed[e] = Never THEN [armed EXCEPT ![e] = now]
                                                 ELSE armed)
                /\ UNCHANGED left
             \/ Spend("net") /\ UNCHANGED <<server, index, armed>>
    /\ UNCHANGED <<now, settings, up, served, lock, watcher, fire, current,
                   fired>>

\* target_chat: an event nobody can hear waits for the next tick.
Unheard ==
    /\ watcher = "work" /\ arm = {} /\ ~served
    /\ \E e \in fire : fire' = fire \ {e}
    /\ UNCHANGED <<worldVars, index, up, served, lock, watcher, arm, current,
                   left, fired, armed>>

\* run_scheduled takes the lock.
FireLocks ==
    /\ watcher = "work" /\ arm = {} /\ served /\ lock = "free"
    /\ \E e \in fire : current' = e /\ fire' = fire \ {e}
    /\ watcher' = "mark" /\ lock' = "watcher"
    /\ UNCHANGED <<worldVars, index, up, served, arm, left, fired, armed>>

\* The mark is written before anything posts; a message releases the lock, a
\* prompt keeps it for its turn.
FireMarks ==
    /\ watcher = "mark"
    /\ Write(current, Marked(current))
    /\ watcher' = "speak"
    /\ lock' = (IF current \in Verbatim THEN "free" ELSE lock)
    /\ UNCHANGED <<now, settings, up, served, arm, fire, current, left, fired,
                   armed>>

\* Mutant of FireMarkFails: the error path forgets the lock.
FireMarkFailsHeld ==
    /\ watcher = "mark" /\ Spend("net")
    /\ watcher' = "work"
    /\ UNCHANGED <<worldVars, index, up, served, lock, arm, fire, current,
                   fired, armed>>

\* The mark fails: an error text goes out instead of the event.
FireMarkFails ==
    /\ watcher = "mark" /\ Spend("net")
    /\ watcher' = "work" /\ lock' = "free"
    /\ UNCHANGED <<worldVars, index, up, served, arm, fire, current, fired,
                   armed>>

\* The message, or what the turn said, stands in the chat.
FireSpeaks ==
    /\ watcher = "speak"
    /\ watcher' = "work"
    /\ lock' = (IF lock = "watcher" THEN "free" ELSE lock)
    /\ fired' = [fired EXCEPT ![current] = @ + 1]
    /\ UNCHANGED <<worldVars, index, up, served, arm, fire, current, left,
                   armed>>

TickDone ==
    /\ watcher = "work" /\ arm = {} /\ fire = {}
    /\ watcher' = "asleep"
    /\ UNCHANGED <<worldVars, index, up, served, lock, arm, fire, current, left,
                   fired, armed>>

Watch ==
    Tick \/ ArmOne \/ Unheard \/ FireLocks \/ FireMarks \/ FireSpeaks \/ TickDone

-----------------------------------------------------------------------------

Environment ==
    \/ Minute \/ HumanCreates \/ HumanReschedules \/ HumanFlips
    \/ Crash \/ TurnStarts \/ ToolSets \/ ToolCancels \/ FireMarkFails

Next == Start \/ Discover \/ Resync \/ TurnEnds \/ Watch \/ Environment

\* Watchers run, a turn ends, a supervisor restarts the process.
Fairness ==
    /\ WF_vars(Start) /\ WF_vars(Discover) /\ WF_vars(Resync)
    /\ WF_vars(TurnEnds) /\ SF_vars(Watch)

Spec == Init /\ [][Next]_vars /\ Fairness

-----------------------------------------------------------------------------
(* Properties. *)

TypeOK ==
    /\ now \in Nat
    /\ DOMAIN server \subseteq Ids /\ \A e \in DOMAIN server : server[e] \in Objects
    /\ DOMAIN index \subseteq DOMAIN server
    /\ \A e \in DOMAIN index : index[e] \in Objects
    /\ up \in BOOLEAN /\ served \in BOOLEAN
    /\ lock \in {"free", "turn", "watcher"}
    /\ watcher \in {"asleep", "work", "mark", "speak"}
    /\ arm \subseteq DOMAIN index /\ fire \subseteq DOMAIN index
    /\ arm \intersect fire = {}
    /\ lock = "watcher" => watcher \in {"mark", "speak"}
    /\ current \in Ids
    /\ left \in [Events -> Nat]
    /\ fired \in [Ids -> Nat] /\ settings \in [Ids -> Nat]
    /\ armed \in [Ids -> Nat \union {Never}]

\* Firing is at-most-once, over crashes, failed marks, late ticks and edits: a
\* one-shot speaks at most once for each time it was given, a recurring event
\* at most once for each occurrence since it was armed, and never before
\* (ADR 027, mark_fired).
AtMostOnce ==
    \A e \in Ids :
        IF e \in Recurring
        THEN fired[e] > 0 =>
                armed[e] # Never /\ fired[e] <= Occurrences(armed[e], now)
        ELSE fired[e] <= settings[e]

\* An event does not stay in the list with a next time that has passed: it is
\* fired in the end, or stops being due; a failed mark and a space without a
\* chat only postpone it (_status, _watch_schedule).
DueFires ==
    \A e \in Ids :
        ListedFor(e) \in 1..now ~> (ListedFor(e) \notin 1..now \/ ~up)

\* A cancelled event never speaks again, nor comes back to life, unless a person
\* re-enables it (schedule tool: "it will not fire").
CancelSticks ==
    [][left'["human"] = left["human"] =>
         \A e \in DOMAIN server :
            server[e].status = "Cancelled" => server'[e].status = "Cancelled"]_vars

=============================================================================
