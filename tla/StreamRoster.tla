---------------------------- MODULE StreamRoster ----------------------------
(***************************************************************************)
(* The live streams of one space: which of its chats hold a serve task,    *)
(* how a hibernated chat wakes, how a chat born while the bot runs is      *)
(* adopted, and who pays the catch-up of a chat that starts hibernated     *)
(* (run, _watch_chats, plan_streams, _serve_chat).                         *)
(*                                                                         *)
(* The watcher reads a listing of the server, awaits it, and applies its   *)
(* plan later: between the two, people post, turns end and reminders go    *)
(* out.  A message is a number in "unread"; ChatDelivery follows the turns *)
(* one by one.                                                             *)
(***************************************************************************)
EXTENDS Integers, FiniteSets

CONSTANTS
    Chats,      \* chat ids, ordered as the ids are
    Cap,        \* GC_CHAT_STREAM_CAP
    AtStart,    \* chats of the space when the bot is first started
    Backlog,    \* those with a message posted after their cursor position
    PlacedAtStart,  \* those with a cursor position
    RosterBudget,   \* how many environment events of each kind may happen
    RosterTogether  \* the kinds that may happen in the same behaviour

RosterEvents == {"human", "chat", "sched", "confirm", "crash", "net"}

ASSUME RosterAssumption ==
    /\ Chats \subseteq Nat
    /\ Cap \in Nat \ {0}
    /\ AtStart \subseteq Chats
    /\ Backlog \subseteq PlacedAtStart /\ PlacedAtStart \subseteq AtStart
    /\ RosterBudget \in [RosterEvents -> Nat]
    /\ RosterTogether \subseteq SUBSET RosterEvents

VARIABLES
    exists,   \* chats on the server
    stamp,    \* rank of each chat's last_message_date, 0 for none (C13)
    unread,   \* messages of people above the chat's cursor
    placed,   \* chats with a cursor position, in memory and on disk
    known,    \* SpaceRuntimes.routes: the chats served
    task,     \* the serve task of each chat, none if it has no stream
    todo,     \* what is left of the window a catch-up fetched
    confirm,  \* chats holding a pending schema confirm
    thumb,    \* those where a person has reacted on it
    watcher,  \* where the rescan watcher stands
    seen,     \* the listing it holds: a stamp for every chat listed
    owed,     \* _SpaceStreams.catch_up
    rest,     \* the part of owed this pass has still to visit
    remaining, \* environment events of each kind that may still happen
    adopted,  \* history: chats given a position by live discovery
    skipped   \* history: chats whose first-run skip passed over a message

serverVars == <<exists, stamp>>
watchVars == <<watcher, seen, owed, rest>>
confirmVars == <<confirm, thumb>>
rosterVars == <<exists, stamp, unread, placed, known, task, todo, confirm,
                thumb, watcher, seen, owed, rest, remaining, adopted, skipped>>

Happened == {k \in RosterEvents : remaining[k] < RosterBudget[k]}

\* The environment does something, within the bounds.
Happens(kind) ==
    /\ remaining[kind] > 0
    /\ \E kinds \in RosterTogether : Happened \union {kind} \subseteq kinds
    /\ remaining' = [remaining EXCEPT ![kind] = @ - 1]

RosterInit ==
    /\ exists = AtStart
    /\ stamp = [c \in Chats |-> IF c \in Backlog THEN 1 ELSE 0]
    /\ unread = [c \in Chats |-> IF c \in Backlog THEN 1 ELSE 0]
    /\ placed = PlacedAtStart
    /\ known = {} /\ task = [c \in Chats |-> "none"]
    /\ todo = [c \in Chats |-> 0]
    /\ confirm = {} /\ thumb = {}
    /\ watcher = "down" /\ seen = [c \in {} |-> 0] /\ owed = {} /\ rest = {}
    /\ remaining = RosterBudget
    /\ adopted = {} /\ skipped = {}

-----------------------------------------------------------------------------
(* The server and the people using it. *)

Newest == stamp[CHOOSE c \in Chats : \A d \in Chats : stamp[d] <= stamp[c]]

\* Only the order of the dates matters: each is kept as its rank.
Rank(dates) ==
    [c \in Chats |->
        Cardinality({d \in 1..dates[c] : \E b \in Chats : dates[b] = d})]

\* A message lands in c: it is the newest of the space, or as new as the
\* newest, since a date counts seconds.
Lands(c) ==
    /\ \E date \in {Newest, Newest + 1} \ {0} :
          stamp' = Rank([stamp EXCEPT ![c] = date])
    /\ UNCHANGED exists

HumanWrites(c) ==
    /\ c \in exists /\ Happens("human")
    /\ Lands(c)
    /\ unread' = [unread EXCEPT ![c] = @ + 1]
    /\ UNCHANGED <<placed, known, task, todo, confirmVars, watchVars, adopted,
                   skipped>>

HumanCreates(c) ==
    /\ c \in Chats \ exists /\ Happens("chat")
    /\ exists' = exists \union {c}
    /\ UNCHANGED <<stamp, unread, placed, known, task, todo, confirmVars,
                   watchVars, adopted, skipped>>

\* A reaction does not move the chat's stamp.
HumanReacts(c) ==
    /\ c \in confirm \ thumb
    /\ thumb' = thumb \union {c}
    /\ UNCHANGED <<serverVars, unread, placed, known, task, todo, confirm,
                   watchVars, remaining, adopted, skipped>>

\* A fired event posts into any served chat, streamed or not; its turn may
\* propose a schema change.
ScheduledTurn(c) ==
    /\ c \in known /\ Happens("sched")
    /\ Lands(c)
    /\ confirm' \in {confirm, confirm \union {c}}
    /\ UNCHANGED <<unread, placed, known, task, todo, thumb, watchVars,
                   adopted, skipped>>

-----------------------------------------------------------------------------
(* plan_streams. *)

\* Mutant of Outranks: the oldest first.
OutranksOldest(activity, c, d) ==
    activity[c] < activity[d] \/ (activity[c] = activity[d] /\ c > d)

Outranks(activity, c, d) ==
    activity[c] > activity[d] \/ (activity[c] = activity[d] /\ c > d)

Desired(activity) ==
    {c \in DOMAIN activity :
        Cardinality({d \in DOMAIN activity : Outranks(activity, d, c)}) < Cap}

Active == {c \in Chats : task[c] # "none"}

\* Never stopped: inside a catch-up or a turn, or holding a pending confirm.
Busy == {c \in Active : task[c] # "idle"} \union (Active \cap confirm)

Started(activity) == Desired(activity) \ Active
Stopped(activity) == Active \ (Desired(activity) \union Busy)

-----------------------------------------------------------------------------
(* The process. *)

Listing == [c \in exists |-> stamp[c]]
NoListing == [c \in {} |-> 0]

\* build_space_runtimes lists the chats; what runs on that listing comes later.
BootList ==
    /\ watcher = "down"
    /\ watcher' = "boot" /\ seen' = Listing
    /\ UNCHANGED <<serverVars, unread, placed, known, task, todo, confirmVars,
                   owed, rest, remaining, adopted, skipped>>

StartupDebt == DOMAIN seen \ Started(seen)

\* run: streams for the most recent, one catch-up owed to the others.
BootPlan ==
    /\ watcher = "boot"
    /\ watcher' = "owed"
    /\ known' = DOMAIN seen
    /\ task' = [c \in Chats |-> IF c \in Started(seen) THEN "fetch" ELSE "none"]
    /\ owed' = StartupDebt /\ rest' = StartupDebt /\ seen' = NoListing
    /\ UNCHANGED <<serverVars, unread, placed, todo, confirmVars, remaining,
                   adopted, skipped>>

\* The process ends: killed, or stopped by the error of a serve task.
ProcessEnds ==
    /\ watcher # "down" /\ Happens("crash")
    /\ watcher' = "down" /\ seen' = NoListing
    /\ owed' = {} /\ rest' = {} /\ known' = {}
    /\ task' = [c \in Chats |-> "none"] /\ todo' = [c \in Chats |-> 0]
    /\ confirm' = {} /\ thumb' = {}
    /\ UNCHANGED <<serverVars, unread, placed, adopted, skipped>>

-----------------------------------------------------------------------------
(* _catch_up, in a serve task and in the watcher. *)

\* First run: the window is skipped and the position taken, if there is one.
FastForward(c) ==
    /\ c \notin placed
    /\ placed' = (IF stamp[c] > 0 THEN placed \union {c} ELSE placed)
    /\ unread' = [unread EXCEPT ![c] = 0]
    /\ skipped' = (IF unread[c] > 0 THEN skipped \union {c} ELSE skipped)
    /\ UNCHANGED <<serverVars, todo, confirmVars, remaining>>

\* Otherwise the messages above the cursor are the work list.
FetchMissed(c) ==
    /\ c \in placed
    /\ todo' = [todo EXCEPT ![c] = unread[c]]
    /\ UNCHANGED <<serverVars, unread, placed, confirmVars, remaining,
                   skipped>>

Taken(c) ==
    /\ unread' = [unread EXCEPT ![c] = @ - 1]

\* A turn ends with a reply, and perhaps with a schema confirm.
Replies(c) ==
    /\ Lands(c)
    /\ \/ UNCHANGED <<confirm, remaining>>
       \/ Happens("confirm") /\ confirm' = confirm \union {c}

CatchUpTurn(c) ==
    /\ todo[c] > 0
    /\ todo' = [todo EXCEPT ![c] = @ - 1]
    /\ Taken(c) /\ Replies(c)
    /\ UNCHANGED <<placed, thumb, skipped>>

-----------------------------------------------------------------------------
(* The serve task of chat c. *)

Fetch(c) ==
    /\ task[c] = "fetch"
    /\ \/ FastForward(c) /\ task' = [task EXCEPT ![c] = "idle"]
       \/ FetchMissed(c) /\ task' = [task EXCEPT ![c] = "drain"]
    /\ UNCHANGED <<known, watchVars, adopted>>

Drain(c) ==
    /\ task[c] = "drain"
    /\ CatchUpTurn(c)
    /\ UNCHANGED <<known, task, watchVars, adopted>>

Drained(c) ==
    /\ task[c] = "drain" /\ todo[c] = 0
    /\ task' = [task EXCEPT ![c] = "idle"]
    /\ UNCHANGED <<serverVars, unread, placed, known, todo, confirmVars,
                   watchVars, remaining, adopted, skipped>>

\* The stream hands over a message: a turn starts, and later ends.
TakeLive(c) ==
    /\ task[c] = "idle" /\ unread[c] > 0
    /\ task' = [task EXCEPT ![c] = "turn"]
    /\ Taken(c)
    /\ placed' = placed \union {c}
    /\ UNCHANGED <<serverVars, known, todo, confirmVars, watchVars, remaining,
                   adopted, skipped>>

TurnEnds(c) ==
    /\ task[c] = "turn"
    /\ task' = [task EXCEPT ![c] = "idle"]
    /\ Replies(c)
    /\ UNCHANGED <<unread, placed, known, todo, thumb, watchVars, adopted,
                   skipped>>

\* The reaction frame, or the sweep before a connect, resolves the confirm.
ReactionSeen(c) ==
    /\ task[c] = "idle" /\ c \in thumb
    /\ confirm' = confirm \ {c} /\ thumb' = thumb \ {c}
    /\ Lands(c)
    /\ UNCHANGED <<unread, placed, known, task, todo, watchVars, remaining, adopted,
                   skipped>>

Serve(c) ==
    \/ Fetch(c) \/ Drain(c) \/ Drained(c) \/ TakeLive(c) \/ TurnEnds(c)
    \/ ReactionSeen(c)

-----------------------------------------------------------------------------
(* The watcher. *)

FirstOf(S) == CHOOSE c \in S : \A d \in S : c <= d

\* The debts are paid in id order, one at a time.
WatchFetch ==
    /\ watcher = "owed" /\ rest # {}
    /\ LET c == FirstOf(rest) IN
        \/ /\ FastForward(c)
           /\ owed' = owed \ {c} /\ rest' = rest \ {c} /\ UNCHANGED watcher
        \/ /\ FetchMissed(c)
           /\ watcher' = "drain" /\ UNCHANGED <<owed, rest>>
    /\ UNCHANGED <<known, task, seen, adopted>>

\* A catch-up that fails is retried on the next pass.
WatchFails ==
    /\ watcher \in {"owed", "drain"} /\ rest # {} /\ Happens("net")
    /\ watcher' = "owed" /\ rest' = rest \ {FirstOf(rest)}
    /\ todo' = [todo EXCEPT ![FirstOf(rest)] = 0]
    /\ UNCHANGED <<serverVars, unread, placed, known, task, confirmVars, seen,
                   owed, adopted, skipped>>

WatchDrain ==
    /\ watcher = "drain"
    /\ CatchUpTurn(FirstOf(rest))
    /\ UNCHANGED <<known, task, watchVars, adopted>>

WatchDrained ==
    /\ watcher = "drain" /\ todo[FirstOf(rest)] = 0
    /\ watcher' = "owed"
    /\ owed' = owed \ {FirstOf(rest)} /\ rest' = rest \ {FirstOf(rest)}
    /\ UNCHANGED <<serverVars, unread, placed, known, task, todo, confirmVars,
                   seen, remaining, adopted, skipped>>

\* After the interval list_chats is sent; its answer is a snapshot.
List ==
    /\ watcher = "owed" /\ rest = {}
    /\ watcher' = "plan" /\ seen' = Listing
    /\ UNCHANGED <<serverVars, unread, placed, known, task, todo, confirmVars,
                   owed, rest, remaining, adopted, skipped>>

ListFails ==
    /\ watcher = "owed" /\ rest = {} /\ Happens("net")
    /\ rest' = owed
    /\ UNCHANGED <<serverVars, unread, placed, known, task, todo, confirmVars,
                   watcher, seen, owed, adopted, skipped>>

\* Mutant of Adopt: a discovered chat gets no position.
AdoptUnplaced(S) == adopted' = adopted \union S /\ UNCHANGED placed

\* ChatCursor.begin for every chat discovered live.
Adopt(S) == adopted' = adopted \union S /\ placed' = placed \union S

\* Mutant of StillOwed: the debt of a chat that gets a stream stays.
StillOwedAll(opened) == owed

\* The serve task of a chat that gets a stream catches up itself.
StillOwed(opened) == owed \ opened

\* One tick: register and adopt, plan, cancel, open; no await in between.
Roster ==
    /\ watcher = "plan"
    /\ Adopt(DOMAIN seen \ known)
    /\ known' = known \union DOMAIN seen
    /\ task' = [c \in Chats |->
                  CASE c \in Started(seen) -> "fetch"
                    [] c \in Stopped(seen) -> "none"
                    [] OTHER -> task[c]]
    /\ owed' = StillOwed(Started(seen)) /\ rest' = owed'
    /\ watcher' = "owed" /\ seen' = NoListing
    /\ UNCHANGED <<serverVars, unread, todo, confirmVars, remaining,
                   skipped>>

Watch == WatchFetch \/ WatchDrain \/ WatchDrained \/ List \/ Roster

-----------------------------------------------------------------------------

Environment ==
    \/ \E c \in Chats : HumanWrites(c) \/ HumanCreates(c) \/ HumanReacts(c)
    \/ \E c \in Chats : ScheduledTurn(c)
    \/ ProcessEnds \/ WatchFails \/ ListFails

RosterNext ==
    \/ BootList \/ BootPlan
    \/ Watch
    \/ \E c \in Chats : Serve(c)
    \/ Environment

\* Every task of the event loop that can run does; a supervisor restarts the
\* process.  People, the schedule and faults owe nothing.
RosterFairness ==
    /\ WF_rosterVars(BootList \/ BootPlan \/ Watch)
    /\ \A c \in Chats : WF_rosterVars(Serve(c))

RosterSpec == RosterInit /\ [][RosterNext]_rosterVars /\ RosterFairness

-----------------------------------------------------------------------------
(* Properties. *)

RosterTypeOK ==
    /\ exists \subseteq Chats /\ placed \subseteq Chats /\ known \subseteq Chats
    /\ stamp \in [Chats -> Nat]
    /\ unread \in [Chats -> Nat]
    /\ task \in [Chats -> {"none", "fetch", "drain", "idle", "turn"}]
    /\ todo \in [Chats -> Nat]
    /\ confirm \subseteq Chats /\ thumb \subseteq confirm
    /\ watcher \in {"down", "boot", "owed", "drain", "plan"}
    /\ DOMAIN seen \subseteq Chats /\ owed \subseteq Chats /\ rest \subseteq owed
    /\ remaining \in [RosterEvents -> Nat]
    /\ adopted \subseteq Chats /\ skipped \subseteq Chats

\* No chat is caught up by two tasks: the serve task and the
\* watcher paying its debt would take the same messages (_watch_chats: "a chat
\* the roster wakes first is dropped here").
OneCatchUp ==
    \A c \in Active : c \notin owed /\ (watcher = "drain" => c # FirstOf(rest))

\* The messages typed before a discovered chat was subscribed are never
\* skipped as history, even if the process dies between the discovery and the
\* catch-up (ChatCursor.begin).
PromiseKept ==
    [][\A c \in adopted : c \in skipped' => c \in skipped]_rosterVars

\* Every message of a person is taken in the end, unless a first-run skip
\* passes over it (plan_streams: answered late by one rescan interval, never
\* lost).
EveryMessageTaken == \A c \in Chats : unread[c] > 0 ~> unread[c] = 0

Recent(c) == c \in exists /\ Cardinality({d \in exists : stamp[d] >= stamp[c]}) <= Cap

\* What the ranking does promise: a chat that stays among the Cap most recent
\* has its messages taken, and busy survivors leave the space over its cap only
\* for a while (plan_streams).
RecentServed ==
    /\ \A c \in Chats : <>[]Recent(c) => []<>(unread[c] = 0)
    /\ []<>(Cardinality(Active) <= Cap + Cardinality(Active \cap confirm))

=============================================================================
