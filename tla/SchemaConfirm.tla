--------------------------- MODULE SchemaConfirm ---------------------------
(***************************************************************************)
(* Schema proposals of one chat: the model drafts a change in a turn, the  *)
(* harness posts each draft as a message of its own and watches it, and a  *)
(* person's reaction applies or dismisses it                               *)
(* (application/schema_proposals.py, handle_reaction, _sweep_confirms,     *)
(* deliver_events, Orchestrator._session).                                 *)
(*                                                                         *)
(* Two tasks run turns in the chat: the serve task, which also handles the *)
(* reactions, and the schedule watcher.  Whoever needs the chat's session  *)
(* first loads it, and the session owns the ledger of proposals.           *)
(***************************************************************************)
EXTENDS Integers, Sequences, FiniteSets, Functions

CONSTANTS
    MaxDrafts,   \* the drafts ever made, at most
    MaxPending,  \* MAX_PENDING_PROPOSALS
    NewTypes,    \* the drafts that create a type; the others extend one
    Budget,      \* how many environment events of each kind may happen
    Together     \* the kinds that may happen in the same behaviour

Events == {"seed", "turn", "sched", "note", "react", "drop", "crash", "net"}

ASSUME ConstantsAssumption ==
    /\ MaxDrafts \in Nat /\ MaxPending \in Nat \ {0}
    /\ NewTypes \subseteq 1..MaxDrafts
    /\ Budget \in [Events -> Nat]
    /\ Together \subseteq SUBSET Events

Drafts == 1..MaxDrafts
Tasks == {"serve", "sched"}
Emojis == {"up", "down"}

VARIABLES
    landings,  \* how often each draft's change was made to the space
    known,     \* the drafts whose change the registry of the space holds
    thumbs,    \* the emojis people hold on each draft's confirm message
    posted,    \* drafts whose confirm message stands in the chat
    session,   \* Orchestrator._sessions: the chat's session, 0 for none
    ledgers,   \* the proposal ledger of every session made
    watch,     \* pending_confirms: proposal id by confirm message
    lock,      \* ChannelRoute.lock: free, or the task that holds it
    stage,     \* where each task stands
    mine,      \* the session each task works on
    outgoing,  \* the confirm events each task has still to post, draft by id
    job,       \* the reaction the serve task handles
    stream,    \* boot, catchup, then down, swept and open in turn
    frames,    \* reactions that have reached the serve task
    left,      \* environment events of each kind that may still happen
    minted,    \* history: drafts made
    approved,  \* history: drafts whose message somebody held a thumb up on
    withdrawn, \* history: drafts cancelled by the model or dismissed
    heard      \* history: thumbs up the bot is bound to answer

space == <<landings, known>>
taskVars == <<lock, stage, mine, outgoing, job>>
streamVars == <<stream, frames>>
historyVars == <<minted, approved, withdrawn, heard>>
vars == <<space, thumbs, posted, session, ledgers, watch, taskVars,
          streamVars, left, historyVars>>

Happened == {k \in Events : left[k] < Budget[k]}

\* The environment does something, within the bounds.
Spend(kind) ==
    /\ left[kind] > 0
    /\ \E kinds \in Together : Happened \union {kind} \subseteq kinds
    /\ left' = [left EXCEPT ![kind] = @ - 1]

Empty == [x \in {} |-> 0]
NoJob == [draft |-> 0, id |-> 0, up |-> FALSE]
Idle == [t \in Tasks |-> "idle"]

\* SchemaProposals: the counter, the pending proposals, this turn's drafts.
NewLedger == [next |-> 1, pending |-> Empty, drafted |-> {}]

Init ==
    /\ landings = [d \in Drafts |-> 0] /\ thumbs = [d \in Drafts |-> {}]
    /\ known = {} /\ posted = {} /\ session = 0 /\ ledgers = <<>>
    /\ watch = Empty /\ lock = "free" /\ stage = Idle
    /\ mine = [t \in Tasks |-> 0] /\ outgoing = [t \in Tasks |-> Empty]
    /\ job = NoJob /\ stream = "boot" /\ frames = <<>>
    /\ left = Budget
    /\ minted = 0 /\ approved = {} /\ withdrawn = {} /\ heard = {}

-----------------------------------------------------------------------------
(* Orchestrator._session. *)

\* Task t goes on at "next" with the chat's session, once it is loaded.
Enter(t, next, loading) ==
    /\ stage' = [stage EXCEPT ![t] = IF session = 0 THEN loading ELSE next]
    /\ mine' = [mine EXCEPT ![t] = session]

\* services_for answers: a fresh view of the session, with a ledger of its
\* own, becomes the chat's.
Loaded(t, next) ==
    /\ ledgers' = Append(ledgers, NewLedger)
    /\ session' = Len(ledgers')
    /\ mine' = [mine EXCEPT ![t] = Len(ledgers')]
    /\ stage' = [stage EXCEPT ![t] = next]

\* The memory of a chat that has messages is seeded without the lock.
Seed ==
    /\ stream = "boot" /\ stage["serve"] = "idle"
    /\ \/ Spend("seed") /\ Enter("serve", "idle", "seed")
       \/ UNCHANGED <<stage, mine, left>>
    /\ stream' = "catchup"
    /\ UNCHANGED <<space, thumbs, posted, session, ledgers, watch, lock,
                   outgoing, job, frames, historyVars>>

\* A reminder has gone out; note_scheduled_post runs without the lock.
Note ==
    /\ stage["sched"] = "idle" /\ Spend("note")
    /\ Enter("sched", "idle", "note")
    /\ UNCHANGED <<space, thumbs, posted, session, ledgers, watch, lock,
                   outgoing, job, streamVars, historyVars>>

LoadEnds(t) ==
    /\ \/ stage[t] \in {"seed", "note"} /\ Loaded(t, "idle")
       \/ stage[t] = "load" /\ Loaded(t, "turn")
    /\ UNCHANGED <<space, thumbs, posted, watch, lock, outgoing, job,
                   streamVars, left, historyVars>>

-----------------------------------------------------------------------------
(* Turns, under the route lock. *)

\* A message of a person, or a due event with a prompt.
TurnStarts(t) ==
    /\ stage[t] = "idle" /\ lock = "free"
    /\ IF t = "serve" THEN stream \in {"catchup", "open"} /\ Spend("turn")
                      ELSE Spend("sched")
    /\ lock' = t
    /\ Enter(t, "turn", "load")
    /\ ledgers' = (IF session = 0 THEN ledgers
                   ELSE [ledgers EXCEPT ![session].drafted = {}])
    /\ UNCHANGED <<space, thumbs, posted, session, watch, outgoing, job,
                   streamVars, historyVars>>

Ledger(t) == ledgers[mine[t]]
Pending(t) == Ledger(t).pending

Room(ledger) == Cardinality(DOMAIN ledger.pending) < MaxPending

\* Mutant of NextId: ids count the proposals held.
NextIdByCount(ledger) == Cardinality(DOMAIN ledger.pending) + 1

\* _mint_id.
NextId(ledger) == ledger.next

\* propose_type, propose_fields, and the writer's auto-draft.
Draft(t) ==
    /\ stage[t] = "turn" /\ minted < MaxDrafts
    /\ Room(Ledger(t))
    /\ minted' = minted + 1
    /\ LET id == NextId(Ledger(t)) IN
        ledgers' = [ledgers EXCEPT
            ![mine[t]].next = @ + 1,
            ![mine[t]].pending = [i \in DOMAIN @ \union {id} |->
                                    IF i = id THEN minted' ELSE @[i]],
            ![mine[t]].drafted = @ \union {id}]
    /\ UNCHANGED <<space, thumbs, posted, session, watch, taskVars,
                   streamVars, left, approved, withdrawn, heard>>

Without(f, id) == Restrict(f, DOMAIN f \ {id})

\* SchemaProposals.cancel.
Cancelled(ledger, id) ==
    [ledger EXCEPT !.pending = Without(@, id), !.drafted = @ \ {id}]

ToolCancels(t) ==
    /\ stage[t] = "turn"
    /\ \E id \in DOMAIN Pending(t) :
          /\ ledgers' = [ledgers EXCEPT ![mine[t]] = Cancelled(@, id)]
          /\ withdrawn' = withdrawn \union {Pending(t)[id]}
    /\ UNCHANGED <<space, thumbs, posted, session, watch, taskVars,
                   streamVars, left, minted, approved, heard>>

\* The turn returns: its drafts are drained into confirm events.
TurnEnds(t) ==
    /\ stage[t] = "turn"
    /\ outgoing' = [outgoing EXCEPT
                      ![t] = Restrict(Pending(t), Ledger(t).drafted)]
    /\ ledgers' = [ledgers EXCEPT ![mine[t]].drafted = {}]
    /\ stage' = [stage EXCEPT ![t] = "post"] /\ lock' = "free"
    /\ UNCHANGED <<space, thumbs, posted, session, watch, mine, job,
                   streamVars, left, historyVars>>

\* The driver raises: the drafts stay in the ledger and are never announced.
TurnRaises(t) ==
    /\ stage[t] = "turn" /\ Spend("net")
    /\ stage' = [stage EXCEPT ![t] = "idle"] /\ lock' = "free"
    /\ UNCHANGED <<space, thumbs, posted, session, ledgers, watch, mine,
                   outgoing, job, streamVars, historyVars>>

-----------------------------------------------------------------------------
(* deliver_events, without the lock. *)

First(S) == CHOOSE i \in S : \A j \in S : i <= j

\* The confirm message stands in the chat before its id is known.
PostLands(t) ==
    /\ stage[t] = "post" /\ outgoing[t] # Empty
    /\ posted' = posted \union {outgoing[t][First(DOMAIN outgoing[t])]}
    /\ stage' = [stage EXCEPT ![t] = "posted"]
    /\ UNCHANGED <<space, thumbs, session, ledgers, watch, lock, mine,
                   outgoing, job, streamVars, left, historyVars>>

\* The send returns: the reaction watch is armed.
Watched(t) ==
    /\ stage[t] = "posted"
    /\ LET id == First(DOMAIN outgoing[t]) IN
        /\ watch' = [d \in DOMAIN watch \union {outgoing[t][id]} |->
                        IF d = outgoing[t][id] THEN id ELSE watch[d]]
        /\ outgoing' = [outgoing EXCEPT ![t] = Without(@, id)]
    /\ stage' = [stage EXCEPT ![t] = "post"]
    /\ UNCHANGED <<space, thumbs, posted, session, ledgers, lock, mine,
                   job, streamVars, left, historyVars>>

\* The send raises, the message posted or not: the other events are lost too.
PostFails(t) ==
    /\ stage[t] \in {"post", "posted"} /\ outgoing[t] # Empty /\ Spend("net")
    /\ outgoing' = [outgoing EXCEPT ![t] = Empty]
    /\ stage' = [stage EXCEPT ![t] = "idle"]
    /\ UNCHANGED <<space, thumbs, posted, session, ledgers, watch, lock,
                   mine, job, streamVars, historyVars>>

Delivered(t) ==
    /\ stage[t] = "post" /\ outgoing[t] = Empty
    /\ stage' = [stage EXCEPT ![t] = "idle"]
    /\ UNCHANGED <<space, thumbs, posted, session, ledgers, watch, lock,
                   mine, outgoing, job, streamVars, left, historyVars>>

-----------------------------------------------------------------------------
(* Reactions and the stream. *)

\* A person adds or removes an emoji; an open stream carries a frame with all
\* the emojis the message then holds.
HumanReacts(d) ==
    /\ d \in posted /\ Spend("react")
    /\ \E e \in Emojis :
          thumbs' = [thumbs EXCEPT
                        ![d] = IF e \in @ THEN @ \ {e} ELSE @ \union {e}]
    /\ frames' = (IF stream = "open" THEN Append(frames, <<d, thumbs'[d]>>)
                                     ELSE frames)
    /\ approved' = (IF "up" \in thumbs'[d] THEN approved \union {d}
                                           ELSE approved)
    /\ heard' = (IF "up" \notin thumbs'[d] THEN heard \ {d}
                 ELSE IF d \in DOMAIN watch /\ stream # "swept"
                      THEN heard \union {d} ELSE heard)
    /\ UNCHANGED <<space, posted, session, ledgers, watch, taskVars,
                   stream, minted, withdrawn>>

\* Mutant of Swept: only the messages somebody dismissed.
SweptDismissals == {d \in DOMAIN watch : "down" \in thumbs[d]}

Swept == {d \in DOMAIN watch : thumbs[d] # {}}

\* The tracked messages are re-read, then handled one by one, and only then the
\* stream is opened.
Sweep ==
    /\ stage["serve"] = "idle" /\ stream \in {"catchup", "down"}
    /\ \E order \in [1..Cardinality(Swept) -> Swept] :
          /\ Range(order) = Swept
          /\ frames' = [i \in DOMAIN order |-> <<order[i], thumbs[order[i]]>>]
    /\ stream' = "swept"
    /\ UNCHANGED <<space, thumbs, posted, session, ledgers, watch,
                   taskVars, left, historyVars>>

Open ==
    /\ stage["serve"] = "idle" /\ stream = "swept" /\ frames = <<>>
    /\ stream' = "open"
    /\ UNCHANGED <<space, thumbs, posted, session, ledgers, watch,
                   taskVars, frames, left, historyVars>>

StreamDrop ==
    /\ stream = "open" /\ stage["serve"] = "idle" /\ Spend("drop")
    /\ stream' = "down" /\ frames' = <<>>
    /\ UNCHANGED <<space, thumbs, posted, session, ledgers, watch,
                   taskVars, historyVars>>

\* handle_reaction, up to its wait for the lock: an untracked message, or one
\* that holds no emoji any more, is ignored.
ReactionTaken ==
    /\ stage["serve"] = "idle" /\ frames # <<>>
    /\ LET d == Head(frames)[1]
           emojis == Head(frames)[2] IN
        IF d \in DOMAIN watch /\ emojis # {}
        THEN /\ job' = [draft |-> d, id |-> watch[d], up |-> "up" \in emojis]
             /\ mine' = [mine EXCEPT !["serve"] = session]
             /\ stage' = [stage EXCEPT !["serve"] = "wait"]
        ELSE UNCHANGED <<job, mine, stage>>
    /\ frames' = Tail(frames)
    /\ UNCHANGED <<space, thumbs, posted, session, ledgers, watch, lock,
                   outgoing, stream, left, historyVars>>

Answered == heard' = heard \ {job.draft}
JobDone == job' = NoJob /\ stage' = [stage EXCEPT !["serve"] = "idle"]
Unwatched == watch' = Without(watch, job.draft)

\* "no longer pending": cancelled meanwhile, or another session's.
ReactionStale ==
    /\ stage["serve"] = "wait" /\ lock = "free"
    /\ job.id \notin DOMAIN Pending("serve")
    /\ Unwatched /\ Answered /\ JobDone
    /\ UNCHANGED <<space, thumbs, posted, session, ledgers, lock, mine,
                   outgoing, streamVars, left, minted, approved, withdrawn>>

Dismissed ==
    /\ stage["serve"] = "wait" /\ lock = "free"
    /\ job.id \in DOMAIN Pending("serve") /\ ~job.up
    /\ ledgers' = [ledgers EXCEPT ![mine["serve"]] = Cancelled(@, job.id)]
    /\ withdrawn' = withdrawn \union {Pending("serve")[job.id]}
    /\ Unwatched /\ Answered /\ JobDone
    /\ UNCHANGED <<space, thumbs, posted, session, lock, mine, outgoing,
                   streamVars, left, minted, approved>>

ApplyStarts ==
    /\ stage["serve"] = "wait" /\ lock = "free"
    /\ job.id \in DOMAIN Pending("serve") /\ job.up
    /\ lock' = "serve" /\ stage' = [stage EXCEPT !["serve"] = "apply"]
    /\ UNCHANGED <<space, thumbs, posted, session, ledgers, watch, mine,
                   outgoing, job, streamVars, left, historyVars>>

\* Mutant of Conflicts: the repository does not look for the type.
ConflictsNever(d) == FALSE

\* create_type refuses a type that the registry holds.
Conflicts(d) == d \in NewTypes /\ d \in known

\* What is attached already is left as it is (add_type_properties).
Lands(d) ==
    landings' = (IF d \in NewTypes \/ landings[d] = 0
                 THEN [landings EXCEPT ![d] = @ + 1] ELSE landings)

\* Applied, noted and answered; noting the mutation may flush, and raise.
Applied ==
    /\ stage["serve"] = "apply" /\ ~Conflicts(Pending("serve")[job.id])
    /\ Lands(Pending("serve")[job.id])
    /\ known' = known \union {Pending("serve")[job.id]}
    /\ ledgers' = [ledgers EXCEPT
                     ![mine["serve"]].pending = Without(@, job.id)]
    /\ \/ Unwatched /\ UNCHANGED left
       \/ Spend("net") /\ UNCHANGED watch
    /\ lock' = "free" /\ Answered /\ JobDone
    /\ UNCHANGED <<thumbs, posted, session, mine, outgoing, streamVars,
                   minted, approved, withdrawn>>

\* apply raises: nothing is made, or the answer is lost, or seeding the options
\* fails afterwards.  The proposal and its watch are kept.
ApplyFails ==
    /\ stage["serve"] = "apply"
    /\ LET d == Pending("serve")[job.id] IN
        \/ Conflicts(d) /\ UNCHANGED <<landings, known, left>>
        \/ /\ ~Conflicts(d) /\ Spend("net")
           /\ \/ UNCHANGED <<landings, known>>
              \/ Lands(d) /\ known' \in {known, known \union {d}}
    /\ lock' = "free" /\ Answered /\ JobDone
    /\ UNCHANGED <<thumbs, posted, session, ledgers, watch, mine, outgoing,
                   streamVars, minted, approved, withdrawn>>

Made == {d \in Drafts : landings[d] > 0}

\* A resync re-reads the registry.
Resync ==
    /\ known # Made /\ known' = Made
    /\ UNCHANGED <<landings, thumbs, posted, session, ledgers, watch,
                   taskVars, streamVars, left, historyVars>>

\* The process is killed and started again; the start reads the registry.
Restart ==
    /\ Spend("crash")
    /\ known' = Made
    /\ session' = 0 /\ ledgers' = <<>> /\ watch' = Empty
    /\ lock' = "free" /\ stage' = Idle /\ mine' = [t \in Tasks |-> 0]
    /\ outgoing' = [t \in Tasks |-> Empty] /\ job' = NoJob
    /\ stream' = "boot" /\ frames' = <<>> /\ heard' = {}
    /\ UNCHANGED <<landings, thumbs, posted, minted, approved, withdrawn>>

-----------------------------------------------------------------------------

TurnOf(t) ==
    LoadEnds(t) \/ TurnEnds(t) \/ PostLands(t) \/ Watched(t) \/ Delivered(t)

Reaction ==
    \/ ReactionTaken \/ ReactionStale \/ Dismissed
    \/ ApplyStarts \/ Applied \/ ApplyFails

Environment ==
    \/ \E t \in Tasks :
          TurnStarts(t) \/ Draft(t) \/ ToolCancels(t) \/ TurnRaises(t)
             \/ PostFails(t)
    \/ \E d \in Drafts : HumanReacts(d)
    \/ Note \/ StreamDrop \/ Resync \/ Restart

Next ==
    \/ \E t \in Tasks : TurnOf(t)
    \/ Seed \/ Sweep \/ Open \/ Reaction
    \/ Environment

\* Loads, turns, posts and the stream go on; the lock is granted in the order
\* it is asked for, so a reaction does not wait forever.
Fairness ==
    /\ \A t \in Tasks : WF_vars(TurnOf(t))
    /\ WF_vars(Seed) /\ WF_vars(Sweep) /\ WF_vars(Open) /\ SF_vars(Reaction)

Spec == Init /\ [][Next]_vars /\ Fairness

-----------------------------------------------------------------------------
(* Properties. *)

TypeOK ==
    /\ landings \in [Drafts -> Nat] /\ thumbs \in [Drafts -> SUBSET Emojis]
    /\ known \subseteq Made /\ minted \in 0..MaxDrafts
    /\ posted \subseteq 1..minted
    /\ session = Len(ledgers)
    /\ \A s \in 1..Len(ledgers) :
          /\ Cardinality(DOMAIN ledgers[s].pending) <= MaxPending
          /\ \A id \in DOMAIN ledgers[s].pending :
                id < ledgers[s].next /\ ledgers[s].pending[id] \in 1..minted
          /\ ledgers[s].drafted \subseteq 1..(ledgers[s].next - 1)
    /\ DOMAIN watch \subseteq posted
    /\ lock \in Tasks \union {"free"}
    /\ stage["sched"] \in {"idle", "note", "load", "turn", "post", "posted"}
    /\ stage["serve"] \in {"idle", "seed", "load", "turn", "post", "posted",
                           "wait", "apply"}
    /\ \A t \in Tasks : stage[t] \in {"load", "turn", "apply"} => lock = t
    /\ stream \in {"boot", "catchup", "down", "swept", "open"}
    /\ left \in [Events -> Nat]
    /\ approved \subseteq posted /\ heard \subseteq posted
    /\ withdrawn \subseteq 1..minted

\* A change is made only after a person held a thumb up on the message that
\* shows this very change (ADR 041: every schema write traces to a human's
\* reaction on an exact rendered diff).
AppliedAsShown == \A d \in Drafts : landings[d] > 0 => d \in approved

\* A change that is known to be made is not made again, however often its draft
\* is confirmed after a failure; an extension not even when the answer to the
\* first attempt was lost (ADR 041: a confirmed proposal survives a retry).
\* What the model cancelled or a person dismissed is never made afterwards,
\* although the reaction waits for the turn that cancels it (handle_reaction).
AppliedOnce ==
    [][\A d \in known \union (Made \ NewTypes) \union withdrawn :
          landings'[d] = landings[d]]_vars

\* A thumb up on a watched message is answered, over any stream drop, unless
\* it falls between the sweep and the opening of the stream (_sweep_confirms).
ThumbAnswered == \A d \in Drafts : d \in heard ~> d \notin heard

=============================================================================
