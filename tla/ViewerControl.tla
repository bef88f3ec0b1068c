---------------------------- MODULE ViewerControl ----------------------------
(***************************************************************************)
(* What viewers may do from chat: the campaign to skip the item on air,    *)
(* the poll on what plays next, and requests (chat-interaction.ts,         *)
(* chat-control.ts, chat-viewer-requests.ts, the chat step of the worker's *)
(* cycle).  The handler of the socket goes by what the last cycle has      *)
(* read; the cycle applies what it has collected, write by write, against  *)
(* a row the operator and the playout container write meanwhile.           *)
(***************************************************************************)
EXTENDS Integers, Sequences, FiniteSets, SequencesExt

CONSTANTS
    Programme,     \* the items of the pool on air, in the order of its rotation
    Viewers,
    Offers,        \* what the settings may offer viewers: sets of "skip", "vote" and "request"
    SkipMinimum,   \* skipMinimumVotes
    VoteMinimum,   \* voteMinimumVoters
    RequestLimit,  \* requestQueueLimit
    Nobody,        \* no item
    MaxInputs      \* bound on the chat messages and the operator's presses, by what is offered

ASSUME ViewerAssumption ==
    /\ Programme \in Seq(ToSet(Programme)) /\ Len(Programme) > 1 /\ IsInjective(Programme)
    /\ {Nobody, "none", "operator"} \cap ToSet(Programme) = {}
    /\ Offers \subseteq SUBSET {"skip", "vote", "request"}
    /\ SkipMinimum \in Nat \ {0, 1} /\ {VoteMinimum, RequestLimit} \subseteq Nat \ {0}
    /\ MaxInputs \in [Offers -> Nat]

VARIABLES
    chatOn,    \* chat_interaction_settings.enabled
    offered,   \* votingEnabled, requestsEnabled, skipEnabled
    onRow,     \* playout_runtime, as far as chat goes
    known,     \* latestPlayoutAssetId, latestOperatorHold, latestChatInteractionConfig
    campaign,  \* skipState
    effects,   \* pendingChatEffects
    session,   \* the poll
    lastVoted, \* lastVotedAssetId
    requests,  \* chat_viewer_requests: those queued or inside the cooldown
    chatStep,  \* the chat step of the worker's cycle: what it has read and still has to do
    inputs     \* bound

viewerVars == <<chatOn, offered, onRow, known, campaign, effects, session, lastVoted, requests,
                chatStep, inputs>>

PoolItems == ToSet(Programme)
NoCampaign == [item |-> Nobody, voters |-> {}, fresh |-> FALSE]
NoPoll == [status |-> "closed", options |-> <<>>, ballots |-> <<>>, due |-> FALSE, winner |-> Nobody]
Asleep == [step |-> "idle"]
NothingKnown == [item |-> Nobody, hold |-> FALSE, enabled |-> FALSE]

\* resolveOperatorHold: a Pin, a Fallback or an insert of Play now.
Holds(row) == row.held # Nobody

ViewerTypeOK ==
    /\ chatOn \in BOOLEAN /\ offered \in Offers
    /\ onRow.item \in PoolItems /\ onRow.cursor \in PoolItems /\ onRow.queue \in Seq(PoolItems)
    /\ {onRow.held, onRow.skip} \subseteq PoolItems \cup {Nobody}
    /\ onRow.restart \in {"none", "operator"} \cup PoolItems
    /\ campaign.voters \subseteq Viewers /\ campaign.item \in PoolItems \cup {Nobody}
    /\ session.status \in {"open", "closed"} /\ DOMAIN session.ballots \subseteq Viewers
    /\ requests \subseteq [actor : Viewers, item : PoolItems, queued : BOOLEAN, recent : BOOLEAN]
    /\ chatStep.step \in {"idle", "promote", "apply", "record"}

\* The queue s but for x: what is k-th in it has k entries up to it that stay.
Without(s, x) ==
    LET kept == {i \in DOMAIN s : s[i] # x}
    IN  [k \in 1..Cardinality(kept) |->
            s[CHOOSE i \in kept : Cardinality({j \in kept : j <= i}) = k]]

\* The pool's next item after x, and the rest of its queue; what a skip holds out is passed over.
AfterInPool(x, skip) ==
    LET at == CHOOSE i \in DOMAIN Programme : Programme[i] = x
        n == Len(Programme)
        round == [i \in 1..n |-> Programme[((at + i - 1) % n) + 1]]
    IN  Without(round, skip)

PoolQueue(x, cursor, skip) == Without(AfterInPool(cursor, skip), x)

\* onRow.restart is an open restart flag, with what it was set for: "none", "operator", or the item voted off.
ViewerInit ==
    LET first == Programme[1]
    IN  /\ chatOn = TRUE /\ offered \in Offers
        /\ onRow = [item |-> first, held |-> Nobody, skip |-> Nobody, restart |-> "none",
                    cursor |-> first, queue |-> PoolQueue(first, first, Nobody)]
        /\ known = NothingKnown /\ campaign = NoCampaign /\ effects = <<>> /\ session = NoPoll
        /\ lastVoted = Nobody /\ requests = {} /\ chatStep = Asleep
        /\ inputs = 0

-----------------------------------------------------------------------------
(* The socket: synchronous, on what the last cycle has read.               *)

Press == inputs < MaxInputs[offered] /\ inputs' = inputs + 1

\* A command the settings do not offer is no command (parseChatCommand).
Command(kind) == known.enabled /\ kind \in offered /\ Press

\* applySkipVote: a tally belongs to one item and one window.
TallyBefore ==
    IF campaign.fresh /\ campaign.item = known.item THEN campaign.voters ELSE {}

\* handleMessage; the threshold is a share of the chatters active now.
VoteToSkip(v) ==
    /\ Command("skip") /\ ~known.hold /\ known.item # Nobody /\ v \notin TallyBefore
    /\ campaign' = [item |-> known.item, voters |-> TallyBefore \cup {v}, fresh |-> TRUE]
    /\ \E votesNeeded \in SkipMinimum..Cardinality(Viewers) :
          effects' = IF Cardinality(campaign'.voters) >= votesNeeded
                     THEN Append(effects, [kind |-> "skip-passed", item |-> known.item]) ELSE effects
    /\ UNCHANGED <<chatOn, offered, onRow, known, session, lastVoted, requests, chatStep>>

\* applyVote: a later ballot replaces the viewer's earlier one.
VoteNext(v, option) ==
    /\ Command("vote") /\ session.status = "open" /\ ~session.due
    /\ v \in DOMAIN session.ballots => session.ballots[v] # option
    /\ session' = [session EXCEPT !.ballots =
          [w \in DOMAIN session.ballots \cup {v} |-> IF w = v THEN option ELSE session.ballots[w]]]
    /\ UNCHANGED <<chatOn, offered, onRow, known, campaign, effects, lastVoted, requests, chatStep>>

\* A request that matches no title is answered and no more.
Ask(v, item) ==
    /\ Command("request")
    /\ effects' = Append(effects, [kind |-> "request", item |-> item, actor |-> v])
    /\ UNCHANGED <<chatOn, offered, onRow, known, campaign, session, lastVoted, requests, chatStep>>

-----------------------------------------------------------------------------
(* The chat step of the worker's cycle.                                    *)

VotesFor(i) == Cardinality({v \in DOMAIN session.ballots : session.ballots[v] = i})

\* closeVoteSession: enough voters and one leader, or no decision.
Winner ==
    LET leaders == {i \in DOMAIN session.options :
                        \A j \in DOMAIN session.options : VotesFor(j) <= VotesFor(i)}
    IN  IF Cardinality(DOMAIN session.ballots) >= VoteMinimum /\ Cardinality(leaders) = 1
        THEN session.options[CHOOSE i \in leaders : TRUE] ELSE Nobody

Settles == session.status = "open" /\ session.due

\* What the socket goes by from now on; a campaign ends with its item and under a hold.
\* drainChatEffects takes all effects at once.
Applying(item, hold, queue) ==
    /\ known' = [item |-> item, hold |-> hold, enabled |-> TRUE]
    /\ campaign' = IF campaign.item # item \/ hold THEN NoCampaign ELSE campaign
    /\ chatStep' = [step |-> "apply", queue |-> queue, todo |-> effects, accepted |-> <<>>]
    /\ effects' = <<>>

\* The settings and the row are read.  With viewer control off the campaign ends; the poll stays
\* in memory as it is.  A poll past its deadline is closed.
StepReads ==
    /\ chatStep = Asleep
    /\ IF ~chatOn
       THEN /\ known' = [known EXCEPT !.enabled = FALSE] /\ campaign' = NoCampaign
            /\ UNCHANGED <<effects, session, chatStep>>
       ELSE /\ session' = IF Settles THEN [NoPoll EXCEPT !.winner = Winner] ELSE session
            /\ IF Settles /\ Winner # Nobody
               THEN /\ chatStep' = [step |-> "promote", item |-> onRow.item, hold |-> Holds(onRow), queue |-> onRow.queue]
                    /\ known' = [known EXCEPT !.enabled = TRUE]
                    /\ UNCHANGED <<campaign, effects>>
               ELSE Applying(onRow.item, Holds(onRow), onRow.queue)
    /\ UNCHANGED <<chatOn, offered, onRow, lastVoted, requests, inputs>>

\* The winner first, and the queue the cycle has read behind it.
PromoteWinner ==
    /\ chatStep.step = "promote"
    /\ onRow' = [onRow EXCEPT !.queue = <<session.winner>> \o Without(chatStep.queue, session.winner)]
    /\ Applying(chatStep.item, chatStep.hold, chatStep.queue)
    /\ UNCHANGED <<chatOn, offered, session, lastVoted, requests, inputs>>

\* Mutant: judged by the hold alone (before M79).
MayCutWhenFree(row, item) == ~Holds(row)

\* decidePassedSkipVote, on the row as it is now: "apply".
MayCut(row, item) == ~Holds(row) /\ row.item = item /\ row.skip # item

ApplySkip ==
    /\ chatStep.step = "apply" /\ chatStep.todo # <<>> /\ Head(chatStep.todo).kind = "skip-passed"
    /\ LET item == Head(chatStep.todo).item
       IN  onRow' = IF MayCut(onRow, item) THEN [onRow EXCEPT !.restart = item, !.skip = item] ELSE onRow
    /\ campaign' = NoCampaign
    /\ chatStep' = [chatStep EXCEPT !.todo = Tail(@)]
    /\ UNCHANGED <<chatOn, offered, known, effects, session, lastVoted, requests, inputs>>

\* Mutant: the snapshot alone (finding 5 of the codebase review).
SnapshotView(read, accepted) == ToSet(read)

\* ChatViewerRequestPass.queueView
QueueView(read, accepted) == ToSet(read) \cup ToSet(accepted)

\* markChatViewerRequestsPlayed: what has left the queue.  Rows nothing reads any more are left out.
Marked(rows, view) ==
    {r \in {[q EXCEPT !.queued = q.queued /\ q.item \in view] : q \in rows} : r.queued \/ r.recent}

\* evaluateViewerRequest
Accepts(rows, view, wish) ==
    /\ Cardinality({r \in rows : r.queued /\ r.item \in view}) < RequestLimit
    /\ ~\E r \in rows : r.actor = wish.actor /\ r.recent
    /\ wish.item \notin view

\* The queue first, the history in a statement of its own.
DecideRequest ==
    /\ chatStep.step = "apply" /\ chatStep.todo # <<>> /\ Head(chatStep.todo).kind = "request"
    /\ LET wish == Head(chatStep.todo)
           view == QueueView(chatStep.queue, chatStep.accepted)
       IN  /\ requests' = Marked(requests, view)
           /\ IF Accepts(requests', view, wish)
              THEN /\ onRow' = [onRow EXCEPT !.queue = Append(@, wish.item)]
                   /\ chatStep' = [chatStep EXCEPT !.step = "record", !.accepted = Append(@, wish.item)]
              ELSE chatStep' = [chatStep EXCEPT !.todo = Tail(@)] /\ UNCHANGED onRow
    /\ UNCHANGED <<chatOn, offered, known, campaign, effects, session, lastVoted, inputs>>

RecordRequest ==
    /\ chatStep.step = "record"
    /\ LET wish == Head(chatStep.todo)
       IN  requests' = requests \cup {[actor |-> wish.actor, item |-> wish.item, queued |-> TRUE, recent |-> TRUE]}
    /\ chatStep' = [chatStep EXCEPT !.step = "apply", !.todo = Tail(@)]
    /\ UNCHANGED <<chatOn, offered, onRow, known, campaign, effects, session, lastVoted, inputs>>

\* One poll per item, of the first two of the queue the cycle has read.
OpenPoll ==
    /\ chatStep.step = "apply" /\ chatStep.todo = <<>>
    /\ IF "vote" \in offered /\ known.item # lastVoted /\ session.status # "open" /\ Len(chatStep.queue) > 1
       THEN /\ session' = [NoPoll EXCEPT !.status = "open", !.options = SubSeq(chatStep.queue, 1, 2)]
            /\ lastVoted' = known.item
       ELSE UNCHANGED <<session, lastVoted>>
    /\ chatStep' = Asleep
    /\ UNCHANGED <<chatOn, offered, onRow, known, campaign, effects, requests, inputs>>

\* A write of the step is refused: the effects it had taken are gone.
StepFails ==
    /\ chatStep.step \in {"promote", "apply", "record"}
    /\ chatStep.step = "apply" => chatStep.todo # <<>>
    /\ chatStep' = Asleep
    /\ UNCHANGED <<chatOn, offered, onRow, known, campaign, effects, session, lastVoted, requests, inputs>>

\* Everything but the rows was in memory.
ChatRestarts ==
    /\ known' = NothingKnown /\ campaign' = NoCampaign /\ effects' = <<>> /\ session' = NoPoll
    /\ lastVoted' = Nobody /\ chatStep' = Asleep
    /\ UNCHANGED <<chatOn, offered, onRow, requests, inputs>>

-----------------------------------------------------------------------------
(* The other writers of the row.                                           *)

\* A cycle of the playout container: a hold takes the air, a restart or the item's end moves on by
\* the pool's rotation, and the queue is written anew from the pool.
PlayoutCycle ==
    /\ \E ended \in BOOLEAN :
          LET moves == ended \/ onRow.restart # "none"
              next == IF Holds(onRow) THEN onRow.held
                      ELSE IF moves \/ onRow.item = onRow.skip THEN AfterInPool(onRow.cursor, onRow.skip)[1]
                      ELSE onRow.item
              cursor == IF ~Holds(onRow) /\ (moves \/ next # onRow.item) THEN next ELSE onRow.cursor
          IN  onRow' = [onRow EXCEPT !.item = next, !.cursor = cursor, !.restart = "none",
                                     !.queue = PoolQueue(next, cursor, onRow.skip)]
    /\ UNCHANGED <<chatOn, offered, known, campaign, effects, session, lastVoted, requests, chatStep, inputs>>

\* Pin, Fallback and Play now; an item taken is no longer held out.
OperatorTakes(item) ==
    /\ Press /\ onRow' = [onRow EXCEPT !.held = item, !.skip = IF @ = item THEN Nobody ELSE @]
    /\ UNCHANGED <<chatOn, offered, known, campaign, effects, session, lastVoted, requests, chatStep>>

\* Skip ends a hold and keeps the item on air out for a while.
OperatorSkips ==
    /\ Press /\ onRow' = [onRow EXCEPT !.held = Nobody, !.skip = onRow.item, !.restart = "operator"]
    /\ UNCHANGED <<chatOn, offered, known, campaign, effects, session, lastVoted, requests, chatStep>>

SwitchesOff ==
    /\ Press /\ chatOn /\ chatOn' = FALSE
    /\ UNCHANGED <<offered, onRow, known, campaign, effects, session, lastVoted, requests, chatStep>>

\* What undoes a press is not counted: Release (or the end of an insert), and on again.
HoldEnds ==
    /\ Holds(onRow) /\ onRow' = [onRow EXCEPT !.held = Nobody]
    /\ UNCHANGED <<chatOn, offered, known, campaign, effects, session, lastVoted, requests, chatStep, inputs>>

SwitchesOn ==
    /\ ~chatOn /\ chatOn' = TRUE
    /\ UNCHANGED <<offered, onRow, known, campaign, effects, session, lastVoted, requests, chatStep, inputs>>

\* Windows, deadlines, cooldowns and the hour a skip holds for.
ViewerTime ==
    /\ \/ campaign.fresh /\ campaign' = [campaign EXCEPT !.fresh = FALSE] /\ UNCHANGED <<session, requests, onRow>>
       \/ session.status = "open" /\ session' = [session EXCEPT !.due = TRUE] /\ UNCHANGED <<campaign, requests, onRow>>
       \/ /\ \E r \in requests : r.recent
             /\ requests' = (requests \ {r}) \cup {q \in {[r EXCEPT !.recent = FALSE]} : q.queued}
          /\ UNCHANGED <<campaign, session, onRow>>
       \/ /\ onRow.skip # Nobody /\ onRow.restart = "none" /\ onRow.item # onRow.skip
          /\ onRow' = [onRow EXCEPT !.skip = Nobody] /\ UNCHANGED <<campaign, session, requests>>
    /\ UNCHANGED <<chatOn, offered, known, effects, lastVoted, chatStep, inputs>>

ViewerNext ==
    \/ \E v \in Viewers : VoteToSkip(v) \/ VoteNext(v, 1) \/ VoteNext(v, 2) \/ \E x \in PoolItems : Ask(v, x)
    \/ StepReads \/ PromoteWinner \/ ApplySkip \/ DecideRequest \/ RecordRequest \/ OpenPoll
    \/ StepFails \/ ChatRestarts
    \/ PlayoutCycle
    \/ \E x \in PoolItems : OperatorTakes(x)
    \/ OperatorSkips \/ SwitchesOff \/ HoldEnds \/ SwitchesOn
    \/ ViewerTime

ViewerSpec == ViewerInit /\ [][ViewerNext]_viewerVars

-----------------------------------------------------------------------------
(* Properties *)

\* The room takes off the air only what it has voted on.  A vote is carried out by the playout's
\* cycle, some time after the worker's cycle has applied it and longer after it was cast: the item
\* cut is the one voted on, the vote was applied neither under the operator's Pin, Fallback or Play
\* now nor to an item somebody has taken off already (core decidePassedSkipVote).
VotesCutTheirItem ==
    [][/\ onRow.restart \in PoolItems /\ onRow'.restart = "none" => onRow.item = onRow.restart
       /\ onRow'.restart \in PoolItems /\ onRow'.restart # onRow.restart =>
              ~Holds(onRow) /\ onRow.skip # onRow'.restart]_onRow

\* Requests stay within what the operator allows, however many come between two cycles and
\* whatever becomes of the queue meanwhile: no pass queues more than the limit or one item twice,
\* and of the requests recorded as waiting there are never more than the limit, none for the same
\* item, and within the cooldown none of the same viewer (ChatViewerRequestPass,
\* evaluateViewerRequest, markChatViewerRequestsPlayed).
RequestsAreRationed ==
    /\ chatStep.step \in {"apply", "record"} =>
           Len(chatStep.accepted) <= RequestLimit /\ IsInjective(chatStep.accepted)
    /\ Cardinality({r \in requests : r.queued}) <= RequestLimit
    /\ \A r, q \in requests : r # q => /\ r.queued /\ q.queued => r.item # q.item
                                       /\ r.recent /\ q.recent => r.actor # q.actor

\* "Vote on what plays next": once a poll is decided and its winner promoted, the winner follows
\* the item the poll was opened for, unless the operator has stepped in (chat-interaction.ts,
\* reconcileChatInteraction).
WinnerPlaysNext ==
    [][onRow'.item # onRow.item /\ onRow.item = lastVoted /\ ~Holds(onRow) /\ onRow.restart = "none"
       /\ session.winner \notin {Nobody, onRow.skip} /\ chatStep.step # "promote"
           => onRow'.item = session.winner]_onRow
=============================================================================
