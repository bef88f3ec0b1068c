------------------------------ MODULE ChatFeed ------------------------------
(***************************************************************************)
(* The chat on air: the worker's IRC connection (TwitchChatBridge), its    *)
(* ring of messages, and the flushes that mirror the ring into the row the *)
(* playout draws.  A change of the ring starts a timer, the timer flushes; *)
(* the chat step of the cycle flushes too.  A flush whose record equals    *)
(* the last one written writes nothing.                                    *)
(*                                                                         *)
(* Left out: the commands in a line (see ViewerControl), the bot's own     *)
(* lines, the display limiter, and the playout's five-minute age limit,    *)
(* which only hides more of the row.                                       *)
(***************************************************************************)
EXTENDS Integers, FiniteSets, SequencesExt

CONSTANTS Lines,       \* the messages of a behaviour, in the order they are said
          Ring,        \* the ring's capacity, 50 in the code
          Stored,      \* CHAT_OVERLAY_MESSAGES_STORED_MAX
          MaxFaults    \* bound: switches, tokens, lost connections, restarts, refused writes

ASSUME ChatFeedAssumption ==
    /\ Lines \subseteq Nat /\ {Ring, Stored} \subseteq Nat \ {0} /\ MaxFaults \in Nat

VARIABLES chat,    \* Postgres: the chat panel, the other consumers, the token and whether Twitch takes it
          panel,   \* chat_overlay_messages
          alarm,   \* is twitch.chat.login-rejected open?
          bridge,  \* the bridge: socket, phase, refused token, ring
          flusher, \* the flushes: settings known, timer, writes under way, key of the last one
          chatAt,  \* the cycle's chat step and the settings it read
          deleted, \* history: the lines a moderator deleted while the bridge was listening
          missed,  \* history: those deleted while it was not
          spent    \* how many of these there were

feedVars == <<chat, panel, alarm, bridge, flusher, chatAt, deleted, missed, spent>>

Phases == {"idle", "connecting", "connected", "login-rejected", "waiting"}
Sockets == {"none", "opening", "joined", "dead"}
Blank == [enabled |-> FALSE, lines |-> <<>>]

\* Two lines in a row are of one login.
LoginOf(line) == (line + 1) \div 2

NewBridge == [socket |-> "none", closing |-> FALSE, phase |-> "idle", using |-> 0, refused |-> 0, ring |-> <<>>]
NewFlusher == [rail |-> "unread", timer |-> FALSE, writes |-> <<>>, key |-> <<>>]
AtNone == [at |-> "idle", rail |-> FALSE, token |-> 0]

FeedInit ==
    /\ chat = [rail |-> TRUE, others |-> FALSE, token |-> 1, good |-> TRUE]
    /\ panel = Blank /\ alarm = FALSE
    /\ bridge = NewBridge /\ flusher = NewFlusher /\ chatAt = AtNone
    /\ deleted = {} /\ missed = {} /\ spent = 0

Panels == [enabled : BOOLEAN, lines : Seq(Lines)]
FeedTypeOK ==
    /\ chat \in [rail : BOOLEAN, others : BOOLEAN, token : Nat, good : BOOLEAN]
    /\ panel \in Panels /\ alarm \in BOOLEAN
    /\ bridge \in [socket : Sockets, closing : BOOLEAN, phase : Phases, using : Nat,
                   refused : Nat, ring : Seq(Lines)]
    /\ flusher.rail \in {"unread", "on", "off"} /\ flusher.timer \in BOOLEAN
    /\ \A i \in 1..Len(flusher.writes) : flusher.writes[i].record \in Panels
    /\ chatAt.at \in {"idle", "sync", "flush", "writing"}
    /\ deleted \cup missed \subseteq Lines /\ spent \in Nat

Spends == spent < MaxFaults /\ spent' = spent + 1
Listening == bridge.socket = "joined"

\* onConnectionPhaseChanged: a refusal opens the incident, a login or the switch closes it,
\* and a phase that stays says nothing.
AlarmAfter(phase) ==
    IF bridge.phase = phase THEN alarm
    ELSE IF phase = "login-rejected" THEN TRUE
    ELSE IF phase \in {"connected", "idle"} THEN FALSE ELSE alarm

\* disconnect: a live socket's close event is still to come, the ring is emptied.
Disconnected == [bridge EXCEPT !.socket = "none", !.ring = <<>>,
                               !.closing = @ \/ bridge.socket \in {"opening", "joined"}]

---------------------------------------------------------------------------
(* The flushes *)

LastOf(lines, n) == SubSeq(lines, 1 + (IF Len(lines) > n THEN Len(lines) - n ELSE 0), Len(lines))

\* flushChatOverlayMessages: the whole ring is compared, its last lines are stored.
Flushed(by) ==
    LET on == flusher.rail = "on"
        record == [enabled |-> on, lines |-> IF on THEN bridge.ring ELSE <<>>]
    IN  IF flusher.key = <<record>> THEN flusher.writes
        ELSE Append(flusher.writes, [record |-> record, by |-> by])

ChangesReachTimer == [flusher EXCEPT !.timer = TRUE]

TimerFlushes ==
    /\ flusher.timer
    /\ flusher' = [flusher EXCEPT !.timer = FALSE,
                                  !.writes = IF flusher.rail = "unread" THEN @ ELSE Flushed("timer")]
    /\ UNCHANGED <<chat, panel, alarm, bridge, chatAt, deleted, missed, spent>>

\* Mutant: the key is set whether or not the write is made.
KeyBeforeWrite(made) ==
    /\ flusher.writes # <<>>
    /\ LET w == Head(flusher.writes)
       IN  /\ flusher' = [flusher EXCEPT !.writes = Tail(@), !.key = <<w.record>>]
           /\ panel' = IF made THEN [w.record EXCEPT !.lines = LastOf(@, Stored)] ELSE panel
           /\ chatAt' = IF w.by = "cycle" THEN AtNone ELSE chatAt
    /\ UNCHANGED <<chat, alarm, bridge, deleted, missed>>

\* The process's writes are made in the order they were asked for; the key follows the write.
WriteAnswered(made) ==
    /\ flusher.writes # <<>>
    /\ LET w == Head(flusher.writes)
       IN  /\ flusher' = [flusher EXCEPT !.writes = Tail(@), !.key = IF made THEN <<w.record>> ELSE @]
           /\ panel' = IF made THEN [w.record EXCEPT !.lines = LastOf(@, Stored)] ELSE panel
           /\ chatAt' = IF w.by = "cycle" THEN AtNone ELSE chatAt
    /\ UNCHANGED <<chat, alarm, bridge, deleted, missed>>

FlushCommits == WriteAnswered(TRUE) /\ UNCHANGED spent
FlushIsRefused == WriteAnswered(FALSE) /\ Spends

---------------------------------------------------------------------------
(* The cycle's chat step *)

ReadForChat ==
    /\ chatAt.at = "idle"
    /\ chatAt' = [at |-> "sync", rail |-> chat.rail, token |-> chat.token]
    /\ flusher' = [flusher EXCEPT !.rail = IF chat.rail THEN "on" ELSE "off"]
    /\ UNCHANGED <<chat, panel, alarm, bridge, deleted, missed, spent>>

\* isChatBridgeRuntimeNeeded: the other consumers are read again.
Needed == chatAt.rail \/ chat.others

SwitchesOff ==
    /\ ~Needed
    /\ bridge' = [Disconnected EXCEPT !.phase = "idle", !.refused = 0]
    /\ alarm' = AlarmAfter("idle") /\ flusher' = ChangesReachTimer

KeepsConnection ==
    /\ Needed /\ bridge.socket \in {"opening", "joined"}
    /\ UNCHANGED <<bridge, alarm, flusher>>

\* isLoginCoolingDown: this token was refused within the last five minutes.
CoolsDown == bridge.refused = chatAt.token

WaitsForCooldown ==
    /\ Needed /\ bridge.socket \in {"none", "dead"} /\ CoolsDown
    /\ bridge' = [bridge EXCEPT !.phase = "login-rejected"]
    /\ alarm' = AlarmAfter("login-rejected") /\ UNCHANGED flusher

Reconnects ==
    /\ Needed /\ bridge.socket \in {"none", "dead"} /\ ~CoolsDown
    /\ bridge' = [Disconnected EXCEPT !.socket = "opening", !.phase = "connecting", !.using = chatAt.token]
    /\ alarm' = AlarmAfter("connecting") /\ flusher' = ChangesReachTimer

Sync ==
    /\ chatAt.at = "sync" /\ chatAt' = [chatAt EXCEPT !.at = "flush"]
    /\ SwitchesOff \/ KeepsConnection \/ WaitsForCooldown \/ Reconnects
    /\ UNCHANGED <<chat, panel, deleted, missed, spent>>

CycleFlushes ==
    /\ chatAt.at = "flush"
    /\ flusher' = [flusher EXCEPT !.writes = Flushed("cycle")]
    /\ chatAt' = IF flusher'.writes = flusher.writes THEN AtNone ELSE [chatAt EXCEPT !.at = "writing"]
    /\ UNCHANGED <<chat, panel, alarm, bridge, deleted, missed, spent>>

---------------------------------------------------------------------------
(* The connection *)

LoginAccepted ==
    /\ bridge.socket = "opening" /\ (bridge.using = chat.token => chat.good)
    /\ bridge' = [bridge EXCEPT !.socket = "joined", !.phase = "connected", !.refused = 0]
    /\ alarm' = AlarmAfter("connected")
    /\ UNCHANGED <<chat, panel, flusher, chatAt, deleted, missed, spent>>

LoginRefused ==
    /\ bridge.socket = "opening" /\ (bridge.using = chat.token => ~chat.good)
    /\ bridge' = [bridge EXCEPT !.socket = "dead", !.closing = TRUE,
                                !.phase = "login-rejected", !.refused = bridge.using]
    /\ alarm' = AlarmAfter("login-rejected")
    /\ UNCHANGED <<chat, panel, flusher, chatAt, deleted, missed, spent>>

\* Twitch, the network or the idle timeout ends it.
ConnectionEnds ==
    /\ bridge.socket \in {"opening", "joined"} /\ Spends
    /\ bridge' = [bridge EXCEPT !.socket = "dead", !.closing = TRUE]
    /\ UNCHANGED <<chat, panel, alarm, flusher, chatAt, deleted, missed>>

\* noteDisconnected, in the name of whichever socket ended: it does not look which.
CloseIsNoted ==
    /\ bridge.closing
    /\ bridge' = [bridge EXCEPT !.closing = FALSE,
                                !.phase = IF @ = "login-rejected" THEN @ ELSE "waiting"]
    /\ UNCHANGED <<chat, panel, alarm, flusher, chatAt, deleted, missed, spent>>

CooldownEnds ==
    /\ bridge.refused # 0 /\ bridge' = [bridge EXCEPT !.refused = 0]
    /\ UNCHANGED <<chat, panel, alarm, flusher, chatAt, deleted, missed, spent>>

---------------------------------------------------------------------------
(* The room *)

SaidSoFar == ToSet(bridge.ring) \cup ToSet(panel.lines) \cup deleted \cup missed

Say(line) ==
    /\ Listening /\ \A l \in SaidSoFar : l < line
    /\ bridge' = [bridge EXCEPT !.ring = LastOf(Append(@, line), Ring)]
    /\ flusher' = ChangesReachTimer
    /\ UNCHANGED <<chat, panel, alarm, chatAt, deleted, missed, spent>>

\* A moderator deletes one line, a login's lines or all of them.
Cleared == {{l} : l \in SaidSoFar} \cup {{k \in SaidSoFar : LoginOf(k) = LoginOf(l)} : l \in SaidSoFar}
               \cup {SaidSoFar}

\* The ring without the lines: what is k-th in it has k entries up to it that stay.
LeftAfter(lines) ==
    LET kept == {i \in DOMAIN bridge.ring : bridge.ring[i] \notin lines}
    IN  [k \in 1..Cardinality(kept) |->
            bridge.ring[CHOOSE i \in kept : Cardinality({j \in kept : j <= i}) = k]]

Moderate(lines) ==
    /\ Listening /\ ~(lines \subseteq deleted)
    /\ bridge' = [bridge EXCEPT !.ring = LeftAfter(lines)]
    /\ flusher' = IF bridge'.ring # bridge.ring THEN ChangesReachTimer ELSE flusher
    /\ deleted' = deleted \cup lines
    /\ UNCHANGED <<chat, panel, alarm, chatAt, missed, spent>>

\* Between two connections nobody tells the bridge.
ModerateUnheard(lines) ==
    /\ ~Listening /\ ~(lines \subseteq deleted \cup missed)
    /\ missed' = missed \cup (lines \ deleted)
    /\ UNCHANGED <<chat, panel, alarm, bridge, flusher, chatAt, deleted, spent>>

---------------------------------------------------------------------------
(* The operator and the process *)

SwitchPanel(on) ==
    /\ chat.rail # on /\ Spends /\ chat' = [chat EXCEPT !.rail = on]
    /\ UNCHANGED <<panel, alarm, bridge, flusher, chatAt, deleted, missed>>

SwitchOthers(on) ==
    /\ chat.others # on /\ Spends /\ chat' = [chat EXCEPT !.others = on]
    /\ UNCHANGED <<panel, alarm, bridge, flusher, chatAt, deleted, missed>>

\* The account is connected again, with or without chat access.
NewToken(good) ==
    /\ Spends /\ chat' = [chat EXCEPT !.token = @ + 1, !.good = good]
    /\ UNCHANGED <<panel, alarm, bridge, flusher, chatAt, deleted, missed>>

\* A write under way may still be made, or not.
FeedRestarts ==
    /\ Spends
    /\ \/ panel' = panel
       \/ /\ flusher.writes # <<>>
          /\ panel' = [Head(flusher.writes).record EXCEPT !.lines = LastOf(@, Stored)]
    /\ bridge' = NewBridge /\ flusher' = NewFlusher /\ chatAt' = AtNone
    /\ UNCHANGED <<chat, alarm, deleted, missed>>

FeedCycle == ReadForChat \/ Sync \/ CycleFlushes

FeedNext ==
    \/ FeedCycle \/ TimerFlushes \/ FlushCommits \/ FlushIsRefused
    \/ LoginAccepted \/ LoginRefused \/ ConnectionEnds \/ CloseIsNoted \/ CooldownEnds
    \/ \E line \in Lines : Say(line)
    \/ \E lines \in Cleared : Moderate(lines) \/ ModerateUnheard(lines)
    \/ \E on \in BOOLEAN : SwitchPanel(on) \/ SwitchOthers(on) \/ NewToken(on)
    \/ FeedRestarts

\* The worker's loop runs on, its timer fires, the database answers.
FeedFairness == WF_feedVars(FeedCycle) /\ WF_feedVars(TimerFlushes) /\ WF_feedVars(FlushCommits)

---------------------------------------------------------------------------

OnPanel == ToSet(panel.lines)

\* What a moderator has deleted, heard or not, leaves the broadcast, and so does the panel that
\* is switched off: neither a refused write, nor a lost connection, nor a restart keeps it there.
\* (What the viewers, moderators and operators do is bounded: it ends, and then stays so.)
ChatLeavesTheAir == <>[](/\ OnPanel \cap (deleted \cup missed) = {}
                         /\ panel.enabled => chat.rail)

\* "a deleted message must leave the broadcast in about a second, not in up to thirty": once the
\* timer's flush is through, nothing deleted is left for the next cycle to take off.
DeletedLeaveWithTheTimer ==
    flusher.timer \/ flusher.writes # <<>> \/ flusher.rail = "unread" \/ deleted \cap OnPanel = {}

\* "clears a refusal when chat is switched off, so the incident cannot outlive it".
RefusalEndsWithChat == ~(chat.rail \/ chat.others) ~> (~alarm \/ chat.rail \/ chat.others)
=============================================================================
