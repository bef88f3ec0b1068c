------------------------------ MODULE MCUpkeep ------------------------------
(***************************************************************************)
(* What the containers keep up beside the programme, in one run: the chat  *)
(* on air, the worker's monitors, the archives' downloads, the pace of the *)
(* playout's loop.  A behaviour runs one of them; they share no variable.  *)
(***************************************************************************)
EXTENDS ChatFeed, Monitors, VodCache, LoopPacing

VARIABLE focus

\* What is not looked at starts in one way.
Init == /\ focus \in {"chat", "monitors", "vods", "pace"}
        /\ FeedInit /\ MonitorsInit /\ VodInit /\ PaceInit
        /\ focus # "vods" => large = {}

vars == <<focus, feedVars, monitorVars, vodVars, paceVars>>

InChat(step)  == focus = "chat" /\ step /\ UNCHANGED <<focus, monitorVars, vodVars, paceVars>>
OnWatch(step) == focus = "monitors" /\ step /\ UNCHANGED <<focus, feedVars, vodVars, paceVars>>
OnVods(step)  == focus = "vods" /\ step /\ UNCHANGED <<focus, feedVars, monitorVars, paceVars>>
InPace(step)  == focus = "pace" /\ step /\ UNCHANGED <<focus, feedVars, monitorVars, vodVars>>

Next == InChat(FeedNext) \/ OnWatch(MonitorsNext) \/ OnVods(VodNext) \/ InPace(PaceNext)

\* FeedFairness, MonitorsFairness, VodFairness and PaceFairness, of the part looked at.  (No line
\* comes to the writer while another part is looked at.)
Fairness ==
    /\ WF_feedVars(focus = "chat" /\ FeedCycle) /\ WF_feedVars(focus = "chat" /\ TimerFlushes)
    /\ WF_feedVars(focus = "chat" /\ FlushCommits)
    /\ WF_monitorVars(focus = "monitors" /\ MonitorStep)
    /\ WF_monitorVars(focus = "monitors" /\ DatabaseReturns)
    /\ WF_vodVars(focus = "vods" /\ (LookUp \/ LookedUp)) /\ WF_vodVars(focus = "vods" /\ JobStep)
    /\ WF_vodVars(focus = "vods" /\ VodTime)
    /\ PaceFairness

Spec == Init /\ [][Next]_vars /\ Fairness

\* The types of the part looked at.
TypesOK == /\ focus = "chat" => FeedTypeOK
           /\ focus = "monitors" => MonitorsTypeOK
           /\ focus = "vods" => VodTypeOK
           /\ focus = "pace" => PaceTypeOK
=============================================================================
