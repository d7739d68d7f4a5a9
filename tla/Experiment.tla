----------------------------- MODULE Experiment -----------------------------
(***************************************************************************)
(* What the extension is for: attacks that keep a server from answering    *)
(* and a check that watches it, with the discovery of targets and the      *)
(* search for keys, side by side on the servers they share.                *)
(*                                                                         *)
(* Each module lets a server answer or not as it likes.  Here it depends   *)
(* on what the others did: a server that pauses every command, or sleeps,  *)
(* answers no ping, no INFO, no SCAN and no CLIENT command.                *)
(***************************************************************************)
EXTENDS ClientPause, SentinelStop, ThresholdChecks, Discovery, KeyScan

CONSTANTS
    Check, Sleep, Discovering, Scanning,    \* what may run next to the attacks in Pauses
    Experiments,    \* which of them may run together
    Checked,        \* the server the check is on
    Sleeper         \* the server the sleeping attack is on

ASSUME ExperimentAssumption == /\ Experiments \subseteq SUBSET
                                    (Pauses \cup {Check, Sleep, Discovering, Scanning})
                               /\ {Checked, Sleeper} \subseteq Nodes

VARIABLES
    experiment,     \* what runs
    heardAt         \* monitor: when Checked would have answered a call last

checkVars == <<state, pc, call, history>>
everything ==
    <<now, pauseVars, sleepVars, checkVars, discoveryVars, scanVars, experiment, heardAt>>

SleepsOn(n) == n = Sleeper /\ Asleep
Answers(n) == Responds(n) /\ ~SleepsOn(n)

\* The monitor goes with every step that may silence a server, or wake it.
Listening == heardAt' = IF Answers(Checked)' THEN now' ELSE heardAt

ExperimentInit ==
    /\ Init
    /\ PauseInit
    /\ SleepInit
    /\ experiment \in Experiments
    /\ DiscoveryInit
    /\ ScanInit
    /\ Check \notin experiment => kind = CHOOSE k \in Kinds : TRUE
    /\ Discovering \notin experiment => ~clustered /\ sort = "instances"
    /\ Scanning \notin experiment => home = [k \in Keys |-> {}]
    /\ heardAt = 0

\* The check.  A ping or a Status is answered at a moment at which the server answers,
\* which may be later than it was asked.
CheckStarts ==
    /\ Prepare \/ Start
    /\ pc' = "running" => Answers(Checked)

Polls ==
    \/ StatusCalled
    \/ StatusReturns /\ (answered' => Answers(Checked))

CheckStep ==
    /\ Check \in experiment
    /\ CheckStarts \/ Polls
    /\ UNCHANGED <<pauseVars, sleepVars, discoveryVars, scanVars, experiment>>
    /\ Listening

\* The client pause attack, which lists the servers by asking its endpoint.
PauseCalls(e) ==
    /\ PausePrepare(e) \/ PauseStart(e) \/ PauseListed(e) \/ PauseStop(e)
    /\ SleepsOn(Endpoint) =>
         /\ pause'[e].at # "prepared"
         /\ pause'[e].at \in {"pausing", "resuming"} => pause'[e].listed \subseteq {Endpoint}

PauseVisits(e) ==
    \E n \in Nodes :
        /\ PauseNode(e, n) \/ UnpauseNode(e, n)
        /\ SleepsOn(n) => n \in pause'[e].errors /\ servers' = servers

PauseStep(e) ==
    /\ e \in experiment
    /\ PauseCalls(e) \/ PauseVisits(e) \/ PauseReturns(e)
    /\ UNCHANGED <<sleepVars, checkVars, discoveryVars, scanVars, experiment>>
    /\ Listening

\* The sleeping attack: a paused server cannot be put to sleep.
SleepStep ==
    /\ Sleep \in experiment
    /\ SleepPrepare \/ SleepHandler \/ SleepStatus
    /\ ~Responds(Sleeper) => /\ asleepUntil' = asleepUntil
                             /\ sleepAt' \in {"retrying", "failed", "slept", "completed"}
    /\ UNCHANGED <<pauseVars, checkVars, discoveryVars, scanVars, experiment>>
    /\ Listening

\* The discovery: a call that is answered needs a server that answers.
DiscoveryStep ==
    /\ Discovering \in experiment
    /\ \/ Discover
       \/ CallTroubled
       \/ Answers(Current) /\ (Pinged \/ Informed \/ KeyspaceListed \/ NodesListed)
       \/ \E n \in Nodes, answers \in BOOLEAN :
            (answers => Answers(n)) /\ NodeVisited(n, answers)
    /\ UNCHANGED <<now, pauseVars, sleepVars, checkVars, scanVars, experiment, heardAt>>

\* The search for keys, likewise.
ScanStep ==
    /\ Scanning \in experiment
    /\ \/ Answers(Endpoint) /\ (ScanBegins \/ TypeKey)
       \/ (\A n \in scanned : Answers(n)) /\ (ScanEnds \/ \E k \in Keys : ScanReturns(k))
       \/ ScanRefused \/ ScanFails \/ ScanOver \/ TypeFails
       \/ \E n \in Nodes : ScanMaster(n)
       \/ \E k \in Keys : KeyMoves(k)
    /\ UNCHANGED <<now, pauseVars, sleepVars, checkVars, discoveryVars, experiment, heardAt>>

\* Time passes for all, and for no call beyond its timeout.
TimePasses ==
    /\ Passes
    /\ InTime
    /\ SleepInTime
    /\ CheckInTime
    /\ Expire
    /\ UNCHANGED <<pause, sleepVars, checkVars, discoveryVars, scanVars, experiment>>
    /\ Listening

ExperimentNext ==
    \/ CheckStep
    \/ \E e \in Pauses : PauseStep(e)
    \/ SleepStep
    \/ DiscoveryStep
    \/ ScanStep
    \/ TimePasses

\* A handler that was called answers: every call in it has a timeout.  The agent goes on
\* polling Status, and time passes.
PauseHandler(e) == PauseStep(e) /\ pause[e].at \in {"listing", "pausing", "resuming"}
SleepWaits == SleepStep /\ sleepAt \in {"waiting", "retrying"}
Fairness ==
    /\ \A e \in Pauses : WF_everything(PauseHandler(e))
    /\ WF_everything(SleepWaits)
    /\ WF_everything(CheckStep /\ pc = "running")
    /\ WF_everything(CheckStep /\ pc = "polling")
    /\ WF_everything(TimePasses)

ExperimentSpec == ExperimentInit /\ [][ExperimentNext]_everything /\ Fairness

-----------------------------------------------------------------------------
\* A disruption is not missed: while a check goes on the server has not been silent for
\* longer than the agent's interval and the timeout of a Status; a longer silence has
\* failed the check, the latency check apart, which takes a ping without an answer for a
\* warning.
DisruptionFailsCheck ==
    kind # "latency" /\ pc \in {"running", "polling"} =>
        now <= heardAt + PollInterval + StatusTimeout
=============================================================================
