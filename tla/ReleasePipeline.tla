--------------------------- MODULE ReleasePipeline ---------------------------
(***************************************************************************)
(* The release gate (release_gate.py), the reading of the sandbox smoke    *)
(* (sandbox_release_gate.py), and the history of its reports with the      *)
(* trend computed from it (release_history.py).                            *)
(*                                                                         *)
(* One gate runs at a time and may die between two stages.  Several        *)
(* programs record reports and share the temporary file of a release id.   *)
(* Time is when a report was finished, on a clock that may be set.         *)
(* Durations are left out: whether a stage took too long is free.          *)
(***************************************************************************)
EXTENDS Naturals, Sequences, FiniteSets, SequencesExt

CONSTANTS
    CommandStages,  \* pytest and wheel_smoke
    ReleaseId,      \* release_id's
    Recorder,       \* programs that record reports
    ListLimit,      \* limit of list()
    MaxGates,       \* bound: runs of the gate
    MaxTime         \* bound: times of reports

ASSUME ReleaseAssumption ==
    /\ CommandStages \in Seq(STRING)
    /\ \A i \in DOMAIN CommandStages : CommandStages[i] # "sandbox"
    /\ ListLimit \in 1 .. 100
    /\ MaxGates \in Nat /\ MaxTime \in Nat \ {0}

Stages == Append(CommandStages, "sandbox")      \* REQUIRED_RELEASE_STAGES
NoReport == [none |-> TRUE]

VARIABLES
    gate,       \* the gate running: its stages so far
    gates,      \* gates started
    report,     \* the report file
    recorder,   \* where each recorder is
    temporary,  \* the temporary file of each release id
    history,    \* the snapshot of each release id
    contended,  \* history: ids two recorders worked on at once
    trend       \* what analyze() just returned

releaseVars ==
    <<gate, gates, report, recorder, temporary, history, contended, trend>>

NoGate == [running |-> FALSE, degraded_ok |-> FALSE, stages |-> <<>>]
AtRest == [at |-> "rest", id |-> "none", report |-> NoReport]
NoTrend == [status |-> "none", current |-> NoReport, previous |-> NoReport]

ReleaseInit ==
    /\ gate = NoGate
    /\ gates = 0
    /\ report = NoReport
    /\ recorder = [r \in Recorder |-> AtRest]
    /\ temporary = [id \in ReleaseId |-> NoReport]
    /\ history = temporary
    /\ contended = {}
    /\ trend = NoTrend

---------------------------------------------------------------------------
\* the gate

\* what BoundedSubprocessTool returns, or launched is FALSE and it raised; the
\* payload is what the sandbox smoke printed
StageProcess ==
    [launched : BOOLEAN, timed_out : BOOLEAN, truncated : BOOLEAN, exit : {0, 1, 2},
     payload : {"no_object", "unavailable", "all_checks", "other"}]

Unusable(process) == ~ process.launched \/ process.timed_out \/ process.truncated

\* _interpret_command
CommandStatusOf(process) ==
    IF Unusable(process) \/ process.exit # 0 THEN "failed" ELSE "passed"

SandboxStatusExcusing(process, degraded_ok) ==
    IF Unusable(process) \/ process.payload = "no_object" THEN "failed"
    ELSE IF process.exit = 2 /\ process.payload = "unavailable" THEN "degraded"
    ELSE IF process.exit = 0 /\ process.payload = "all_checks" THEN "passed"
    ELSE "failed"

\* interpret_sandbox_process: all_checks stands for status completed with
\* every required check true
SandboxStatusOf(process, degraded_ok) ==
    IF Unusable(process) \/ process.payload = "no_object" THEN "failed"
    ELSE IF process.exit = 2 /\ process.payload = "unavailable"
    THEN IF degraded_ok THEN "degraded" ELSE "blocked"
    ELSE IF process.exit = 0 /\ process.payload = "all_checks" THEN "passed"
    ELSE "failed"

Releasable(status) == status \in {"passed", "degraded"}

StartGate(degraded_ok) ==
    /\ ~ gate.running
    /\ gates < MaxGates
    /\ gates' = gates + 1
    /\ gate' = [running |-> TRUE, degraded_ok |-> degraded_ok, stages |-> <<>>]
    /\ UNCHANGED <<report, recorder, temporary, history, contended>>

\* every stage runs, whatever became of those before; end: history, the
\* process came to a good end, or somebody excused that there is no sandbox
RunStage(process) ==
    /\ gate.running
    /\ Len(gate.stages) < Len(Stages)
    /\ LET name == Stages[Len(gate.stages) + 1]
           status == IF name = "sandbox" THEN SandboxStatusOf(process, gate.degraded_ok)
                     ELSE CommandStatusOf(process)
           clean == ~ Unusable(process) /\ process.exit = 0
                        /\ (name = "sandbox" => process.payload = "all_checks")
           excused == name = "sandbox" /\ ~ Unusable(process) /\ gate.degraded_ok
                        /\ process.exit = 2 /\ process.payload = "unavailable"
           end == IF clean THEN "clean" ELSE IF excused THEN "excused" ELSE "bad"
       IN  gate' = [gate EXCEPT !.stages =
                        Append(@, [name |-> name, status |-> status, end |-> end])]
    /\ UNCHANGED <<gates, report, recorder, temporary, history, contended>>

\* the verdict, and the report file replaced
Report(time) ==
    /\ gate.running
    /\ Len(gate.stages) = Len(Stages)
    /\ LET releasable == \A i \in DOMAIN Stages : Releasable(gate.stages[i].status)
           degraded == \E i \in DOMAIN Stages : gate.stages[i].status = "degraded"
       IN  report' = [status |-> IF ~ releasable THEN "failed"
                                 ELSE IF degraded THEN "degraded" ELSE "passed",
                      releasable |-> releasable, stages |-> gate.stages,
                      finished_at |-> time]
    /\ gate' = NoGate
    /\ UNCHANGED <<gates, recorder, temporary, history, contended>>

\* the gate dies, or its report cannot be written; the file stays as it was
GateDies ==
    /\ gate.running
    /\ gate' = NoGate
    /\ UNCHANGED <<gates, report, recorder, temporary, history, contended>>

---------------------------------------------------------------------------
\* JsonReleaseHistoryStore.record

UnrecordedUnchecked(id) == TRUE

Unrecorded(id) == history[id] = NoReport

\* the existence check, for the report the gate returned or its file
BeginRecord(r, id) ==
    /\ recorder[r].at = "rest"
    /\ report # NoReport
    /\ Unrecorded(id)
    /\ recorder' = [recorder EXCEPT ![r] = [at |-> "checked", id |-> id, report |-> report]]
    /\ contended' = IF \E other \in Recorder : recorder[other].id = id
                    THEN contended \cup {id} ELSE contended
    /\ UNCHANGED <<gate, gates, report, temporary, history>>

WriteTemporary(r) ==
    /\ recorder[r].at = "checked"
    /\ temporary' = [temporary EXCEPT ![recorder[r].id] = recorder[r].report]
    /\ recorder' = [recorder EXCEPT ![r].at = "written"]
    /\ UNCHANGED <<gate, gates, report, history, contended>>

\* os.replace of a file another recorder may have written or replaced before
Replace(r) ==
    /\ recorder[r].at = "written"
    /\ LET id == recorder[r].id IN
        IF temporary[id] = NoReport
        THEN UNCHANGED <<history, temporary>>
        ELSE /\ history' = [history EXCEPT ![id] = temporary[id]]
             /\ temporary' = [temporary EXCEPT ![id] = NoReport]
    /\ recorder' = [recorder EXCEPT ![r] = AtRest]
    /\ UNCHANGED <<gate, gates, report, contended>>

RecorderDies(r) ==
    /\ recorder[r].at # "rest"
    /\ recorder' = [recorder EXCEPT ![r] = AtRest]
    /\ UNCHANGED <<gate, gates, report, temporary, history, contended>>

---------------------------------------------------------------------------
\* ReleaseHistoryAnalyzer.analyze of list()

Rank == [failed |-> 0, degraded |-> 1, passed |-> 2]

\* newest first; equal times by id, in either order here
Newest(ids) ==
    {order \in SetToSeqs(ids) : \A i, j \in DOMAIN order :
        i < j => history[order[i]].finished_at >= history[order[j]].finished_at}

Ranked(current, previous) ==
    {current.status, previous.status} \cup
        {rep.stages[i].status : rep \in {current, previous}, i \in DOMAIN Stages}

Worse(current, previous) ==
    \/ Rank[current.status] < Rank[previous.status]
    \/ \E i \in DOMAIN Stages :
        Rank[current.stages[i].status] < Rank[previous.stages[i].status]

\* slow: some stage took too long for the baseline; a status without a rank
\* raises
TrendOf(current, previous, slow) ==
    IF Ranked(current, previous) \ DOMAIN Rank # {} THEN "raises"
    ELSE IF Worse(current, previous) \/ slow THEN "regressed"
    ELSE IF Rank[current.status] > Rank[previous.status] THEN "improved"
    ELSE "stable"

Analyze(slow) ==
    LET ids == {id \in ReleaseId : ~ Unrecorded(id)} IN
    /\ ids # {}
    /\ \E order \in Newest(ids) :
        LET listed == SubSeq(order, 1, IF Len(order) < ListLimit THEN Len(order) ELSE ListLimit)
            current == history[listed[1]]
        IN  trend' = IF Len(listed) = 1
                     THEN [NoTrend EXCEPT !.status = "insufficient_history"]
                     ELSE LET previous == history[listed[2]] IN
                          [status |-> TrendOf(current, previous, slow),
                           current |-> current, previous |-> previous]
    /\ UNCHANGED <<gate, gates, report, recorder, temporary, history, contended>>

ReleaseNext ==
    \/ /\ \/ \E degraded_ok \in BOOLEAN : StartGate(degraded_ok)
          \/ \E process \in StageProcess : RunStage(process)
          \/ \E time \in 1 .. MaxTime : Report(time)
          \/ GateDies
          \/ \E r \in Recorder :
                \/ \E id \in ReleaseId : BeginRecord(r, id)
                \/ WriteTemporary(r) \/ Replace(r) \/ RecorderDies(r)
       /\ trend' = NoTrend
    \/ \E slow \in BOOLEAN : Analyze(slow)

ReleaseSpec == ReleaseInit /\ [][ReleaseNext]_releaseVars

---------------------------------------------------------------------------

Reports == {report} \cup {history[id] : id \in ReleaseId}

\* a report is of all stages of one run; it passes exactly with every process
\* clean, and is degraded where only the sandbox was excused
ReportsEarned ==
    \A rep \in Reports \ {NoReport} :
        /\ Len(rep.stages) = Len(Stages)
        /\ rep.status = "passed" <=> \A i \in DOMAIN Stages : rep.stages[i].end = "clean"
        /\ rep.status = "degraded" <=>
            /\ Last(rep.stages).end = "excused"
            /\ \A i \in DOMAIN CommandStages : rep.stages[i].end = "clean"
        /\ rep.releasable <=> rep.status # "failed"

\* what the trend calls stable or improved lost nothing against the report
\* before it; of a report with a blocked stage there may be no trend at all,
\* as its comparison raises
TrendTells ==
    trend.status \in {"stable", "improved"} =>
        LET current == trend.current  previous == trend.previous IN
        /\ current.finished_at >= previous.finished_at
        /\ previous.releasable => current.releasable
        /\ \A i \in DOMAIN Stages :
            /\ previous.stages[i].end = "clean" => current.stages[i].end = "clean"
            /\ Releasable(previous.stages[i].status) => Releasable(current.stages[i].status)
        /\ trend.status = "improved" => previous.status # "passed"

\* Whatever gates and recorders die in between, a report, recorded or not, is
\* earned by the processes of one run, and a release the trend calls stable or
\* improved is in no stage worse than the one before it
\* (release_gate.py:144-178, release_history.py:168-256)
ReleasesEarned == ReportsEarned /\ TrendTells

\* A snapshot once there is never replaced, as long as no two programs record
\* under its id at once (release_history.py:107-122)
SnapshotsStand ==
    [][\A id \in ReleaseId \ contended' :
        history[id] # NoReport => history'[id] = history[id]]_releaseVars

=============================================================================
