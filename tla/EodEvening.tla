----------------------------- MODULE EodEvening -----------------------------
(***************************************************************************)
(* One session's evening: the intraday chains, the eod-pipeline slot, the  *)
(* snapshot handlers, and the doctor whose report is healed later.  All of *)
(* them enqueue option_snapshot jobs under the same trade date, and the    *)
(* vendor's chain shows the session only until the next one opens.         *)
(***************************************************************************)
EXTENDS DoctorReport

CONSTANTS
    Dead,       \* names that may have neither a recent close nor an active ticker row
    MaxFails    \* bound: answers that come back wrong, reads and jobs that fail

VARIABLES
    retired,    \* those that have neither; the same all evening
    phase,      \* of the session: "open", "closed", "past" once another one opens
    intraday,   \* names with an intraday job of the session
    job,        \* [Names -> status of the last EOD job of the session]
    rows,       \* [Names -> what option_snapshot holds at the session's anchor]
    bars,       \* what stock_daily holds of the session
    pull,       \* whether a stock_daily_grouped job waits
    report,     \* the doctor's last report, or NoReport
    fails

vars == <<retired, phase, intraday, job, rows, bars, pull, report, fails>>

\* "guarded": the session guard has let it pass, and the download is under way.
Status == {"none", "pending", "guarded", "done", "skipped", "failed"}
NoReport == [verdict |-> "none", eod |-> "none", fixes |-> {}, refetch |-> {}, retry |-> {}]

Active(n) == job[n] \in {"pending", "guarded"}
Queued(S) == [n \in Names |-> IF n \in S /\ ~Active(n) THEN "pending" ELSE job[n]]

-----------------------------------------------------------------------------
Init ==
    /\ retired \in SUBSET Dead /\ phase = "open" /\ intraday = {}
    /\ job = [n \in Names |-> "none"] /\ rows = [n \in Names |-> "none"]
    /\ bars = "none" /\ pull = FALSE
    /\ report = NoReport /\ fails = 0

Fails == fails < MaxFails /\ fails' = fails + 1

\* enqueue_slot("intraday-chain")
IntradayFire ==
    /\ phase = "open" /\ intraday' = Names
    /\ UNCHANGED <<retired, phase, job, rows, bars, pull, report, fails>>

\* Mutant of Evidence: an intraday job is one of the session, too.
EvidenceAnyJob == {n \in Names : job[n] \notin {"none", "failed"}} \cup intraday

\* _session_symbols_enqueued: a job that has not failed, and that is not intraday.  What
\* the handler made of it does not count.
Evidence == {n \in Names : job[n] \notin {"none", "failed"}}

\* Retired names get no whole chain; one with a window is snapshotted like any other.
Skipped == retired \ Windowed

\* What a fire enqueues: nothing when every name is covered, else all of them.  A probe for
\* retired names that fails, or finds too many, finds none.
Chosen(force, probed) ==
    IF ~force /\ Names \subseteq Evidence THEN {} ELSE Names \ (IF probed THEN Skipped ELSE {})

\* enqueue_slot("eod-pipeline"), by the cron, the API or the doctor.
EodPipeline(probed) ==
    /\ job' = Queued(Chosen(FALSE, probed))
    /\ UNCHANGED <<retired, phase, intraday, rows, bars, pull, report, fails>>

\* handle_option_snapshot up to the download.
Guard(n) ==
    /\ job[n] = "pending"
    /\ job' = [job EXCEPT ![n] = IF phase = "closed" THEN "guarded" ELSE "skipped"]
    /\ UNCHANGED <<retired, phase, intraday, rows, bars, pull, report, fails>>

\* ... and after it: whole, or as the vendor answered it.
Write(n, r) ==
    /\ job[n] = "guarded" /\ r # "none"
    /\ job' = [job EXCEPT ![n] = "done"]
    /\ rows' = [rows EXCEPT ![n] = r]
    /\ IF r = "whole" THEN UNCHANGED fails ELSE Fails
    /\ UNCHANGED <<retired, phase, intraday, bars, pull, report>>

Fail(n) ==
    /\ Active(n) /\ Fails
    /\ job' = [job EXCEPT ![n] = "failed"]
    /\ UNCHANGED <<retired, phase, intraday, rows, bars, pull, report>>

\* enqueue_slot("universe-daily"), which is not held back by evidence of the session.
UniverseDaily ==
    /\ pull' = TRUE
    /\ UNCHANGED <<retired, phase, intraday, job, rows, bars, report, fails>>

\* handle_stock_daily_grouped: both pages or nothing.
PullBars(b) ==
    /\ pull /\ pull' = FALSE
    /\ bars' = IF bars = "whole" THEN bars ELSE b
    /\ IF b = "whole" THEN UNCHANGED fails ELSE Fails
    /\ UNCHANGED <<retired, phase, intraday, job, rows, report>>

\* run_doctor, once the session is the one the tables should hold.
Examine(unread) ==
    /\ phase # "open"
    /\ IF unread = {} THEN UNCHANGED fails ELSE Fails
    /\ LET f == Findings(rows, bars, unread)
           fixable == phase = "closed"
       IN  report' = [verdict |-> Verdict(f), eod |-> EodVerdict(f),
                      fixes   |-> Fixes(rows, bars, unread, fixable),
                      refetch |-> Refetches(rows, unread, fixable),
                      retry   |-> {n \in Names : job[n] = "failed"}]
    /\ UNCHANGED <<retired, phase, intraday, job, rows, bars, pull>>


\* What the prescriptions of a report enqueue, whatever has happened since it was made.
Prescribed(r, probed) ==
    (IF "eod-pipeline" \in r.fixes THEN Chosen(TRUE, probed) ELSE {}) \cup r.refetch
      \cup {n \in r.retry : job[n] = "failed"}

\* heal
Heal(probed) ==
    /\ report # NoReport /\ report' = NoReport
    /\ job' = Queued(Prescribed(report, probed))
    /\ pull' = (pull \/ "universe-daily" \in report.fixes)
    /\ UNCHANGED <<retired, phase, intraday, rows, bars, fails>>

Closes  == phase = "open" /\ phase' = "closed"
Reopens == phase = "closed" /\ phase' = "past"
TimePasses ==
    /\ Closes \/ Reopens
    /\ UNCHANGED <<retired, intraday, job, rows, bars, pull, report, fails>>

-----------------------------------------------------------------------------
Next ==
    \/ IntradayFire \/ UniverseDaily \/ TimePasses
    \/ \E probed \in BOOLEAN : EodPipeline(probed) \/ Heal(probed)
    \/ \E n \in Names : Guard(n) \/ Fail(n) \/ \E r \in Rows : Write(n, r)
    \/ \E b \in Bars \ {"none"} : PullBars(b)
    \/ \E unread \in SUBSET Reads : Examine(unread)

\* The doctor is asked again and again and its report healed, and workers do their jobs.
\* Nothing says that the slot fires, or that time passes.
Fairness ==
    /\ WF_vars(Examine({})) /\ WF_vars(\E probed \in BOOLEAN : Heal(probed)) /\ WF_vars(PullBars("whole"))
    /\ \A n \in Names : WF_vars(Guard(n)) /\ WF_vars(Write(n, "whole"))

FairSpec == Init /\ [][Next]_vars /\ Fairness

-----------------------------------------------------------------------------
(***************************************************************************)
(* Properties                                                              *)
(***************************************************************************)
TypeOK ==
    /\ phase \in {"open", "closed", "past"} /\ intraday \subseteq Names
    /\ retired \subseteq Dead
    /\ job \in [Names -> Status] /\ rows \in [Names -> Rows] /\ bars \in Bars /\ pull \in BOOLEAN
    /\ {report.verdict, report.eod} \subseteq {"none", "healthy", "degraded", "critical"}
    /\ report.refetch \cup report.retry \subseteq Names
    /\ fails \in 0..MaxFails


\* Once the session has closed, a fire of the slot would enqueue every name it collects
\* that no EOD job stands for, also after an afternoon of intraday chains under the same
\* trade date.
SlotWouldCover ==
    phase = "closed" =>
        \A n \in Names \ Skipped : job[n] \in {"none", "failed"} => n \in Chosen(FALSE, TRUE)

\* EOD_CRITICAL_CHECKS are "the checks whose failure means the session's EOD data is not
\* fit for dbt": a report that calls them healthy has seen the session whole.
GateIsEarned ==
    [][report' # report /\ report'.eod = "healthy" => ShortOf(rows) = {} /\ bars = "whole"]_vars

=============================================================================
