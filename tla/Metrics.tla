------------------------------- MODULE Metrics -------------------------------
(***************************************************************************)
(* DefaultPerformanceMetrics: agents count events, the thread of the       *)
(* metrics reports the rates, the end of the program prints the summary.   *)
(* Published and received stand for the five counters, which are all       *)
(* treated alike. Latencies are not modelled.                              *)
(*                                                                         *)
(* The actions are steps at time t; interval is --interval, the time       *)
(* between two reports. reported and reportedTime only record what the     *)
(* formatter was given.                                                    *)
(***************************************************************************)
EXTENDS Integers

VARIABLES
  counter,            \* published, received
  total,              \* publishedTotal, receivedTotal
  last,               \* lastPublished, lastReceived
  lastTick,           \* the time of the last report
  startTimeForTotal,  \* the time the totals are of
  running,            \* started: start() was called and close() was not
  reportDue,          \* when the scheduled report is due
  reporter,           \* where the reporting thread is, and the value it has read
  reported,           \* the sums of the counts of all the reports
  reportedTime,       \* the sum of their elapsed times
  report,             \* the counts and the elapsed time of the one under way
  summary             \* where printFinal is, its time, elapsed time and totals

countVars == <<counter, total>>
reportVars == <<last, lastTick, reportDue, reporter, reported, reportedTime, report>>
endingVars == <<startTimeForTotal, running, summary>>
metricsVars == <<countVars, reportVars, endingVars>>

Counters == {"published", "received"}
Zero == [c \in Counters |-> 0]
NoReport == [counts |-> Zero, elapsed |-> 0]
NoSummary == [at |-> "none", time |-> 0, elapsed |-> 0, counts |-> Zero]

\* start() is called before the agents start.
MetricsInit(interval) ==
  /\ counter = Zero /\ total = Zero /\ last = Zero
  /\ lastTick = 0 /\ startTimeForTotal = 0 /\ running = TRUE
  /\ reportDue = interval /\ reporter = [at |-> "idle", of |-> "published", value |-> 0]
  /\ reported = Zero /\ reportedTime = 0 /\ report = NoReport
  /\ summary = NoSummary

-----------------------------------------------------------------------------
\* published() and received(): two counters, one after the other.
CountEvent(c) ==
  /\ counter' = [counter EXCEPT ![c] = @ + 1]
  /\ UNCHANGED <<total, reportVars, endingVars>>

CountTotal(c) ==
  /\ total' = [total EXCEPT ![c] = @ + 1]
  /\ UNCHANGED <<counter, reportVars, endingVars>>

\* Mutant: the total is not reset.
ResetNothing(c) == UNCHANGED <<countVars, reportVars, endingVars>>

\* resetGlobals(): the totals, one after the other, and at last the time.
ResetTotal(c) ==
  /\ total' = [total EXCEPT ![c] = 0]
  /\ UNCHANGED <<counter, reportVars, endingVars>>

ResetTime(t) ==
  startTimeForTotal' = t /\ UNCHANGED <<countVars, reportVars, running, summary>>

-----------------------------------------------------------------------------
\* noActivity
NoActivity == counter = last

\* Mutant: the time of the report is set before the time since the last one is taken.
ReportTickFirst(t, interval) ==
  /\ running /\ reporter.at = "idle" /\ t >= reportDue
  /\ reportDue' = reportDue + interval
  /\ IF NoActivity
       THEN UNCHANGED <<lastTick, reporter, report>>
       ELSE /\ lastTick' = t
            /\ report' = [counts |-> Zero, elapsed |-> t - t]
            /\ reporter' = [at |-> "read", of |-> "published", value |-> 0]
  /\ UNCHANGED <<countVars, last, reported, reportedTime, endingVars>>

\* The scheduled task. Without activity the rates are zero, and the time goes
\* to the next report.
ReportBegin(t, interval) ==
  /\ running /\ reporter.at = "idle" /\ t >= reportDue
  /\ reportDue' = reportDue + interval
  /\ IF NoActivity
       THEN UNCHANGED <<lastTick, reporter, report>>
       ELSE /\ lastTick' = t
            /\ report' = [counts |-> Zero, elapsed |-> t - lastTick]
            /\ reporter' = [at |-> "read", of |-> "published", value |-> 0]
  /\ UNCHANGED <<countVars, last, reported, reportedTime, endingVars>>

\* swapAndCalculateRate: the counter is read and compared with the last value...
SwapRead ==
  LET c == reporter.of IN
  /\ reporter.at = "read"
  /\ reporter' = [reporter EXCEPT !.at = "set", !.value = counter[c]]
  /\ report' = [report EXCEPT !.counts[c] = counter[c] - last[c]]
  /\ UNCHANGED <<countVars, last, lastTick, reportDue, reported, reportedTime, endingVars>>

AfterSet(c) ==
  [at |-> IF c = "published" THEN "read" ELSE "report", of |-> "received", value |-> 0]

\* Mutant: the counter is read again.
SwapSetCurrent ==
  LET c == reporter.of IN
  /\ reporter.at = "set"
  /\ last' = [last EXCEPT ![c] = counter[c]] /\ reporter' = AfterSet(c)
  /\ UNCHANGED <<countVars, lastTick, reportDue, reported, reportedTime, report, endingVars>>

\* ... which becomes the last value; agents may have counted in between.
SwapSet ==
  LET c == reporter.of IN
  /\ reporter.at = "set"
  /\ last' = [last EXCEPT ![c] = reporter.value] /\ reporter' = AfterSet(c)
  /\ UNCHANGED <<countVars, lastTick, reportDue, reported, reportedTime, report, endingVars>>

\* The end of metrics(): nothing is reported once the metrics are closed.
Report ==
  /\ reporter.at = "report"
  /\ reporter' = [reporter EXCEPT !.at = "idle", !.of = "published"]
  /\ report' = NoReport
  /\ IF running
       THEN /\ reported' = [c \in Counters |-> reported[c] + report.counts[c]]
            /\ reportedTime' = reportedTime + report.elapsed
       ELSE UNCHANGED <<reported, reportedTime>>
  /\ UNCHANGED <<countVars, last, lastTick, reportDue, endingVars>>

\* close(), and printFinal up to the time it takes...
Close(t) ==
  /\ running /\ running' = FALSE
  /\ summary' = [summary EXCEPT !.at = "start", !.time = t]
  /\ UNCHANGED <<countVars, reportVars, startTimeForTotal>>

\* ... which it compares with the time of the totals...
SummaryStart ==
  /\ summary.at = "start"
  /\ summary' = [summary EXCEPT !.at = "total", !.elapsed = summary.time - startTimeForTotal]
  /\ UNCHANGED <<countVars, reportVars, startTimeForTotal, running>>

\* ... before it reads the totals.
SummaryTotal ==
  /\ summary.at = "total"
  /\ summary' = [summary EXCEPT !.at = "printed", !.counts = total]
  /\ UNCHANGED <<countVars, reportVars, startTimeForTotal, running>>

-----------------------------------------------------------------------------
\* Each event is in one report or still to be reported, whenever agents count,
\* and the elapsed times of the reports cover the run without gap or overlap.
ReportsAddUp ==
  (running /\ reporter.at = "idle") => (reported = last /\ reportedTime = lastTick)
=============================================================================
