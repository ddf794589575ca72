------------------------------ MODULE Exporter ------------------------------
(***************************************************************************)
(* Exporter: a thread that writes image files.  The user interface sets up *)
(* an export (settings) and adds versions to it; the thread works off a    *)
(* list of jobs, releasing the mutex while it computes and saves an image. *)
(*                                                                         *)
(* Settings are opaque values; a file written is a version together with   *)
(* the settings it was written by.                                         *)
(***************************************************************************)
EXTENDS Naturals, Sequences, FiniteSets

CONSTANTS
  Versions,
  Settings,
  None,
  MaxJobs,     \* bound on the jobs that are listed when another is set up
  Hasty        \* whether the user sets up an export while one is under way

ASSUME ExporterAssumption ==
  None \notin Versions /\ MaxJobs \in Nat \ {0} /\ Hasty \in BOOLEAN

VARIABLES
  jobs,        \* the list of jobs
  settings,    \* settings_, as last set up
  thread,      \* what the thread does
  stopsoon,
  asked,       \* history: every request, a version and settings
  owed,        \* history: the requests not served since they were made
  dropped,     \* history: those of them that the end of an earlier export dropped
  queued       \* history: a job was listed behind another

asks == <<asked, owed, dropped>>
vars == <<jobs, settings, thread, stopsoon, asks, queued>>

\* History: every version ever added to the job, and those that were added
\* again after they had been counted.
Jobs ==
  [settings : Settings, todo : SUBSET Versions, completed : SUBSET Versions,
   failed : SUBSET Versions, added : SUBSET Versions, again : SUBSET Versions]

\* moved: the list was reallocated under the thread's reference to its job.
\* repeated is history: the version in hand was added to its job once more.
Threads ==
  [at : {"woken", "wait", "export", "ended", "crashed"}, vsn : Versions \cup {None},
   settings : Settings \cup {None}, moved : BOOLEAN, repeated : BOOLEAN]

TypeOK ==
  /\ jobs \in Seq(Jobs)
  /\ settings \in Settings
  /\ thread \in Threads
  /\ stopsoon \in BOOLEAN
  /\ asked \subseteq Versions \X Settings
  /\ owed \subseteq asked /\ dropped \subseteq owed
  /\ queued \in BOOLEAN
  /\ jobs # <<>> => jobs[Len(jobs)].settings = settings
  /\ thread.at = "export" <=> thread.vsn # None

Job(s) ==
  [settings |-> s, todo |-> {}, completed |-> {}, failed |-> {}, added |-> {}, again |-> {}]

At(place) ==
  [at |-> place, vsn |-> None, settings |-> None, moved |-> FALSE, repeated |-> FALSE]

\* The thread is started with the program.
Init ==
  /\ jobs = <<>>
  /\ settings \in Settings
  /\ thread = At("woken")
  /\ stopsoon = FALSE
  /\ asked = {}
  /\ owed = {}
  /\ dropped = {}
  /\ queued = FALSE

Last == Len(jobs)
Running == thread.at \notin {"ended", "crashed"}
WakeOne == [thread EXCEPT !.at = IF @ = "wait" THEN "woken" ELSE @]

-----------------------------------------------------------------------------
(* The user interface *)

\* A job appended while the thread refers to its job may move the list.
Appended ==
  \/ UNCHANGED thread
  \/ thread.at = "export" /\ thread' = [thread EXCEPT !.moved = TRUE]

\* Mutant of Setup: the last job takes the settings even if it is not empty.
SetupLast(s) ==
  /\ ~stopsoon /\ Running
  /\ settings' = s
  /\ IF jobs = <<>> THEN jobs' = <<Job(s)>> ELSE jobs' = [jobs EXCEPT ![Last].settings = s]
  /\ UNCHANGED <<thread, stopsoon, asks, queued>>

\* setup
Setup(s) ==
  /\ ~stopsoon /\ Running
  /\ settings' = s
  /\ \/ /\ jobs # <<>> => jobs[Last].todo # {} /\ Hasty /\ Last < MaxJobs
        /\ jobs' = Append(jobs, Job(s))
        /\ Appended
        /\ queued' = (queued \/ jobs # <<>>)
     \/ /\ jobs # <<>> /\ jobs[Last].todo = {}
        /\ jobs' = [jobs EXCEPT ![Last].settings = s]
        /\ UNCHANGED <<thread, queued>>
  /\ UNCHANGED <<stopsoon, asks>>

\* Mutant of Grown: a version is not added to a job that has exported it.
GrownByNew(job, vs) ==
  [job EXCEPT !.todo = @ \cup (vs \ job.completed), !.added = @ \cup vs]

\* A job that versions are added to, which it may have exported before.
Grown(job, vs) ==
  [job EXCEPT !.todo = @ \cup vs, !.added = @ \cup vs,
              !.again = @ \cup (vs \cap (job.completed \cup job.failed))]

Ask(vs) ==
  /\ asked' = asked \cup (vs \X {settings})
  /\ owed' = owed \cup (vs \X {settings})
  /\ UNCHANGED dropped

\* The thread is exporting one of the versions, for the job they are added to.
InTheThread(n, vs) == thread.at = "export" /\ n = 1 /\ thread.vsn \in vs

\* Mutant of Add: the thread is woken only if the list was empty.
AddWakesForList(vs) ==
  /\ ~stopsoon /\ Running
  /\ LET js == IF jobs = <<>> THEN <<Job(settings)>> ELSE jobs
         n == Len(js)
     IN jobs' = [js EXCEPT ![n] = Grown(@, vs)]
  /\ thread' = IF jobs = <<>> THEN WakeOne ELSE thread
  /\ Ask(vs)
  /\ UNCHANGED <<settings, stopsoon, queued>>

\* add and addSelection.
Add(vs) ==
  /\ ~stopsoon /\ Running
  /\ LET js == IF jobs = <<>> THEN <<Job(settings)>> ELSE jobs
         n == Len(js)
     IN /\ jobs' = [js EXCEPT ![n] = Grown(@, vs)]
        /\ thread' = [(IF js[n].todo = {} THEN WakeOne ELSE thread) EXCEPT
                        !.repeated = @ \/ InTheThread(n, vs)]
  /\ Ask(vs)
  /\ UNCHANGED <<settings, stopsoon, queued>>

\* stop: the caller waits for the thread and makes no other call.
Stop ==
  /\ ~stopsoon /\ Running
  /\ stopsoon' = TRUE
  /\ thread' = WakeOne
  /\ UNCHANGED <<jobs, settings, asks, queued>>

-----------------------------------------------------------------------------
(* The thread *)

\* Where the outer loop of run() goes when the inner one is left.
Rest == At(IF stopsoon THEN "ended" ELSE "wait")

\* The inner loop of run(), from its test to the release of the mutex: it is
\* left for the wait after each job that is completed.
Works(js) ==
  \/ js = <<>> /\ jobs' = js /\ thread' = Rest
  \/ js # <<>> /\ Head(js).todo = {} /\ jobs' = Tail(js) /\ thread' = Rest
  \/ /\ js # <<>>
     /\ jobs' = js
     /\ \E v \in Head(js).todo :
          thread' = [At("export") EXCEPT !.vsn = v, !.settings = Head(js).settings]

Wakeup ==
  /\ thread.at = "woken"
  /\ IF stopsoon THEN thread' = At("ended") /\ UNCHANGED jobs ELSE Works(jobs)
  /\ UNCHANGED <<settings, stopsoon, asks, queued>>

\* Mutant of Recorded: a failure is not counted.
RecordedIfOK(job, v, ok) ==
  [job EXCEPT !.completed = IF ok THEN @ \cup {v} ELSE @, !.todo = @ \ {v}]

\* The job after an export, which has written a file or failed.
Recorded(job, v, ok) ==
  [job EXCEPT !.completed = IF ok THEN @ \cup {v} ELSE @,
              !.failed = IF ok THEN @ ELSE @ \cup {v},
              !.todo = @ \ {v}]

\* An export serves the requests that were made before it began; one that was
\* made meanwhile leaves the list with it.
Listed(js, r) == \E n \in 1..Len(js) : r[1] \in js[n].todo /\ r[2] = js[n].settings
Served(r, js) ==
  /\ owed' = IF thread.repeated \/ Listed(js, r) THEN owed ELSE owed \ {r}
  /\ dropped' = IF thread.repeated /\ ~Listed(js, r) THEN dropped \cup {r} ELSE dropped \ {r}

\* The end of doExport, whose image may not be found or its file not written,
\* this time or another.  If the list has moved, the thread's reference is
\* stale: what it records is lost, or the program crashes.
Finish ==
  /\ thread.at = "export"
  /\ \/ /\ ~thread.moved
        /\ \E ok \in BOOLEAN :
             LET js == [jobs EXCEPT ![1] = Recorded(@, thread.vsn, ok)]
             IN Works(js) /\ Served(<<thread.vsn, thread.settings>>, js)
     \/ /\ thread.moved
        /\ \/ Works(jobs)
           \/ thread' = At("crashed") /\ UNCHANGED jobs
        /\ UNCHANGED <<owed, dropped>>
  /\ UNCHANGED <<settings, stopsoon, asked, queued>>

ThreadStep == Wakeup \/ Finish

Next ==
  \/ \E s \in Settings : Setup(s)
  \/ \E vs \in SUBSET Versions \ {{}} : Add(vs)
  \/ Stop
  \/ ThreadStep

Spec == Init /\ [][Next]_vars

-----------------------------------------------------------------------------
(* Properties *)

(* Each version is exported by the settings in force when it was added, though
   another export is set up while it waits. *)
ExportedAsAsked ==
  thread.at = "export" => <<thread.vsn, thread.settings>> \in asked

(* No request is lost while the thread works without the mutex: it is served by
   an export that began after it, or listed in a job with its settings; but a
   request for the version in hand is dropped as that export ends. *)
OwedIsListed == \A r \in owed \ dropped : Listed(jobs, r)

(* A job that leaves the list has been worked off: each version ever added to it
   is counted as a success or as a failure, and as both only if it was added
   again after it had been counted. *)
WholeIsReported(job) ==
  /\ job.completed \cup job.failed = job.added
  /\ job.completed \cap job.failed \subseteq job.again

ReportIsWhole ==
  [][jobs # <<>> /\ Len(jobs') < Len(jobs) =>
       \/ WholeIsReported(Head(jobs))
       \/ /\ thread.at = "export"
          /\ \E ok \in BOOLEAN : WholeIsReported(Recorded(Head(jobs), thread.vsn, ok))]_vars

(* The thread does not rest while something is listed, unless a job was ever
   queued behind another: after a job the thread waits without looking for the
   next, which then waits for a call that wakes the thread. *)
RestsOnlyWhenDone ==
  thread.at = "wait" => queued \/ \A n \in 1..Len(jobs) : jobs[n].todo = {}
=============================================================================
