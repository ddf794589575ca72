----------------------------- MODULE ImportJob ------------------------------
(***************************************************************************)
(* ImportJob, run by ImportGUI: a Collector thread lists the files that    *)
(* were given, and those in the folders that were given and in the folders *)
(* in these, while the user fills in a dialogue; once the user has         *)
(* accepted and the list is complete, a CopyIn thread copies the files,    *)
(* images first, and the scanner is told of the folder with the images.    *)
(***************************************************************************)
EXTENDS CopyIn, Functions

CONSTANTS
  Dirs,          \* folders
  Urls,          \* what is imported: folders, and images on their own
  Movies,        \* the sources that are movies
  Images,        \* Images[d]: the images in d, as they are listed
  MoviesIn,      \* MoviesIn[d]: the movies in d
  Subfolders,    \* Subfolders[d]: the folders in d
  Incorporates   \* whether the user may incorporate the folder where it is

ASSUME JobAssumption ==
  /\ Movies \subseteq Sources /\ Dirs \cap Sources = {}
  /\ Urls \in Seq(Dirs \cup (Sources \ Movies)) /\ Urls # <<>>
  /\ Images \in [Dirs -> Seq(Sources \ Movies)] /\ MoviesIn \in [Dirs -> Seq(Movies)]
  /\ Subfolders \in [Dirs -> Seq(Dirs)]
  /\ Incorporates \in BOOLEAN

VARIABLES
  collector,     \* the thread that lists the files
  job,           \* the import job and its dialogue
  posted,        \* signals of the threads queued for the job
  scanned        \* history: the copies there were when the scanner was told

jobVars == <<collector, job, posted, scanned>>
vars == <<copyVars, jobVars>>

\* The copy may be started twice: by authorize, and by the collector's signal
\* if complete_ was set and the signal still under way.
MaxCopiers == 2

\* doomed lists the threads that the job's destructor has yet to stop: 0 is the
\* collector.
TypeOK ==
  /\ CopyTypeOK
  /\ collector \in [urls : Seq(Dirs \cup (Sources \ Movies)), dirs : Seq(Dirs),
                    images : Seq(Sources \ Movies), movies : Seq(Movies),
                    complete : BOOLEAN, cancel : BOOLEAN,
                    at : {"urls", "collect", "signal", "ended"}]
  /\ job \in [authorized : BOOLEAN, op : {"Import", "Incorporate"},
              srcdisp : Dispositions, moviedest : BOOLEAN,
              over : {"", "complete", "canceled", "closed"},
              doomed : Seq(Nat), life : {"alive", "dying", "gone"}]
  /\ posted \in Seq({"collected", "copied"})
  /\ scanned \subseteq Sources \ Movies
  /\ copiers # <<>> => job.authorized /\ Len(copiers) <= MaxCopiers

\* showAndGoExternal: the dialogue is shown and countSources starts the collector.
\* What the user will choose to do with the sources, and whether to copy movies, is
\* chosen here.
Init ==
  /\ CopyInit
  /\ collector = [urls |-> Urls, dirs |-> <<>>, images |-> <<>>, movies |-> <<>>,
                  complete |-> FALSE, cancel |-> FALSE, at |-> "urls"]
  /\ \E disp \in Dispositions, moviedest \in BOOLEAN :
       job = [authorized |-> FALSE, op |-> "Import", srcdisp |-> disp,
              moviedest |-> moviedest, over |-> "", doomed |-> <<>>, life |-> "alive"]
  /\ posted = <<>>
  /\ scanned = {}

-----------------------------------------------------------------------------
(* The collector *)

\* The collector after u, the first of what it was given.
Given(c, u) ==
  IF u \in Dirs THEN [c EXCEPT !.urls = Tail(@), !.dirs = Append(@, u)]
  ELSE [c EXCEPT !.urls = Tail(@), !.images = Append(@, u)]

\* An iteration of run over what it was given, and the end of that loop.
Gather ==
  /\ collector.at = "urls"
  /\ \/ /\ collector.urls # <<>> /\ collector.cancel
        /\ collector' = [collector EXCEPT !.at = "ended"]
     \/ /\ collector.urls # <<>> /\ ~collector.cancel
        /\ collector' = Given(collector, Head(collector.urls))
     \/ /\ collector.urls = <<>>
        /\ collector' = [collector EXCEPT !.at = "collect",
                                          !.complete = (collector.dirs = <<>>)]
  /\ UNCHANGED <<copyVars, job, posted, scanned>>

\* Mutant of Listed: whether more is to come is asked before the folders in d are added.
ListedTooSoon(c, d) ==
  [c EXCEPT !.dirs = Tail(@) \o Subfolders[d], !.images = @ \o Images[d],
            !.movies = @ \o MoviesIn[d], !.complete = (Tail(c.dirs) = <<>>)]

\* The collector after folder d, the first of its list.
Listed(c, d) ==
  [c EXCEPT !.dirs = Tail(@) \o Subfolders[d], !.images = @ \o Images[d],
            !.movies = @ \o MoviesIn[d],
            !.complete = (Tail(c.dirs) \o Subfolders[d] = <<>>)]

\* An iteration of run over a folder.  The signal is emitted after complete_
\* has been set.
Collect ==
  /\ collector.at = "collect"
  /\ \/ /\ collector.dirs # <<>> /\ collector.cancel
        /\ collector' = [collector EXCEPT !.at = "ended"]
     \/ /\ collector.dirs # <<>> /\ ~collector.cancel
        /\ collector' = Listed(collector, Head(collector.dirs))
     \/ /\ collector.dirs = <<>>
        /\ collector' = [collector EXCEPT !.at = "signal"]
  /\ UNCHANGED <<copyVars, job, posted, scanned>>

CollectorSignals ==
  /\ collector.at = "signal"
  /\ collector' = [collector EXCEPT !.at = "ended"]
  /\ posted' = Append(posted, "collected")
  /\ UNCHANGED <<copyVars, job, scanned>>

-----------------------------------------------------------------------------
(* The job *)

\* startCopy: movies are copied if there is a place for them.
Wanted == collector.images \o (IF job.moviedest THEN collector.movies ELSE <<>>)
StartCopy == copiers' = Append(copiers, Started(Wanted, job.srcdisp))

\* The scanner is told of the folder with the images.
AddTree == scanned' = scanned \cup {f \in Sources \ Movies : dst[Target[f]] = f}

\* Mutant of Authorize: it is left to the signal to start the copy.
AuthorizeOnly(op) ==
  /\ job.life = "alive" /\ ~job.authorized /\ job.over = ""
  /\ job' = [job EXCEPT !.authorized = TRUE, !.op = op]
  /\ UNCHANGED <<copyVars, collector, posted, scanned>>

\* The user accepts the dialogue: authorize.
Authorize(op) ==
  /\ job.life = "alive" /\ ~job.authorized /\ job.over = ""
  /\ op = "Incorporate" => Incorporates
  /\ \/ /\ op = "Import" /\ collector.complete
        /\ StartCopy /\ UNCHANGED scanned
        /\ job' = [job EXCEPT !.authorized = TRUE]
     \/ /\ op = "Import" /\ ~collector.complete
        /\ UNCHANGED <<copiers, scanned>>
        /\ job' = [job EXCEPT !.authorized = TRUE]
     \/ /\ op = "Incorporate"
        /\ scanned' = Sources \ Movies
        /\ UNCHANGED copiers
        /\ job' = [job EXCEPT !.authorized = TRUE, !.op = op, !.over = "complete"]
  /\ UNCHANGED <<src, dst, backup, collector, posted>>

\* The user closes the dialogue: dlgCancel.
CloseDialog ==
  /\ job.life = "alive" /\ ~job.authorized /\ job.over = ""
  /\ job' = [job EXCEPT !.over = "closed"]
  /\ UNCHANGED <<copyVars, collector, posted, scanned>>

LastCopier == Len(copiers)

\* The user cancels in the progress dialogue: cancel.
CancelJob ==
  /\ job.life = "alive" /\ job.authorized /\ job.op = "Import" /\ job.over = ""
  /\ job' = [job EXCEPT !.over = "canceled"]
  /\ collector' = [collector EXCEPT !.cancel = TRUE]
  /\ copiers' = IF copiers = <<>> THEN copiers
                ELSE [copiers EXCEPT ![LastCopier] = Canceled(@)]
  /\ UNCHANGED <<src, dst, backup, posted, scanned>>

\* Mutant of HandleSignal: the scanner is not told.
HandleSignalNoTree ==
  /\ job.life = "alive" /\ posted # <<>>
  /\ posted' = Tail(posted)
  /\ IF Head(posted) = "collected" /\ job.authorized /\ job.op = "Import"
     THEN StartCopy ELSE UNCHANGED copiers
  /\ job' = [job EXCEPT !.over = IF Head(posted) = "copied" THEN "complete" ELSE @]
  /\ UNCHANGED <<src, dst, backup, collector, scanned>>

\* markFinalSourceCount and doneCopying
HandleSignal ==
  /\ job.life = "alive" /\ posted # <<>>
  /\ posted' = Tail(posted)
  /\ \/ /\ Head(posted) = "collected" /\ job.authorized /\ job.op = "Import"
        /\ StartCopy
        /\ UNCHANGED <<job, scanned>>
     \/ /\ Head(posted) = "collected" /\ ~(job.authorized /\ job.op = "Import")
        /\ UNCHANGED <<job, scanned, copiers>>
     \/ /\ Head(posted) = "copied"
        /\ AddTree
        /\ job' = [job EXCEPT !.over = "complete"]
        /\ UNCHANGED copiers
  /\ UNCHANGED <<src, dst, backup, collector>>

\* deleteLater takes effect: the collector and the copier the job knows are
\* deleted, then what children are left.
Die ==
  /\ job.life = "alive" /\ job.over # ""
  /\ job' = [job EXCEPT !.life = "dying",
                        !.doomed = <<0>> \o [i \in 1..LastCopier |-> LastCopier + 1 - i]]
  /\ UNCHANGED <<copyVars, collector, posted, scanned>>

\* A thread's destructor cancels it if it runs and waits for it.
IsRunning(n) == IF n = 0 THEN collector.at # "ended" ELSE Running(copiers[n])

StopThread ==
  /\ job.life = "dying" /\ job.doomed # <<>>
  /\ LET n == Head(job.doomed)
     IN \/ /\ ~IsRunning(n)
           /\ job' = [job EXCEPT !.doomed = Tail(@)]
           /\ UNCHANGED <<collector, copiers>>
        \/ /\ n = 0 /\ IsRunning(0) /\ ~collector.cancel
           /\ collector' = [collector EXCEPT !.cancel = TRUE]
           /\ UNCHANGED <<job, copiers>>
        \/ /\ n # 0 /\ IsRunning(n) /\ ~copiers[n].cancel
           /\ copiers' = [copiers EXCEPT ![n] = Canceled(@)]
           /\ UNCHANGED <<job, collector>>
  /\ UNCHANGED <<src, dst, backup, posted, scanned>>

Gone ==
  /\ job.life = "dying" /\ job.doomed = <<>>
  /\ job' = [job EXCEPT !.life = "gone"]
  /\ UNCHANGED <<copyVars, collector, posted, scanned>>

\* A copier emits completed as it ends; canceled is connected to nothing.
Copy(n) ==
  /\ CopyStep(n)
  /\ posted' = IF copiers'[n].at = "completed" THEN Append(posted, "copied") ELSE posted
  /\ UNCHANGED <<collector, job, scanned>>

Next ==
  \/ Gather \/ Collect \/ CollectorSignals
  \/ \E op \in {"Import", "Incorporate"} : Authorize(op)
  \/ CloseDialog \/ CancelJob
  \/ HandleSignal \/ Die \/ StopThread \/ Gone
  \/ \E n \in 1..Len(copiers) : Copy(n)

Spec == Init /\ [][Next]_vars

\* The threads are scheduled, and the event loop delivers what is queued and
\* deletes what is to be deleted.
FairSpec ==
  /\ Spec
  /\ WF_vars(Gather \/ Collect \/ CollectorSignals)
  /\ WF_vars(HandleSignal) /\ WF_vars(Die) /\ WF_vars(StopThread \/ Gone)
  /\ \A n \in 1..MaxCopiers : WF_vars(n <= Len(copiers) /\ Copy(n))

-----------------------------------------------------------------------------
(* Properties *)

(* When a job that copied files once is reported complete, the scanner has been
   told of the folder after the last of its images was copied. *)
CopiedIsScanned ==
  job.over = "complete" /\ job.op = "Import" /\ Len(copiers) = 1 =>
    copiers[1].copied \ Movies \subseteq scanned

\* The folders that were given, those in them, and so on; and the files to be copied.
Closed(D) == \A d \in D : Range(Subfolders[d]) \subseteq D
Reached ==
  {d \in Dirs : \A D \in SUBSET Dirs : Range(Urls) \cap Dirs \subseteq D /\ Closed(D) => d \in D}
Chosen ==
  (Range(Urls) \ Dirs) \cup (UNION {Range(Images[d]) : d \in Reached})
    \cup (IF job.moviedest THEN UNION {Range(MoviesIn[d]) : d \in Reached} ELSE {})

(* When an import is reported complete, some copier has tried every file that was given or
   is in a folder that was, however deep, though the list is read by the job while the
   collector's thread still runs: each file was copied or is counted as failed. *)
EveryFileIsTried ==
  job.over = "complete" /\ job.op = "Import" =>
    \E n \in 1..Len(copiers) : Chosen \subseteq copiers[n].copied \cup copiers[n].failed

(* An import that the user accepts comes to an end. *)
AuthorizedEnds == job.authorized ~> job.life = "gone"

=============================================================================
