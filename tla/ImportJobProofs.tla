-------------------------- MODULE ImportJobProofs ---------------------------
(***************************************************************************)
(* No import loses a file, whatever the sources, the folders and the       *)
(* number of copies that are started, and whatever fails or is canceled;   *)
(* and the scanner is told of every copy.                                  *)
(***************************************************************************)
EXTENDS ImportJob, TLAPS

Collectors ==
  [urls : Seq(Dirs \cup (Sources \ Movies)), dirs : Seq(Dirs),
   images : Seq(Sources \ Movies), movies : Seq(Movies),
   complete : BOOLEAN, cancel : BOOLEAN, at : {"urls", "collect", "signal", "ended"}]

Jobs ==
  [authorized : BOOLEAN, op : {"Import", "Incorporate"}, srcdisp : Dispositions,
   moviedest : BOOLEAN, over : {"", "complete", "canceled", "closed"}, doomed : Seq(Nat),
   life : {"alive", "dying", "gone"}]

Typed == CopyTypeOK /\ collector \in Collectors /\ job \in Jobs

\* What the collector was given is a folder or an image.
GivenTo(u) == u \in Dirs \/ u \in Sources \ Movies

\* What a copier counts as copied is there; it is what it may dispose of.
CopiedIsThere ==
  \A n \in 1..Len(copiers) : \A f \in copiers[n].copied : dst[Target[f]] = f

ImportInv == Typed /\ CopiedIsThere /\ DisposedIsCopied

-----------------------------------------------------------------------------

LEMMA SeqUpdate ==
  ASSUME NEW S, NEW s \in Seq(S), NEW i \in 1..Len(s), NEW e \in S
  PROVE  [s EXCEPT ![i] = e] \in Seq(S) /\ Len([s EXCEPT ![i] = e]) = Len(s)
  OBVIOUS

LEMMA ExceptOutside ==
  ASSUME NEW S, NEW s \in Seq(S), NEW i, i \notin 1..Len(s), NEW e
  PROVE  [s EXCEPT ![i] = e] = s
<1>1. s = [j \in 1..Len(s) |-> s[j]]
  OBVIOUS
<1> QED
  BY <1>1

\* The next file of a list, and the place after it.
LEMMA NextFile ==
  ASSUME NEW c \in Copiers, c.next <= Len(c.list)
  PROVE  c.next \in 1..Len(c.list) /\ c.next + 1 \in Nat \ {0} /\ c.list[c.next] \in Sources
<1>1. c.next \in Nat \ {0} /\ c.list \in Seq(Sources)
  BY DEF Copiers
<1> QED
  BY <1>1

LEMMA StartedTyped ==
  ASSUME NEW list \in Seq(Sources), NEW disp \in Dispositions
  PROVE  Started(list, disp) \in Copiers /\ Started(list, disp).copied = {}
  BY DEF Started, Copiers

\* What is copied are sources.
LEMMA WantedTyped ==
  ASSUME collector \in Collectors, job \in Jobs
  PROVE  Wanted \in Seq(Sources)
<1>1. collector.images \in Seq(Sources \ Movies) /\ collector.movies \in Seq(Movies)
  BY DEF Collectors
<1>2. collector.images \in Seq(Sources) /\ collector.movies \in Seq(Sources)
  BY <1>1, JobAssumption
<1> QED
  BY <1>2 DEF Wanted

LEMMA InitInv == Init => ImportInv
<1> SUFFICES ASSUME Init PROVE ImportInv
  OBVIOUS
<1>1. copiers = <<>> /\ src = Sources
  BY DEF Init, CopyInit
<1>2. CopyTypeOK
  <2>1. dst \in [Targets -> Sources \cup {None, Old}] /\ backup = {}
    BY DEF Init, CopyInit
  <2>2. <<>> \in Seq(Copiers)
    OBVIOUS
  <2> QED
    BY <2>1, <2>2, <1>1 DEF CopyTypeOK
<1>3. collector \in Collectors
  <2>1. /\ Urls \in Seq(Dirs \cup (Sources \ Movies)) /\ <<>> \in Seq(Dirs)
        /\ <<>> \in Seq(Sources \ Movies) /\ <<>> \in Seq(Movies)
    BY JobAssumption
  <2> QED
    BY <2>1 DEF Init, Collectors
<1>4. job \in Jobs
  <2>1. <<>> \in Seq(Nat)
    OBVIOUS
  <2>2. PICK disp \in Dispositions, moviedest \in BOOLEAN :
          job = [authorized |-> FALSE, op |-> "Import", srcdisp |-> disp,
                 moviedest |-> moviedest, over |-> "", doomed |-> <<>>, life |-> "alive"]
    BY DEF Init
  <2> QED
    BY <2>1, <2>2 DEF Jobs
<1>5. CopiedIsThere /\ DisposedIsCopied
  BY <1>1 DEF CopiedIsThere, DisposedIsCopied
<1> QED
  BY <1>2, <1>3, <1>4, <1>5 DEF ImportInv, Typed

\* The copiers may be changed in anything but what they have copied.
LEMMA CopiersChange ==
  ASSUME ImportInv, UNCHANGED <<src, dst, backup>>,
         copiers' \in Seq(Copiers), collector' \in Collectors, job' \in Jobs,
         \A n \in 1..Len(copiers') :
           \/ copiers'[n].copied = {}
           \/ n \in 1..Len(copiers) /\ copiers'[n].copied = copiers[n].copied
  PROVE  ImportInv'
<1>1. Typed'
  BY DEF ImportInv, Typed, CopyTypeOK
<1>2. CopiedIsThere'
  BY DEF ImportInv, CopiedIsThere
<1>3. DisposedIsCopied'
  BY DEF ImportInv, DisposedIsCopied
<1> QED
  BY <1>1, <1>2, <1>3 DEF ImportInv

LEMMA StartCopyInv ==
  ASSUME ImportInv, StartCopy, UNCHANGED <<src, dst, backup, collector>>,
         job' \in Jobs
  PROVE  ImportInv'
<1>1. Started(Wanted, job.srcdisp) \in Copiers
      /\ Started(Wanted, job.srcdisp).copied = {}
  BY StartedTyped, WantedTyped DEF ImportInv, Typed, Jobs
<1>2. copiers \in Seq(Copiers) /\ collector \in Collectors /\ job \in Jobs
  BY DEF ImportInv, Typed, CopyTypeOK
<1>3. copiers' \in Seq(Copiers)
  BY <1>1, <1>2 DEF StartCopy
<1>4. \A n \in 1..Len(copiers') :
        \/ copiers'[n].copied = {}
        \/ n \in 1..Len(copiers) /\ copiers'[n].copied = copiers[n].copied
  BY <1>1, <1>2 DEF StartCopy
<1> QED
  BY <1>2, <1>3, <1>4, CopiersChange

LEMMA CancelInv ==
  ASSUME ImportInv, NEW n \in 1..Len(copiers),
         copiers' = [copiers EXCEPT ![n] = Canceled(@)],
         UNCHANGED <<src, dst, backup>>, collector' \in Collectors, job' \in Jobs
  PROVE  ImportInv'
<1>1. copiers \in Seq(Copiers) /\ job \in Jobs
  BY DEF ImportInv, Typed, CopyTypeOK
<1>2. copiers[n] \in Copiers
  BY <1>1
<1>3. Canceled(copiers[n]) \in Copiers /\ Canceled(copiers[n]).copied = copiers[n].copied
  BY <1>2 DEF Canceled, Copiers
<1>4. copiers' \in Seq(Copiers) /\ Len(copiers') = Len(copiers)
  BY <1>1, <1>3, SeqUpdate
<1>5. \A i \in 1..Len(copiers') : copiers'[i].copied = copiers[i].copied
  BY <1>1, <1>3, <1>4
<1> QED
  BY <1>1, <1>4, <1>5, CopiersChange

LEMMA NoCopierInv ==
  ASSUME ImportInv, UNCHANGED copyVars, collector' \in Collectors,
         job' \in Jobs
  PROVE  ImportInv'
  BY CopiersChange DEF copyVars, ImportInv, Typed, CopyTypeOK

-----------------------------------------------------------------------------
\* A step of a copier.

LEMMA CopyInv ==
  ASSUME ImportInv, NEW n \in 1..Len(copiers), Copy(n)
  PROVE  ImportInv'
<1> DEFINE c == copiers[n]
<1>t. /\ src \subseteq Sources /\ dst \in [Targets -> Sources \cup {None, Old}]
      /\ backup \subseteq Sources /\ copiers \in Seq(Copiers)
      /\ collector \in Collectors /\ job \in Jobs
  BY DEF ImportInv, Typed, CopyTypeOK
<1>u. collector' \in Collectors /\ job' \in Jobs
  BY <1>t DEF Copy
<1>c. c \in Copiers
  BY <1>t
<1>i. (\A i \in 1..Len(copiers) : \A f \in copiers[i].copied : dst[Target[f]] = f)
      /\ (\A f \in Sources \ src : dst[Target[f]] = f)
  BY DEF ImportInv, CopiedIsThere, DisposedIsCopied
<1>b. ASSUME NEW d \in Copiers, Become(n, d)
      PROVE  /\ copiers' \in Seq(Copiers) /\ Len(copiers') = Len(copiers)
             /\ copiers'[n] = d
             /\ \A i \in 1..Len(copiers) : i # n => copiers'[i] = copiers[i]
  <2>1. copiers' = [copiers EXCEPT ![n] = d]
    BY <1>b DEF Become
  <2> QED
    BY <2>1, <1>t, SeqUpdate
<1>1. CASE MakePath(n) \/ Cancel(n) \/ CopyEnds(n)
  <2>1. PICK d \in Copiers : d.copied = c.copied /\ Become(n, d)
    <3>f. {c.list[i] : i \in 1..Len(c.list)} \subseteq Sources
      BY <1>c DEF Copiers
    <3>1. ASSUME NEW a \in {"copy", "dispose", "canceled"}
          PROVE  [c EXCEPT !.at = a] \in Copiers /\ [c EXCEPT !.at = a].copied = c.copied
      BY <1>c DEF Copiers
    <3>2. ASSUME NEW fs \in SUBSET Sources
          PROVE  /\ [c EXCEPT !.at = "completed", !.failed = fs] \in Copiers
                 /\ [c EXCEPT !.at = "completed", !.failed = fs].copied = c.copied
      BY <1>c DEF Copiers
    <3> QED
      BY <1>1, <3>f, <3>1, <3>2 DEF MakePath, Cancel, CopyEnds
  <2>2. UNCHANGED <<src, dst, backup>>
    BY <1>1 DEF MakePath, Cancel, CopyEnds
  <2> QED
    BY <2>1, <2>2, <1>b, <1>u, CopiersChange
<1>2. CASE CopyNext(n)
  <2> DEFINE f == c.list[c.next]
  <2>0. /\ c.next \in 1..Len(c.list) /\ c.next + 1 \in Nat \ {0}
        /\ f \in Sources /\ f # None /\ Target[f] \in Targets
    BY <1>2, <1>c, NextFile, CopyAssumption DEF CopyNext, Targets
  <2>u. UNCHANGED <<src, backup>>
    BY <1>2 DEF CopyNext
  <2>1. CASE /\ CanCopy(f) /\ dst' = [dst EXCEPT ![Target[f]] = f]
             /\ Become(n, [c EXCEPT !.next = @ + 1, !.copied = @ \cup {f}])
    <3> DEFINE d == [c EXCEPT !.next = @ + 1, !.copied = @ \cup {f}]
    <3>1. d \in Copiers /\ d.copied = c.copied \cup {f}
      BY <2>0, <1>c DEF Copiers
    <3>2. dst' \in [Targets -> Sources \cup {None, Old}]
      BY <2>1, <2>0, <1>t
    <3>3. \A t \in Targets : dst'[t] = IF t = Target[f] THEN f ELSE dst[t]
      BY <2>1, <2>0, <1>t
    <3>4. \A g \in Sources : dst[Target[g]] = g => dst'[Target[g]] = g
      <4> SUFFICES ASSUME NEW g \in Sources, dst[Target[g]] = g PROVE dst'[Target[g]] = g
        OBVIOUS
      <4>1. dst[Target[f]] = None
        BY <2>1 DEF CanCopy
      <4>2. Target[g] # Target[f] /\ Target[g] \in Targets
        BY <4>1, CopyAssumption DEF Targets
      <4> QED
        BY <4>2, <3>3
    <3>5. dst'[Target[f]] = f
      BY <3>3, <2>0
    <3>6. Typed'
      BY <3>1, <3>2, <2>1, <1>b, <1>t, <1>u, <2>u DEF Typed, CopyTypeOK
    <3>7. CopiedIsThere'
      <4> SUFFICES ASSUME NEW i \in 1..Len(copiers), NEW g \in copiers'[i].copied
                   PROVE  dst'[Target[g]] = g
        BY <3>1, <2>1, <1>b DEF CopiedIsThere
      <4>1. CASE i = n /\ g = f
        BY <4>1, <3>5
      <4>2. CASE ~(i = n /\ g = f)
        <5>1. g \in copiers[i].copied
          BY <4>2, <3>1, <2>1, <1>b
        <5>2. g \in Sources
          <6>1. copiers[i] \in Copiers
            BY <1>t
          <6> QED
            BY <5>1, <6>1 DEF Copiers
        <5> QED
          BY <5>1, <5>2, <1>i, <3>4
      <4> QED
        BY <4>1, <4>2
    <3>8. DisposedIsCopied'
      BY <1>i, <3>4, <2>u DEF DisposedIsCopied
    <3> QED
      BY <3>6, <3>7, <3>8 DEF ImportInv
  <2>2. CASE /\ Become(n, [c EXCEPT !.next = @ + 1, !.failed = @ \cup {f}])
             /\ UNCHANGED dst
    <3> DEFINE d == [c EXCEPT !.next = @ + 1, !.failed = @ \cup {f}]
    <3>1. d \in Copiers /\ d.copied = c.copied
      BY <2>0, <1>c DEF Copiers
    <3> QED
      BY <3>1, <2>2, <2>u, <1>b, <1>u, CopiersChange
  <2> QED
    BY <1>2, <2>1, <2>2 DEF CopyNext
<1>3. CASE Dispose(n)
  <2>1. PICK gone \in SUBSET (c.copied \cap src) :
          /\ src' = src \ gone
          /\ backup' = IF c.srcdisp = "backup" THEN backup \cup gone ELSE backup
    BY <1>3 DEF Dispose, Disposable
  <2> DEFINE d == [c EXCEPT !.at = "completed"]
  <2>2. d \in Copiers /\ d.copied = c.copied
    BY <1>c DEF Copiers
  <2>3. Become(n, d) /\ dst' = dst
    BY <1>3 DEF Dispose
  <2>4. Typed'
    BY <2>1, <2>2, <2>3, <1>b, <1>t, <1>u DEF Typed, CopyTypeOK
  <2>5. CopiedIsThere'
    BY <2>2, <2>3, <1>b, <1>i DEF CopiedIsThere
  <2>6. DisposedIsCopied'
    BY <2>1, <2>3, <1>i DEF DisposedIsCopied
  <2> QED
    BY <2>4, <2>5, <2>6 DEF ImportInv
<1> QED
  BY <1>1, <1>2, <1>3 DEF Copy, CopyStep

-----------------------------------------------------------------------------

LEMMA NextInv ==
  ASSUME ImportInv, [Next]_vars
  PROVE  ImportInv'
<1>t. collector \in Collectors /\ copiers \in Seq(Copiers)
  BY DEF ImportInv, Typed, CopyTypeOK
<1>j. job \in Jobs
  BY DEF ImportInv, Typed
<1>1. CASE Collect
  <2>1. collector' \in Collectors
    <3>1. CASE collector.dirs # <<>> /\ ~collector.cancel
               /\ collector' = Listed(collector, Head(collector.dirs))
      <4>1. Head(collector.dirs) \in Dirs
        BY <3>1, <1>t DEF Collectors
      <4>2. /\ Tail(collector.dirs) \o Subfolders[Head(collector.dirs)] \in Seq(Dirs)
            /\ collector.images \o Images[Head(collector.dirs)] \in Seq(Sources \ Movies)
            /\ collector.movies \o MoviesIn[Head(collector.dirs)] \in Seq(Movies)
        BY <4>1, <3>1, <1>t, JobAssumption DEF Collectors
      <4> QED
        BY <4>2, <3>1, <1>t DEF Listed, Collectors
    <3> QED
      BY <1>1, <3>1, <1>t DEF Collect, Collectors
  <2> QED
    BY <2>1, <1>1, <1>j, NoCopierInv DEF Collect
<1>12. CASE Gather
  <2>1. collector' \in Collectors
    <3>1. CASE collector.urls # <<>> /\ ~collector.cancel
               /\ collector' = Given(collector, Head(collector.urls))
      <4>1. GivenTo(Head(collector.urls)) /\ Tail(collector.urls) \in Seq(Dirs \cup (Sources \ Movies))
        BY <3>1, <1>t DEF Collectors, GivenTo
      <4>2. CASE Head(collector.urls) \in Dirs
        <5>1. Append(collector.dirs, Head(collector.urls)) \in Seq(Dirs)
          BY <4>2, <1>t DEF Collectors
        <5> QED
          BY <5>1, <4>1, <4>2, <3>1, <1>t DEF Given, Collectors
      <4>3. CASE Head(collector.urls) \notin Dirs
        <5>1. Append(collector.images, Head(collector.urls)) \in Seq(Sources \ Movies)
          BY <4>1, <4>3, <1>t DEF Collectors, GivenTo
        <5> QED
          BY <5>1, <4>1, <4>3, <3>1, <1>t DEF Given, Collectors
      <4> QED
        BY <4>2, <4>3
    <3> QED
      BY <1>12, <3>1, <1>t DEF Gather, Collectors
  <2> QED
    BY <2>1, <1>12, <1>j, NoCopierInv DEF Gather
<1>2. CASE CollectorSignals
  BY <1>2, <1>t, <1>j, NoCopierInv DEF CollectorSignals, Collectors
<1>3. ASSUME NEW op \in {"Import", "Incorporate"}, Authorize(op) PROVE ImportInv'
  <2>1. job' \in Jobs
    BY <1>3, <1>j DEF Authorize, Jobs
  <2> QED
    BY <2>1, <1>3, <1>t, StartCopyInv, NoCopierInv DEF Authorize, copyVars
<1>4. CASE CloseDialog
  <2>1. job' \in Jobs
    BY <1>4, <1>j DEF CloseDialog, Jobs
  <2> QED
    BY <2>1, <1>4, <1>t, NoCopierInv DEF CloseDialog
<1>5. CASE CancelJob
  <2>1. collector' \in Collectors /\ job' \in Jobs
    BY <1>5, <1>t, <1>j DEF CancelJob, Collectors, Jobs
  <2>2. CASE copiers = <<>>
    BY <2>1, <2>2, <1>5, NoCopierInv DEF CancelJob, copyVars
  <2>3. CASE copiers # <<>>
    <3>1. LastCopier \in 1..Len(copiers)
      BY <2>3, <1>t DEF LastCopier
    <3> QED
      BY <3>1, <2>1, <2>3, <1>5, CancelInv DEF CancelJob
  <2> QED
    BY <2>2, <2>3
<1>6. CASE HandleSignal
  <2>1. job' \in Jobs
    BY <1>6, <1>j DEF HandleSignal, Jobs
  <2> QED
    BY <2>1, <1>6, <1>t, StartCopyInv, NoCopierInv DEF HandleSignal, copyVars
<1>7. CASE Die
  <2>1. <<0>> \o [i \in 1..LastCopier |-> LastCopier + 1 - i] \in Seq(Nat)
    <3>1. LastCopier \in Nat
      BY <1>t DEF LastCopier
    <3>2. [i \in 1..LastCopier |-> LastCopier + 1 - i] \in Seq(Nat)
      BY <3>1
    <3> QED
      BY <3>2
  <2>2. job' \in Jobs
    BY <2>1, <1>7, <1>j DEF Die, Jobs
  <2> QED
    BY <2>2, <1>7, <1>t, NoCopierInv DEF Die
<1>8. CASE StopThread
  <2> DEFINE n == Head(job.doomed)
  <2>0. UNCHANGED <<src, dst, backup>> /\ job.doomed # <<>>
    BY <1>8 DEF StopThread
  <2>1. CASE job' = [job EXCEPT !.doomed = Tail(@)] /\ UNCHANGED <<collector, copiers>>
    <3>1. job.doomed \in Seq(Nat)
      BY <1>j DEF Jobs
    <3>2. Tail(job.doomed) \in Seq(Nat)
      BY <3>1, <2>0
    <3>3. job' \in Jobs
      BY <3>2, <2>1, <1>j DEF Jobs
    <3> QED
      BY <3>3, <2>0, <2>1, <1>t, NoCopierInv DEF copyVars
  <2>2. CASE collector' = [collector EXCEPT !.cancel = TRUE] /\ UNCHANGED <<job, copiers>>
    <3>1. collector' \in Collectors
      BY <2>2, <1>t DEF Collectors
    <3> QED
      BY <3>1, <2>0, <2>2, <1>j, NoCopierInv DEF copyVars
  <2>3. CASE /\ IsRunning(n) /\ n # 0
             /\ copiers' = [copiers EXCEPT ![n] = Canceled(@)]
             /\ UNCHANGED <<job, collector>>
    <3>1. CASE n \in 1..Len(copiers)
      BY <3>1, <2>0, <2>3, <1>t, <1>j, CancelInv
    <3>2. CASE n \notin 1..Len(copiers)
      <4>1. UNCHANGED copiers
        BY <3>2, <2>3, <1>t, ExceptOutside
      <4> QED
        BY <4>1, <2>0, <2>3, <1>t, <1>j, NoCopierInv DEF copyVars
    <3> QED
      BY <3>1, <3>2
  <2> QED
    BY <1>8, <2>1, <2>2, <2>3 DEF StopThread
<1>9. CASE Gone
  <2>1. job' \in Jobs
    BY <1>9, <1>j DEF Gone, Jobs
  <2> QED
    BY <2>1, <1>9, <1>t, NoCopierInv DEF Gone
<1>10. ASSUME NEW n \in 1..Len(copiers), Copy(n) PROVE ImportInv'
  BY <1>10, CopyInv
<1>11. CASE UNCHANGED vars
  BY <1>11, <1>t, <1>j, NoCopierInv DEF vars, jobVars
<1> QED
  BY <1>1, <1>2, <1>3, <1>4, <1>5, <1>6, <1>7, <1>8, <1>9, <1>10, <1>11, <1>12 DEF Next

-----------------------------------------------------------------------------

(* The lists, threads and copies of an import are well-formed, and what a copy
   counts as copied is there, throughout. *)
THEOREM ImportInvariant == Spec => []ImportInv
<1>1. Init => ImportInv
  BY InitInv
<1>2. ImportInv /\ [Next]_vars => ImportInv'
  BY NextInv
<1> QED
  BY <1>1, <1>2, PTL DEF Spec

(* CopyIn deletes or moves away a source only when its copy is in the folder,
   and no later step of any copy takes that copy away. *)
THEOREM NoSourceIsLost == Spec => []DisposedIsCopied
<1>1. ImportInv => DisposedIsCopied
  BY DEF ImportInv
<1> QED
  BY <1>1, ImportInvariant, PTL

-----------------------------------------------------------------------------
(* The job and its signals *)

\* A signal of a copier under way is of one that completed.
SignalsAreTrue ==
  \A i \in 1..Len(posted) : posted[i] = "copied" =>
    \E n \in 1..Len(copiers) : copiers[n].at = "completed"

\* A job that copies is complete when the scanner knows of one copier's copies.
OverIsTold ==
  job.over = "complete" /\ job.op = "Import" =>
    \E n \in 1..Len(copiers) : copiers[n].at = "completed" /\ copiers[n].copied \ Movies \subseteq scanned

\* The collector's signal is yet to come, and once only.
CollectedToCome ==
  collector.at # "ended" \/ \E i \in 1..Len(posted) : posted[i] = "collected"

CollectedOnce ==
  \A i \in 1..Len(posted) : posted[i] = "collected" =>
    collector.at = "ended" /\ \A k \in 1..Len(posted) : posted[k] = "collected" => k = i

\* It is then that the second of two copiers may be started.
StartsAreFew ==
  /\ copiers # <<>> => job.authorized
  /\ Len(copiers) <= IF CollectedToCome THEN 1 ELSE 2

SignalsTyped == posted \in Seq({"collected", "copied"}) /\ scanned \subseteq Sources \ Movies

JobInv == SignalsTyped /\ SignalsAreTrue /\ OverIsTold /\ CollectedOnce /\ StartsAreFew
\* Every step leaves the copiers alone, starts one, cancels one or is one's own.
LEMMA CopiersStep ==
  ASSUME ImportInv, [Next]_vars
  PROVE  \/ UNCHANGED copiers
         \/ StartCopy /\ HandleSignal
         \/ StartCopy /\ \E op \in {"Import", "Incorporate"} : Authorize(op)
         \/ \E n \in 1..Len(copiers) : copiers' = [copiers EXCEPT ![n] = Canceled(@)]
         \/ \E n \in 1..Len(copiers) : Copy(n)
<1>t. copiers \in Seq(Copiers)
  BY DEF ImportInv, Typed, CopyTypeOK
<1>1. CASE CancelJob
  <2>1. copiers # <<>> => LastCopier \in 1..Len(copiers)
    BY <1>t DEF LastCopier
  <2> QED
    BY <2>1, <1>1 DEF CancelJob
<1>2. CASE StopThread
  <2> DEFINE n == Head(job.doomed)
  <2>1. UNCHANGED copiers \/ copiers' = [copiers EXCEPT ![n] = Canceled(@)]
    BY <1>2 DEF StopThread
  <2>2. n \notin 1..Len(copiers) /\ copiers' = [copiers EXCEPT ![n] = Canceled(@)]
          => UNCHANGED copiers
    BY <1>t, ExceptOutside
  <2> QED
    BY <2>1, <2>2
<1> QED
  BY <1>1, <1>2 DEF Next, Gather, Collect, CollectorSignals, Authorize, CloseDialog, HandleSignal,
     Die, Gone, vars, copyVars

\* A copier that completed stays as it is, and no copier vanishes.
LEMMA CompletedStays ==
  ASSUME ImportInv, [Next]_vars
  PROVE  \A n \in 1..Len(copiers) :
           /\ n \in 1..Len(copiers')
           /\ copiers[n].at = "completed" =>
                copiers'[n].at = "completed" /\ copiers'[n].copied = copiers[n].copied
<1>t. copiers \in Seq(Copiers) /\ copiers' \in Seq(Copiers)
  BY NextInv DEF ImportInv, Typed, CopyTypeOK
<1>1. CASE UNCHANGED copiers
  BY <1>1
<1>2. CASE StartCopy
  BY <1>2, <1>t DEF StartCopy
<1>3. ASSUME NEW n \in 1..Len(copiers), copiers' = [copiers EXCEPT ![n] = Canceled(@)]
      PROVE  \A i \in 1..Len(copiers) :
               /\ i \in 1..Len(copiers')
               /\ copiers[i].at = "completed" =>
                    copiers'[i].at = "completed" /\ copiers'[i].copied = copiers[i].copied
  <2>1. copiers[n] \in Copiers
    BY <1>t
  <2>2. /\ Canceled(copiers[n]).at = copiers[n].at
        /\ Canceled(copiers[n]).copied = copiers[n].copied
    BY <2>1 DEF Canceled, Copiers
  <2> QED
    BY <1>3, <1>t, <2>2
<1>4. ASSUME NEW n \in 1..Len(copiers), Copy(n)
      PROVE  \A i \in 1..Len(copiers) :
               /\ i \in 1..Len(copiers')
               /\ copiers[i].at = "completed" =>
                    copiers'[i].at = "completed" /\ copiers'[i].copied = copiers[i].copied
  <2>1. copiers[n].at # "completed"
    BY <1>4 DEF Copy, CopyStep, MakePath, CopyNext, Cancel, CopyEnds, Dispose
  <2>2. PICK d : copiers' = [copiers EXCEPT ![n] = d]
    BY <1>4 DEF Copy, CopyStep, MakePath, CopyNext, Cancel, CopyEnds, Dispose, Become
  <2> QED
    BY <2>1, <2>2, <1>t
<1> QED
  BY <1>1, <1>2, <1>3, <1>4, CopiersStep

LEMMA SignalsStayTyped ==
  ASSUME ImportInv, SignalsTyped, [Next]_vars
  PROVE  SignalsTyped' /\ scanned \subseteq scanned'
<1>1. \/ posted' \in {posted, Append(posted, "collected"), Append(posted, "copied")}
      \/ posted # <<>> /\ posted' = Tail(posted)
  BY DEF Next, Gather, Collect, CollectorSignals, Authorize, CloseDialog, CancelJob, HandleSignal,
     Die, StopThread, Gone, Copy, vars, jobVars
<1>2. scanned' \in {scanned, Sources \ Movies, scanned \cup {f \in Sources \ Movies : dst[Target[f]] = f}}
  BY DEF Next, Gather, Collect, CollectorSignals, Authorize, CloseDialog, CancelJob, HandleSignal,
     Die, StopThread, Gone, Copy, vars, jobVars, AddTree
<1> QED
  BY <1>1, <1>2 DEF SignalsTyped

\* What is queued after a step was queued before it or is queued by it.
LEMMA PostedStep ==
  ASSUME ImportInv, SignalsTyped, [Next]_vars, NEW i \in 1..Len(posted')
  PROVE  \/ i \in 1..Len(posted) /\ posted'[i] = posted[i] /\ Len(posted) <= Len(posted')
         \/ HandleSignal /\ i + 1 \in 1..Len(posted) /\ posted'[i] = posted[i + 1]
         \/ CollectorSignals /\ posted'[i] = "collected" /\ i = Len(posted) + 1
         \/ /\ posted'[i] = "copied" /\ i = Len(posted) + 1
            /\ \E n \in 1..Len(copiers) : copiers'[n].at = "completed"
<1>1. \/ UNCHANGED posted
      \/ HandleSignal
      \/ CollectorSignals
      \/ /\ posted' = Append(posted, "copied")
         /\ \E n \in 1..Len(copiers) : copiers'[n].at = "completed"
  BY DEF Next, Gather, Collect, Authorize, CloseDialog, CancelJob,
     Die, StopThread, Gone, Copy, vars, jobVars
<1>2. HandleSignal => posted # <<>> /\ posted' = Tail(posted)
  BY DEF HandleSignal
<1>3. CollectorSignals => posted' = Append(posted, "collected")
  BY DEF CollectorSignals
<1> QED
  BY <1>1, <1>2, <1>3 DEF SignalsTyped
LEMMA SignalsStayTrue ==
  ASSUME ImportInv, SignalsTyped, SignalsAreTrue, [Next]_vars
  PROVE  SignalsAreTrue'
<1> SUFFICES ASSUME NEW i \in 1..Len(posted'), posted'[i] = "copied"
             PROVE  \E n \in 1..Len(copiers') : copiers'[n].at = "completed"
  BY DEF SignalsAreTrue
<1>1. \E n \in 1..Len(copiers) : copiers[n].at = "completed" \/ copiers'[n].at = "completed"
  BY PostedStep DEF SignalsAreTrue
<1> QED
  BY <1>1, CompletedStays

LEMMA OverStaysTold ==
  ASSUME ImportInv, SignalsTyped, SignalsAreTrue, OverIsTold, [Next]_vars
  PROVE  OverIsTold'
<1> SUFFICES ASSUME job'.over = "complete", job'.op = "Import"
             PROVE  \E n \in 1..Len(copiers') :
                      copiers'[n].at = "completed" /\ copiers'[n].copied \ Movies \subseteq scanned'
  BY DEF OverIsTold
<1>j. job \in Jobs
  BY DEF ImportInv, Typed
<1>1. CASE job.over = "complete" /\ job.op = "Import"
  BY <1>1, CompletedStays, SignalsStayTyped DEF OverIsTold
<1>2. CASE HandleSignal /\ Head(posted) = "copied"
  <2>1. PICK n \in 1..Len(copiers) : copiers[n].at = "completed"
    <3>1. 1 \in 1..Len(posted) /\ posted[1] = "copied"
      BY <1>2 DEF SignalsTyped, HandleSignal
    <3> QED
      BY <3>1 DEF SignalsAreTrue
  <2>2. scanned' = scanned \cup {f \in Sources \ Movies : dst[Target[f]] = f}
    BY <1>2 DEF HandleSignal, AddTree
  <2>3. copiers[n].copied \subseteq Sources
    <3>1. copiers[n] \in Copiers
      BY DEF ImportInv, Typed, CopyTypeOK
    <3> QED
      BY <3>1 DEF Copiers
  <2>4. copiers[n].copied \ Movies \subseteq scanned'
    BY <2>2, <2>3 DEF ImportInv, CopiedIsThere
  <2> QED
    BY <2>1, <2>4, CompletedStays
<1>3. \/ job.over = "complete" /\ job.op = "Import"
      \/ HandleSignal /\ Head(posted) = "copied"
  <2>1. ASSUME NEW op \in {"Import", "Incorporate"}, Authorize(op)
        PROVE  job'.over = job.over /\ job'.op = job.op
    BY <2>1, <1>j DEF Authorize, Jobs
  <2>2. CASE Die \/ StopThread \/ Gone
    BY <2>2, <1>j DEF Die, StopThread, Gone, Jobs
  <2>3. CASE CloseDialog \/ CancelJob
    BY <2>3, <1>j DEF CloseDialog, CancelJob, Jobs
  <2>4. CASE HandleSignal
    BY <2>4, <1>j DEF HandleSignal, Jobs
  <2> QED
    BY <2>1, <2>2, <2>3, <2>4 DEF Next, Gather, Collect, CollectorSignals, Copy, vars, jobVars
<1> QED
  BY <1>1, <1>2, <1>3

LEMMA CollectedStaysOnce ==
  ASSUME ImportInv, SignalsTyped, CollectedOnce, [Next]_vars
  PROVE  CollectedOnce'
<1>1. collector.at = "ended" => collector'.at = "ended"
  <2>1. collector \in Collectors
    BY DEF ImportInv, Typed
  <2> QED
    BY <2>1 DEF Next, Gather, Collect, CollectorSignals, Authorize, CloseDialog, CancelJob,
       HandleSignal, Die, StopThread, Gone, Copy, vars, jobVars, Collectors
<1>2. CollectorSignals => collector.at # "ended" /\ collector'.at = "ended"
  BY DEF CollectorSignals, ImportInv, Typed, Collectors
<1> SUFFICES ASSUME NEW i \in 1..Len(posted'), posted'[i] = "collected"
             PROVE  /\ collector'.at = "ended"
                    /\ \A k \in 1..Len(posted') : posted'[k] = "collected" => k = i
  BY DEF CollectedOnce
<1>3. CASE CollectorSignals
  <2>1. \A k \in 1..Len(posted) : posted[k] # "collected"
    BY <1>2, <1>3 DEF CollectedOnce
  <2>2. posted' = Append(posted, "collected")
    BY <1>3 DEF CollectorSignals
  <2> QED
    BY <1>2, <1>3, <2>1, <2>2 DEF SignalsTyped
<1>4. CASE HandleSignal
  <2>1. posted # <<>> /\ posted' = Tail(posted)
    BY <1>4 DEF HandleSignal
  <2>2. \A k \in 1..Len(posted') : k + 1 \in 1..Len(posted) /\ posted'[k] = posted[k + 1]
    BY <2>1 DEF SignalsTyped
  <2>3. /\ collector.at = "ended"
        /\ \A k \in 1..Len(posted') : posted'[k] = "collected" => k + 1 = i + 1
    BY <2>2 DEF CollectedOnce
  <2> QED
    BY <1>1, <2>3
<1>5. CASE ~CollectorSignals /\ ~HandleSignal
  <2>1. \A k \in 1..Len(posted') :
          posted'[k] = "collected" => k \in 1..Len(posted) /\ posted[k] = "collected"
    BY <1>5, PostedStep
  <2> QED
    BY <1>1, <2>1 DEF CollectedOnce
<1> QED
  BY <1>3, <1>4, <1>5
LEMMA StartsStayFew ==
  ASSUME ImportInv, SignalsTyped, CollectedOnce, StartsAreFew, [Next]_vars
  PROVE  StartsAreFew'
<1>t. copiers \in Seq(Copiers) /\ job \in Jobs /\ collector \in Collectors
  BY DEF ImportInv, Typed, CopyTypeOK
<1>a. job.authorized => job'.authorized
  <2>1. ASSUME NEW op \in {"Import", "Incorporate"}, Authorize(op) PROVE job'.authorized
    BY <2>1, <1>t DEF Authorize, Jobs
  <2>2. CASE Die \/ StopThread \/ Gone
    BY <2>2, <1>t DEF Die, StopThread, Gone, Jobs
  <2>3. CASE CloseDialog \/ CancelJob \/ HandleSignal
    BY <2>3, <1>t DEF CloseDialog, CancelJob, HandleSignal, Jobs
  <2> QED
    BY <2>1, <2>2, <2>3 DEF Next, Gather, Collect, CollectorSignals, Copy, vars, jobVars
<1>c. CollectedToCome' => CollectedToCome
  <2>1. collector'.at # "ended" => collector.at # "ended"
    BY <1>t DEF Next, Gather, Collect, CollectorSignals, Authorize, CloseDialog, CancelJob,
       HandleSignal, Die, StopThread, Gone, Copy, vars, jobVars, Collectors
  <2>2. CollectorSignals => collector.at # "ended"
    BY DEF CollectorSignals
  <2>3. ASSUME NEW i \in 1..Len(posted'), posted'[i] = "collected"
        PROVE  CollectedToCome
    BY <2>2, <2>3, PostedStep DEF CollectedToCome
  <2> QED
    BY <2>1, <2>3 DEF CollectedToCome
<1>s. StartCopy => Len(copiers') = Len(copiers) + 1
  BY <1>t DEF StartCopy
<1>1. ASSUME NEW op \in {"Import", "Incorporate"}, Authorize(op), StartCopy
      PROVE  StartsAreFew'
  <2>1. ~job.authorized /\ job'.authorized
    BY <1>1, <1>t DEF Authorize, Jobs
  <2>2. Len(copiers) = 0
    BY <2>1 DEF StartsAreFew
  <2>3. Len(copiers') = 1
    BY <2>2, <1>1, <1>s
  <2> QED
    BY <2>1, <2>3 DEF StartsAreFew
<1>2. CASE HandleSignal /\ StartCopy
  <2>0. posted # <<>> /\ posted' = Tail(posted)
    BY <1>2 DEF HandleSignal
  <2>1. 1 \in 1..Len(posted) /\ posted[1] = "collected" /\ job.authorized
    <3>0. ~UNCHANGED copiers => Head(posted) = "collected" /\ job.authorized
      BY <1>2 DEF HandleSignal
    <3>1. Head(posted) = "collected" /\ job.authorized
      BY <3>0, <1>2, <1>s, <1>t
    <3> QED
      BY <2>0, <3>1 DEF SignalsTyped
  <2>3. ~CollectedToCome'
    <3>1. collector' = collector /\ collector.at = "ended"
      BY <1>2, <2>1 DEF HandleSignal, CollectedOnce
    <3>2. \A i \in 1..Len(posted') : posted'[i] # "collected"
      BY <2>0, <2>1 DEF SignalsTyped, CollectedOnce
    <3> QED
      BY <3>1, <3>2 DEF CollectedToCome
  <2>4. Len(copiers) <= 1
    BY <2>1 DEF StartsAreFew, CollectedToCome
  <2> QED
    BY <2>1, <2>3, <2>4, <1>2, <1>a, <1>s, <1>t DEF StartsAreFew
<1>3. CASE Len(copiers') = Len(copiers) /\ (copiers' # <<>> => copiers # <<>>)
  BY <1>3, <1>a, <1>c, <1>t DEF StartsAreFew
<1>4. ASSUME NEW n \in 1..Len(copiers), NEW d, copiers' = [copiers EXCEPT ![n] = d]
      PROVE  Len(copiers') = Len(copiers) /\ (copiers' # <<>> => copiers # <<>>)
  <2>1. copiers' \in Seq(Copiers)
    BY NextInv DEF ImportInv, Typed, CopyTypeOK
  <2> QED
    BY <2>1, <1>4, <1>t
<1>5. ASSUME NEW n \in 1..Len(copiers), Copy(n)
      PROVE  \E d : copiers' = [copiers EXCEPT ![n] = d]
  BY <1>5 DEF Copy, CopyStep, MakePath, CopyNext, Cancel, CopyEnds, Dispose, Become
<1> QED
  BY <1>1, <1>2, <1>3, <1>4, <1>5, CopiersStep

(* The signals of an import's threads, the job and what the scanner was told
   agree with what the copiers did. *)
THEOREM JobInvariant == Spec => []JobInv
<1>1. Init => JobInv
  <2> SUFFICES ASSUME Init PROVE JobInv
    OBVIOUS
  <2>1. posted = <<>> /\ scanned = {} /\ copiers = <<>> /\ job.over # "complete"
    <3>1. PICK disp \in Dispositions, moviedest \in BOOLEAN :
            job = [authorized |-> FALSE, op |-> "Import", srcdisp |-> disp,
                   moviedest |-> moviedest, over |-> "", doomed |-> <<>>, life |-> "alive"]
      BY DEF Init
    <3>2. job.over # "complete"
      BY <3>1
    <3> QED
      BY <3>2 DEF Init, CopyInit
  <2>2. SignalsTyped /\ SignalsAreTrue /\ OverIsTold /\ CollectedOnce
    BY <2>1 DEF SignalsTyped, SignalsAreTrue, OverIsTold, CollectedOnce
  <2>3. StartsAreFew
    <3>1. Len(copiers) = 0
      BY <2>1
    <3> QED
      BY <2>1, <3>1 DEF StartsAreFew
  <2> QED
    BY <2>2, <2>3 DEF JobInv
<1>2. ImportInv /\ JobInv /\ [Next]_vars => JobInv'
  BY SignalsStayTyped, SignalsStayTrue, OverStaysTold, CollectedStaysOnce, StartsStayFew
     DEF JobInv
<1> QED
  BY <1>1, <1>2, ImportInvariant, PTL DEF Spec

(* At most two copies of an import are ever started, though both authorize and
   the collector's signal may start one; and everything is well-formed. *)
THEOREM TypeCorrect == Spec => []TypeOK
<1>1. ImportInv /\ JobInv => TypeOK
  <2> SUFFICES ASSUME ImportInv, JobInv PROVE TypeOK
    OBVIOUS
  <2>1. copiers \in Seq(Copiers)
    BY DEF ImportInv, Typed, CopyTypeOK
  <2>2. copiers # <<>> => job.authorized /\ Len(copiers) <= MaxCopiers
    BY <2>1 DEF JobInv, StartsAreFew, MaxCopiers
  <2> QED
    BY <2>2 DEF TypeOK, ImportInv, JobInv, Typed, SignalsTyped, Collectors, Jobs
<1> QED
  BY <1>1, ImportInvariant, JobInvariant, PTL

-----------------------------------------------------------------------------
(* The list of files *)

\* L is the folders listed so far: what was given is taken up or is still to be, and so is
\* what is in L.
FoundSoFar(c, L) ==
  /\ \A u \in Range(Urls) :
       u \in L \/ u \in Range(c.urls) \/ u \in Range(c.dirs) \/ u \in Range(c.images)
  /\ \A d \in L : /\ Range(Subfolders[d]) \subseteq L \cup Range(c.dirs)
                  /\ Range(Images[d]) \subseteq Range(c.images)
                  /\ Range(MoviesIn[d]) \subseteq Range(c.movies)

\* complete_ says that nothing is left, and is set by the time the signal is emitted.
CompleteIsTrue(c) ==
  /\ c.complete => c.urls = <<>> /\ c.dirs = <<>>
  /\ c.at \in {"collect", "signal"} => c.urls = <<>>
  /\ c.at = "collect" /\ c.dirs = <<>> => c.complete
  /\ c.at = "signal" => c.complete

ListInv ==
  /\ \E L \in SUBSET Dirs : FoundSoFar(collector, L)
  /\ CompleteIsTrue(collector)
  /\ (\E i \in 1..Len(posted) : posted[i] = "collected") => collector.complete

\* A copier was started on all that is to be copied, and has tried what is behind it.
Tried(c) ==
  /\ Chosen \subseteq Range(c.list)
  /\ \A i \in 1..Len(c.list) : i < c.next => c.list[i] \in c.copied \cup c.failed
  /\ c.at \in {"dispose", "completed"} => Range(c.list) \subseteq c.copied \cup c.failed

TriedInv == \A n \in 1..Len(copiers) : Tried(copiers[n])

LEMMA RangeOfConcat ==
  ASSUME NEW S, NEW T, NEW s \in Seq(S), NEW t \in Seq(T)
  PROVE  Range(s \o t) = Range(s) \cup Range(t)
<1>1. \A x \in Range(s) : x \in Range(s \o t)
  BY DEF Range
<1>2. ASSUME NEW x \in Range(t) PROVE x \in Range(s \o t)
  <2>1. PICK i \in 1..Len(t) : x = t[i]
    BY DEF Range
  <2>2. Len(s) + i \in 1..Len(s \o t) /\ (s \o t)[Len(s) + i] = x
    BY <2>1
  <2> QED
    BY <2>2 DEF Range
<1>3. ASSUME NEW x \in Range(s \o t) PROVE x \in Range(s) \cup Range(t)
  <2>1. PICK i \in 1..Len(s) + Len(t) : x = (s \o t)[i]
    BY DEF Range
  <2>2. CASE i <= Len(s)
    BY <2>1, <2>2 DEF Range
  <2>3. CASE i > Len(s)
    <3>1. i - Len(s) \in 1..Len(t) /\ x = t[i - Len(s)]
      BY <2>1, <2>3
    <3> QED
      BY <3>1 DEF Range
  <2> QED
    BY <2>2, <2>3
<1> QED
  BY <1>1, <1>2, <1>3

LEMMA RangeOfTail ==
  ASSUME NEW S, NEW s \in Seq(S), s # <<>>
  PROVE  Range(s) = {Head(s)} \cup Range(Tail(s))
<1>1. Head(s) = s[1] /\ 1 \in 1..Len(s)
  OBVIOUS
<1>2. ASSUME NEW i \in 2..Len(s) PROVE i - 1 \in 1..Len(Tail(s)) /\ Tail(s)[i - 1] = s[i]
  OBVIOUS
<1>3. ASSUME NEW i \in 1..Len(Tail(s)) PROVE i + 1 \in 1..Len(s) /\ Tail(s)[i] = s[i + 1]
  OBVIOUS
<1>4. Range(s) \subseteq {Head(s)} \cup Range(Tail(s))
  <2> SUFFICES ASSUME NEW i \in 1..Len(s), i # 1 PROVE s[i] \in Range(Tail(s))
    BY <1>1 DEF Range
  <2> QED
    BY <1>2 DEF Range
<1>5. Range(Tail(s)) \subseteq Range(s)
  BY <1>3 DEF Range
<1> QED
  BY <1>1, <1>4, <1>5 DEF Range

LEMMA RangeOfAppend ==
  ASSUME NEW S, NEW s \in Seq(S), NEW e
  PROVE  Range(Append(s, e)) = Range(s) \cup {e}
<1>1. Append(s, e)[Len(s) + 1] = e /\ Len(Append(s, e)) = Len(s) + 1
      /\ \A i \in 1..Len(s) : Append(s, e)[i] = s[i]
  OBVIOUS
<1>2. DOMAIN Append(s, e) = 1..(Len(s) + 1) /\ DOMAIN s = 1..Len(s) /\ Len(s) \in Nat
  OBVIOUS
<1> QED
  BY <1>1, <1>2 DEF Range

LEMMA RangeOfNone == Range(<<>>) = {}
  BY DEF Range

\* Once the list is complete, all that is to be copied is in it.
LEMMA CompleteFindsAll ==
  ASSUME ImportInv, ListInv, collector.complete
  PROVE  Chosen \subseteq Range(Wanted)
<1>t. /\ collector.images \in Seq(Sources \ Movies) /\ collector.movies \in Seq(Movies)
      /\ collector.urls = <<>> /\ collector.dirs = <<>> /\ job.moviedest \in BOOLEAN
  BY DEF ImportInv, Typed, Collectors, Jobs, ListInv, CompleteIsTrue
<1>1. PICK L \in SUBSET Dirs : FoundSoFar(collector, L)
  BY DEF ListInv
<1>2. Range(collector.images) \subseteq Sources
  BY <1>t DEF Range
<1>3. Reached \subseteq L
  <2>1. Closed(L)
    BY <1>1, <1>t, RangeOfNone DEF FoundSoFar, Closed
  <2>2. Range(Urls) \cap Dirs \subseteq L
    BY <1>1, <1>2, <1>t, RangeOfNone, JobAssumption DEF FoundSoFar
  <2> QED
    BY <2>1, <2>2 DEF Reached
<1>4. Range(Urls) \ Dirs \subseteq Range(collector.images)
  BY <1>1, <1>t, RangeOfNone DEF FoundSoFar
<1>5. CASE job.moviedest
  <2>1. Range(Wanted) = Range(collector.images) \cup Range(collector.movies)
    BY <1>5, <1>t, RangeOfConcat DEF Wanted
  <2>2. \A d \in Reached : /\ Range(Images[d]) \subseteq Range(collector.images)
                           /\ Range(MoviesIn[d]) \subseteq Range(collector.movies)
    BY <1>1, <1>3 DEF FoundSoFar
  <2> DEFINE I == UNION {Range(Images[d]) : d \in Reached}
             M == UNION {Range(MoviesIn[d]) : d \in Reached}
  <2>3. I \subseteq Range(collector.images)
    BY <2>2
  <2>4. M \subseteq Range(collector.movies)
    BY <2>2
  <2>5. Chosen = (Range(Urls) \ Dirs) \cup I \cup M
    BY <1>5 DEF Chosen
  <2> HIDE DEF I, M
  <2> QED
    BY <2>1, <2>3, <2>4, <2>5, <1>4
<1>6. CASE ~job.moviedest
  <2>1. collector.images \o <<>> = collector.images
    BY <1>t
  <2>2. Range(Wanted) = Range(collector.images)
    BY <2>1, <1>6 DEF Wanted
  <2>3. \A d \in Reached : Range(Images[d]) \subseteq Range(collector.images)
    BY <1>1, <1>3 DEF FoundSoFar
  <2> QED
    BY <2>2, <2>3, <1>4, <1>6 DEF Chosen
<1> QED
  BY <1>5, <1>6, <1>t

LEMMA ListInit == Init => ListInv
<1> SUFFICES ASSUME Init PROVE ListInv
  OBVIOUS
<1>1. /\ collector = [urls |-> Urls, dirs |-> <<>>, images |-> <<>>, movies |-> <<>>,
                      complete |-> FALSE, cancel |-> FALSE, at |-> "urls"]
      /\ posted = <<>>
  BY DEF Init
<1>2. FoundSoFar(collector, {})
  BY <1>1 DEF FoundSoFar
<1> QED
  BY <1>1, <1>2 DEF ListInv, CompleteIsTrue

\* A url that is taken up is a folder to come or an image found.
LEMMA GatherList ==
  ASSUME ImportInv, ListInv, Gather
  PROVE  (\E L \in SUBSET Dirs : FoundSoFar(collector', L)) /\ CompleteIsTrue(collector')
<1>t. /\ collector \in Collectors /\ collector.at = "urls"
      /\ collector.dirs \in Seq(Dirs) /\ collector.images \in Seq(Sources \ Movies)
      /\ collector.urls \in Seq(Dirs \cup (Sources \ Movies))
  BY DEF ImportInv, Typed, Collectors, Gather
<1>1. PICK L \in SUBSET Dirs : FoundSoFar(collector, L)
  BY DEF ListInv
<1>2. CASE collector.urls # <<>> /\ ~collector.cancel
           /\ collector' = Given(collector, Head(collector.urls))
  <2> DEFINE u == Head(collector.urls)
  <2>0. Range(collector.urls) = {u} \cup Range(Tail(collector.urls))
    BY <1>2, <1>t, RangeOfTail
  <2>1. CASE u \in Dirs
    <3>1. /\ collector'.urls = Tail(collector.urls)
          /\ collector'.dirs = Append(collector.dirs, u)
          /\ collector'.images = collector.images /\ collector'.movies = collector.movies
          /\ collector'.at = "urls" /\ collector'.complete = collector.complete
      BY <1>2, <1>t, <2>1 DEF Given, Collectors
    <3>2. Range(collector'.dirs) = Range(collector.dirs) \cup {u}
      BY <3>1, <1>t, RangeOfAppend
    <3>3. FoundSoFar(collector', L)
      BY <2>0, <3>1, <3>2, <1>1 DEF FoundSoFar
    <3>4. ~collector.complete
      BY <1>2 DEF ListInv, CompleteIsTrue
    <3> QED
      BY <3>1, <3>3, <3>4 DEF CompleteIsTrue
  <2>2. CASE u \notin Dirs
    <3>1. /\ collector'.urls = Tail(collector.urls)
          /\ collector'.images = Append(collector.images, u)
          /\ collector'.dirs = collector.dirs /\ collector'.movies = collector.movies
          /\ collector'.at = "urls" /\ collector'.complete = collector.complete
      BY <1>2, <1>t, <2>2 DEF Given, Collectors
    <3>2. Range(collector'.images) = Range(collector.images) \cup {u}
      BY <3>1, <1>t, RangeOfAppend
    <3>3. FoundSoFar(collector', L)
      BY <2>0, <3>1, <3>2, <1>1 DEF FoundSoFar
    <3>4. ~collector.complete
      BY <1>2 DEF ListInv, CompleteIsTrue
    <3> QED
      BY <3>1, <3>3, <3>4 DEF CompleteIsTrue
  <2> QED
    BY <2>1, <2>2
<1>3. CASE ~(collector.urls # <<>> /\ ~collector.cancel
             /\ collector' = Given(collector, Head(collector.urls)))
  <2>1. /\ collector'.urls = collector.urls /\ collector'.dirs = collector.dirs
        /\ collector'.images = collector.images /\ collector'.movies = collector.movies
        /\ \/ collector'.at = "ended" /\ collector'.complete = collector.complete
           \/ /\ collector'.at = "collect" /\ collector.urls = <<>>
              /\ collector'.complete = (collector.dirs = <<>>)
    BY <1>3, <1>t DEF Gather, Collectors
  <2> QED
    BY <2>1, <1>1 DEF FoundSoFar, CompleteIsTrue, ListInv
<1> QED
  BY <1>2, <1>3

\* A folder that is listed becomes one of L.
LEMMA CollectList ==
  ASSUME ImportInv, ListInv, Collect
  PROVE  (\E L \in SUBSET Dirs : FoundSoFar(collector', L)) /\ CompleteIsTrue(collector')
<1>t. /\ collector \in Collectors /\ collector.at = "collect"
      /\ collector.dirs \in Seq(Dirs) /\ collector.images \in Seq(Sources \ Movies)
      /\ collector.movies \in Seq(Movies)
      /\ collector.urls = <<>>
  BY DEF ImportInv, Typed, Collectors, Collect, ListInv, CompleteIsTrue
<1>1. PICK L \in SUBSET Dirs : FoundSoFar(collector, L)
  BY DEF ListInv
<1>2. CASE collector.dirs # <<>> /\ ~collector.cancel
           /\ collector' = Listed(collector, Head(collector.dirs))
  <2> DEFINE d == Head(collector.dirs)
  <2>0. /\ Range(collector.dirs) = {d} \cup Range(Tail(collector.dirs))
        /\ d \in Dirs /\ Tail(collector.dirs) \in Seq(Dirs)
    BY <1>2, <1>t, RangeOfTail
  <2>1. /\ Subfolders[d] \in Seq(Dirs) /\ Images[d] \in Seq(Sources \ Movies)
        /\ MoviesIn[d] \in Seq(Movies)
    BY <2>0, JobAssumption
  <2>2. /\ collector'.dirs = Tail(collector.dirs) \o Subfolders[d]
        /\ collector'.images = collector.images \o Images[d]
        /\ collector'.movies = collector.movies \o MoviesIn[d]
        /\ collector'.urls = <<>> /\ collector'.at = "collect"
        /\ collector'.complete = (Tail(collector.dirs) \o Subfolders[d] = <<>>)
    BY <1>2, <1>t DEF Listed, Collectors
  <2>3. /\ Range(collector'.dirs) = Range(Tail(collector.dirs)) \cup Range(Subfolders[d])
        /\ Range(collector'.images) = Range(collector.images) \cup Range(Images[d])
        /\ Range(collector'.movies) = Range(collector.movies) \cup Range(MoviesIn[d])
    <3>0. Tail(collector.dirs) \in Seq(Dirs) /\ Subfolders[d] \in Seq(Dirs)
      BY <2>0, <2>1
    <3>1. Range(Tail(collector.dirs) \o Subfolders[d])
            = Range(Tail(collector.dirs)) \cup Range(Subfolders[d])
      <4> DEFINE r == Tail(collector.dirs)
                 b == Subfolders[d]
      <4> HIDE DEF r, b
      <4>1. r \in Seq(Dirs) /\ b \in Seq(Dirs)
        BY <3>0 DEF r, b
      <4>2. Range(r \o b) = Range(r) \cup Range(b)
        BY <4>1, RangeOfConcat
      <4> QED
        BY <4>2 DEF r, b
    <3>2. Range(collector.images \o Images[d]) = Range(collector.images) \cup Range(Images[d])
      BY <1>t, <2>1, RangeOfConcat
    <3>3. Range(collector.movies \o MoviesIn[d]) = Range(collector.movies) \cup Range(MoviesIn[d])
      BY <1>t, <2>1, RangeOfConcat
    <3> QED
      BY <2>2, <3>1, <3>2, <3>3, Zenon
  <2>4. FoundSoFar(collector', L \cup {d})
    BY <2>0, <2>2, <2>3, <1>1, <1>t DEF FoundSoFar
  <2> QED
    BY <2>0, <2>2, <2>4 DEF CompleteIsTrue
<1>3. CASE ~(collector.dirs # <<>> /\ ~collector.cancel
             /\ collector' = Listed(collector, Head(collector.dirs)))
  <2>1. /\ collector'.urls = collector.urls /\ collector'.dirs = collector.dirs
        /\ collector'.images = collector.images /\ collector'.movies = collector.movies
        /\ collector'.complete = collector.complete
        /\ \/ collector'.at = "ended"
           \/ collector'.at = "signal" /\ collector.dirs = <<>>
    BY <1>3, <1>t DEF Collect, Collectors
  <2> QED
    BY <2>1, <1>1, <1>t DEF FoundSoFar, CompleteIsTrue, ListInv
<1> QED
  BY <1>2, <1>3

LEMMA ListStep ==
  ASSUME ImportInv, SignalsTyped, ListInv, [Next]_vars
  PROVE  ListInv'
<1>t. collector \in Collectors
  BY DEF ImportInv, Typed
<1>1. (\E L \in SUBSET Dirs : FoundSoFar(collector', L)) /\ CompleteIsTrue(collector')
  <2>1. CASE Gather \/ Collect
    BY <2>1, GatherList, CollectList
  <2>2. CASE ~Gather /\ ~Collect
    <3>1. /\ collector'.urls = collector.urls /\ collector'.dirs = collector.dirs
          /\ collector'.images = collector.images /\ collector'.movies = collector.movies
          /\ collector'.complete = collector.complete
          /\ collector'.at \in {collector.at, "ended"}
      BY <2>2, <1>t DEF Next, CollectorSignals, Authorize, CloseDialog, CancelJob,
         HandleSignal, Die, StopThread, Gone, Copy, vars, jobVars, Collectors
    <3> QED
      BY <3>1 DEF ListInv, FoundSoFar, CompleteIsTrue
  <2> QED
    BY <2>1, <2>2
<1>2. collector.complete => collector'.complete
  <2>1. CASE Gather \/ Collect
    <3>1. collector.complete => collector.urls = <<>> /\ collector.dirs = <<>>
      BY DEF ListInv, CompleteIsTrue
    <3> QED
      BY <2>1, <3>1, <1>t DEF Gather, Collect, Collectors
  <2>2. CASE ~Gather /\ ~Collect
    BY <2>2, <1>t DEF Next, CollectorSignals, Authorize, CloseDialog, CancelJob,
       HandleSignal, Die, StopThread, Gone, Copy, vars, jobVars, Collectors
  <2> QED
    BY <2>1, <2>2
<1>3. ASSUME NEW i \in 1..Len(posted'), posted'[i] = "collected"
      PROVE  collector.complete
  <2>1. CollectorSignals => collector.complete
    BY DEF CollectorSignals, ListInv, CompleteIsTrue
  <2> QED
    BY <1>3, <2>1, PostedStep DEF ListInv
<1> QED
  BY <1>1, <1>2, <1>3 DEF ListInv

LEMMA MovieDestStays ==
  ASSUME ImportInv, [Next]_vars
  PROVE  Chosen' = Chosen
<1>j. job \in Jobs
  BY DEF ImportInv, Typed
<1>1. job'.moviedest = job.moviedest
  <2>1. ASSUME NEW op \in {"Import", "Incorporate"}, Authorize(op)
        PROVE  job'.moviedest = job.moviedest
    BY <2>1, <1>j DEF Authorize, Jobs
  <2>2. CASE CloseDialog \/ CancelJob \/ HandleSignal \/ Die \/ StopThread \/ Gone
    BY <2>2, <1>j DEF CloseDialog, CancelJob, HandleSignal, Die, StopThread, Gone, Jobs
  <2> QED
    BY <2>1, <2>2 DEF Next, Gather, Collect, CollectorSignals, Copy, vars, jobVars
<1> QED
  BY <1>1 DEF Chosen

\* An iteration puts the file on one side or the other.
LEMMA CopyTried ==
  ASSUME ImportInv, TriedInv, NEW n \in 1..Len(copiers), Copy(n)
  PROVE  \E d : /\ copiers' = [copiers EXCEPT ![n] = d]
               /\ Tried(d)
<1> DEFINE c == copiers[n]
<1>c. c \in Copiers /\ Tried(c)
  BY DEF ImportInv, Typed, CopyTypeOK, TriedInv
<1>t. /\ c.list \in Seq(Sources) /\ c.next \in Nat \ {0}
      /\ Range(c.list) = {c.list[i] : i \in 1..Len(c.list)}
  BY <1>c DEF Copiers, Range
<1>1. CASE MakePath(n)
  <2>1. CASE Become(n, [c EXCEPT !.at = "copy"])
    <3>1. Tried([c EXCEPT !.at = "copy"])
      BY <1>c DEF Tried, Copiers
    <3> QED
      BY <2>1, <3>1 DEF Become
  <2>2. CASE Become(n, [c EXCEPT !.at = "completed",
                          !.failed = {c.list[i] : i \in 1..Len(c.list)}])
    <3>1. Tried([c EXCEPT !.at = "completed",
                   !.failed = {c.list[i] : i \in 1..Len(c.list)}])
      BY <1>c, <1>t DEF Tried, Copiers
    <3> QED
      BY <2>2, <3>1 DEF Become
  <2> QED
    BY <1>1, <2>1, <2>2 DEF MakePath
<1>2. CASE CopyNext(n)
  <2> DEFINE f == c.list[c.next]
             e == [c EXCEPT !.next = @ + 1, !.copied = @ \cup {f}]
             g == [c EXCEPT !.next = @ + 1, !.failed = @ \cup {f}]
  <2>0. c.at = "copy"
    BY <1>2 DEF CopyNext
  <2>1. Tried(e) /\ Tried(g)
    BY <1>c, <1>t, <2>0 DEF Tried, Copiers
  <2>2. Become(n, e) \/ Become(n, g)
    BY <1>2 DEF CopyNext
  <2> QED
    BY <2>1, <2>2 DEF Become
<1>3. CASE Cancel(n)
  <2>1. Tried([c EXCEPT !.at = "canceled"])
    BY <1>c DEF Tried, Copiers
  <2> QED
    BY <2>1, <1>3 DEF Cancel, Become
<1>4. CASE CopyEnds(n)
  <2>1. c.next > Len(c.list)
    BY <1>4 DEF CopyEnds
  <2>2. Tried([c EXCEPT !.at = "dispose"])
    BY <2>1, <1>c, <1>t DEF Tried, Copiers
  <2> QED
    BY <2>2, <1>4 DEF CopyEnds, Become
<1>5. CASE Dispose(n)
  <2>1. Tried([c EXCEPT !.at = "completed"])
    BY <1>5, <1>c DEF Dispose, Tried, Copiers
  <2> QED
    BY <2>1, <1>5 DEF Dispose, Become
<1> QED
  BY <1>1, <1>2, <1>3, <1>4, <1>5 DEF Copy, CopyStep

LEMMA TriedStep ==
  ASSUME ImportInv, SignalsTyped, ListInv, TriedInv, [Next]_vars
  PROVE  TriedInv'
<1>t. copiers \in Seq(Copiers) /\ collector \in Collectors /\ job \in Jobs
  BY DEF ImportInv, Typed, CopyTypeOK
<1>c. Chosen' = Chosen
  BY MovieDestStays
<1> SUFFICES \A n \in 1..Len(copiers') : Tried(copiers'[n])
  BY <1>c DEF TriedInv, Tried
<1>1. CASE UNCHANGED copiers
  BY <1>1 DEF TriedInv
<1>2. CASE StartCopy /\ collector.complete
  <2>1. Wanted \in Seq(Sources) /\ Chosen \subseteq Range(Wanted)
    BY <1>2, <1>t, WantedTyped, CompleteFindsAll
  <2>2. Tried(Started(Wanted, job.srcdisp))
    BY <2>1 DEF Tried, Started
  <2> QED
    BY <1>2, <1>t, <2>2 DEF StartCopy, TriedInv
<1>3. ASSUME NEW n \in 1..Len(copiers), NEW d, Tried(d), copiers' = [copiers EXCEPT ![n] = d]
      PROVE  \A i \in 1..Len(copiers') : Tried(copiers'[i])
  BY <1>3, <1>t DEF TriedInv
<1>4. ASSUME NEW n \in 1..Len(copiers), copiers' = [copiers EXCEPT ![n] = Canceled(@)]
      PROVE  \A i \in 1..Len(copiers') : Tried(copiers'[i])
  <2>1. copiers[n] \in Copiers /\ Tried(copiers[n])
    BY <1>t DEF TriedInv
  <2>2. Tried(Canceled(copiers[n]))
    BY <2>1 DEF Tried, Canceled, Copiers
  <2> QED
    BY <1>3, <1>4, <2>2
<1>5. StartCopy /\ HandleSignal => collector.complete
  <2> SUFFICES ASSUME StartCopy, HandleSignal PROVE collector.complete
    OBVIOUS
  <2>1. copiers' # copiers
    BY <1>t DEF StartCopy
  <2>2. posted # <<>> /\ Head(posted) = "collected"
    BY <2>1 DEF HandleSignal
  <2>3. 1 \in 1..Len(posted) /\ posted[1] = "collected"
    BY <2>2 DEF SignalsTyped
  <2> QED
    BY <2>3 DEF ListInv
<1>6. ASSUME NEW op \in {"Import", "Incorporate"}, StartCopy, Authorize(op)
      PROVE  collector.complete
  <2>1. copiers' # copiers
    BY <1>6, <1>t DEF StartCopy
  <2> QED
    BY <2>1, <1>6 DEF Authorize
<1> QED
  BY <1>1, <1>2, <1>3, <1>4, <1>5, <1>6, CopiersStep, CopyTried

(* What the collector has found and what the copiers have tried agree with what was
   given, step by step: complete_ is set only when nothing is left to list. *)
THEOREM ListInvariant == Spec => [](ListInv /\ TriedInv)
<1>1. Init => ListInv /\ TriedInv
  <2>1. Init => copiers = <<>> /\ Len(copiers) = 0
    BY DEF Init, CopyInit
  <2>2. Init => TriedInv
    BY <2>1 DEF TriedInv
  <2> QED
    BY <2>2, ListInit
<1>2. ImportInv /\ JobInv /\ ListInv /\ TriedInv /\ [Next]_vars => (ListInv /\ TriedInv)'
  BY ListStep, TriedStep DEF JobInv
<1> QED
  BY <1>1, <1>2, ImportInvariant, JobInvariant, PTL DEF Spec

(* No file is passed over: the job reads the list only when nothing is left to list, be
   it at the collector's signal or before, and a copier that completes has tried all of
   the list. *)
THEOREM NoFileIsPassedOver == Spec => []EveryFileIsTried
<1>1. ImportInv /\ JobInv /\ TriedInv => EveryFileIsTried
  <2> SUFFICES ASSUME ImportInv, JobInv, TriedInv, job.over = "complete", job.op = "Import"
               PROVE  \E n \in 1..Len(copiers) :
                        Chosen \subseteq copiers[n].copied \cup copiers[n].failed
    BY DEF EveryFileIsTried
  <2>1. PICK n \in 1..Len(copiers) : copiers[n].at = "completed"
    BY DEF JobInv, OverIsTold
  <2>2. Tried(copiers[n])
    BY DEF TriedInv
  <2> QED
    BY <2>1, <2>2 DEF Tried
<1> QED
  BY <1>1, ImportInvariant, JobInvariant, ListInvariant, PTL

(* The scanner hears of every copy: the signal that makes it look comes only
   after the copier is done, and what the copier made is still there. *)
THEOREM CopiesAreAnnounced == Spec => []CopiedIsScanned
<1>1. ImportInv /\ JobInv => CopiedIsScanned
  <2> SUFFICES ASSUME ImportInv, JobInv, job.over = "complete", job.op = "Import",
                      Len(copiers) = 1
               PROVE  copiers[1].copied \ Movies \subseteq scanned
    BY DEF CopiedIsScanned
  <2>1. PICK n \in 1..Len(copiers) : copiers[n].copied \ Movies \subseteq scanned
    BY DEF JobInv, OverIsTold
  <2> QED
    BY <2>1
<1> QED
  BY <1>1, ImportInvariant, JobInvariant, PTL
=============================================================================
