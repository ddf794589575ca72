--------------------------- MODULE ExporterProofs ---------------------------
(***************************************************************************)
(* Whatever the user interface sets up and adds while the thread computes, *)
(* each version is exported by the settings it was added under, and every  *)
(* request that has not been served is listed.                             *)
(***************************************************************************)
EXTENDS Exporter, TLAPS

\* A list of jobs js under the settings s: what is listed was asked for, and
\* what is owed is listed.
ListOK(js, s, a, o) ==
  /\ js \in Seq(Jobs)
  /\ js # <<>> => js[Len(js)].settings = s
  /\ \A n \in 1..Len(js) : \A v \in js[n].todo : <<v, js[n].settings>> \in a
  /\ o \subseteq Versions \X Settings
  /\ \A r \in o : \E n \in 1..Len(js) : r[1] \in js[n].todo /\ r[2] = js[n].settings

\* The version that the thread has in hand is still listed in the first job, and
\* by the settings the thread took with it.
InHand ==
  thread.at = "export" =>
    jobs # <<>> /\ thread.vsn \in jobs[1].todo /\ thread.settings = jobs[1].settings

ExportInv ==
  /\ settings \in Settings
  /\ thread \in Threads
  /\ ListOK(jobs, settings, asked, owed \ dropped)
  /\ InHand

-----------------------------------------------------------------------------
\* The operations on a list of jobs.

LEMMA NewJob ==
  ASSUME NEW s \in Settings
  PROVE  /\ Job(s) \in Jobs /\ Job(s).todo = {} /\ Job(s).settings = s
  BY DEF Job, Jobs

LEMMA JobParts ==
  ASSUME NEW j \in Jobs
  PROVE  j.settings \in Settings /\ j.todo \subseteq Versions
  BY DEF Jobs

LEMMA SeqUpdate ==
  ASSUME NEW S, NEW s \in Seq(S), NEW i \in 1..Len(s), NEW e \in S
  PROVE  /\ [s EXCEPT ![i] = e] \in Seq(S) /\ Len([s EXCEPT ![i] = e]) = Len(s)
         /\ \A k \in 1..Len(s) : [s EXCEPT ![i] = e][k] = IF k = i THEN e ELSE s[k]
  OBVIOUS

LEMMA SeqAppend ==
  ASSUME NEW S, NEW s \in Seq(S), NEW e \in S
  PROVE  /\ Append(s, e) \in Seq(S) /\ Len(Append(s, e)) = Len(s) + 1
         /\ Append(s, e)[Len(s) + 1] = e
         /\ \A k \in 1..Len(s) : Append(s, e)[k] = s[k]
  OBVIOUS

LEMMA SeqTail ==
  ASSUME NEW S, NEW s \in Seq(S), s # <<>>
  PROVE  /\ Tail(s) \in Seq(S) /\ Len(s) \in Nat \ {0} /\ Len(Tail(s)) = Len(s) - 1
         /\ \A k \in 1..Len(Tail(s)) : k + 1 \in 1..Len(s) /\ Tail(s)[k] = s[k + 1]
         /\ \A k \in 1..Len(s) : k = 1 \/ k - 1 \in 1..Len(Tail(s))
         /\ \A k \in 1..Len(s) : k # 1 => Tail(s)[k - 1] = s[k]
         /\ Head(s) = s[1] /\ Head(s) \in S
         /\ Tail(s) # <<>> => Tail(s)[Len(Tail(s))] = s[Len(s)]
  OBVIOUS

LEMMA TailOK ==
  ASSUME NEW js, NEW s, NEW a, NEW o, ListOK(js, s, a, o), js # <<>>, Head(js).todo = {}
  PROVE  ListOK(Tail(js), s, a, o)
<1> DEFINE t == Tail(js)
<1>j. /\ js \in Seq(Jobs) /\ js[Len(js)].settings = s /\ o \subseteq Versions \X Settings
      /\ \A n \in 1..Len(js) : \A v \in js[n].todo : <<v, js[n].settings>> \in a
      /\ \A r \in o : \E n \in 1..Len(js) : r[1] \in js[n].todo /\ r[2] = js[n].settings
  BY DEF ListOK
<1>t. /\ t \in Seq(Jobs)
      /\ \A k \in 1..Len(t) : k + 1 \in 1..Len(js) /\ t[k] = js[k + 1]
      /\ \A k \in 1..Len(js) : k = 1 \/ k - 1 \in 1..Len(t)
      /\ \A k \in 1..Len(js) : k # 1 => t[k - 1] = js[k]
      /\ Head(js) = js[1]
      /\ t # <<>> => t[Len(t)] = js[Len(js)]
  BY <1>j, SeqTail
<1> HIDE DEF t
<1>1. t # <<>> => t[Len(t)].settings = s
  BY <1>j, <1>t
<1>2. \A n \in 1..Len(t) : \A v \in t[n].todo : <<v, t[n].settings>> \in a
  BY <1>j, <1>t
<1>3. ASSUME NEW r \in o
      PROVE  \E n \in 1..Len(t) : r[1] \in t[n].todo /\ r[2] = t[n].settings
  <2>1. PICK n \in 1..Len(js) : r[1] \in js[n].todo /\ r[2] = js[n].settings
    BY <1>j
  <2>2. n # 1
    BY <2>1, <1>t
  <2> QED
    BY <2>1, <2>2, <1>t
<1>4. ListOK(t, s, a, o)
  BY <1>1, <1>2, <1>3, <1>j, <1>t DEF ListOK
<1> QED
  BY <1>4 DEF t

\* A job of the list is replaced by one with the same settings, which may have
\* lost the version v, or gained versions that were asked for.
LEMMA ReplaceOK ==
  ASSUME NEW js, NEW s, NEW a, NEW o, NEW aa, NEW oo, ListOK(js, s, a, o),
         NEW n \in 1..Len(js), NEW j \in Jobs, j.settings = js[n].settings,
         a \subseteq aa, oo \subseteq Versions \X Settings,
         \A v \in j.todo : <<v, j.settings>> \in aa,
         \A r \in oo : \/ r \in o /\ (r[2] = js[n].settings => r[1] \in j.todo \/ r[1] \notin js[n].todo)
                       \/ r[1] \in j.todo /\ r[2] = j.settings
  PROVE  ListOK([js EXCEPT ![n] = j], s, aa, oo)
<1> DEFINE ks == [js EXCEPT ![n] = j]
<1>j. /\ js \in Seq(Jobs) /\ js[Len(js)].settings = s
      /\ \A i \in 1..Len(js) : \A v \in js[i].todo : <<v, js[i].settings>> \in a
      /\ \A r \in o : \E i \in 1..Len(js) : r[1] \in js[i].todo /\ r[2] = js[i].settings
  <2>1. js # <<>>
    OBVIOUS
  <2> QED
    BY <2>1 DEF ListOK
<1>k. /\ ks \in Seq(Jobs) /\ Len(ks) = Len(js)
      /\ \A i \in 1..Len(js) : ks[i] = IF i = n THEN j ELSE js[i]
  BY <1>j, SeqUpdate
<1>l. Len(js) \in 1..Len(js)
  BY <1>j
<1> HIDE DEF ks
<1>1. ks[Len(ks)].settings = s
  BY <1>j, <1>k, <1>l
<1>2. \A i \in 1..Len(ks) : \A v \in ks[i].todo : <<v, ks[i].settings>> \in aa
  BY <1>j, <1>k
<1>3. ASSUME NEW r \in oo
      PROVE  \E i \in 1..Len(ks) : r[1] \in ks[i].todo /\ r[2] = ks[i].settings
  <2>1. CASE r[1] \in j.todo /\ r[2] = j.settings
    BY <2>1, <1>k
  <2>2. CASE r \in o /\ (r[2] = js[n].settings => r[1] \in j.todo \/ r[1] \notin js[n].todo)
    <3>1. PICK i \in 1..Len(js) : r[1] \in js[i].todo /\ r[2] = js[i].settings
      BY <2>2, <1>j
    <3>2. CASE i = n
      BY <3>1, <3>2, <2>1, <2>2
    <3>3. CASE i # n
      BY <3>1, <3>3, <1>k
    <3> QED
      BY <3>2, <3>3
  <2> QED
    BY <2>1, <2>2
<1>4. ListOK(ks, s, aa, oo)
  BY <1>1, <1>2, <1>3, <1>k DEF ListOK
<1> QED
  BY <1>4 DEF ks

\* The user interface sets up an export: an empty job takes the settings, or a
\* new job is appended.
LEMMA SetupOK ==
  ASSUME NEW js, NEW s, NEW a, NEW o, NEW z \in Settings, ListOK(js, s, a, o)
  PROVE  /\ ListOK(Append(js, Job(z)), z, a, o)
         /\ js # <<>> /\ js[Len(js)].todo = {} =>
              ListOK([js EXCEPT ![Len(js)].settings = z], z, a, o)
<1>j. /\ js \in Seq(Jobs) /\ o \subseteq Versions \X Settings
      /\ \A i \in 1..Len(js) : \A v \in js[i].todo : <<v, js[i].settings>> \in a
      /\ \A r \in o : \E i \in 1..Len(js) : r[1] \in js[i].todo /\ r[2] = js[i].settings
  BY DEF ListOK
<1>z. Job(z) \in Jobs /\ Job(z).todo = {} /\ Job(z).settings = z
  BY NewJob
<1>1. ListOK(Append(js, Job(z)), z, a, o)
  <2> DEFINE ks == Append(js, Job(z))
  <2>k. /\ ks \in Seq(Jobs) /\ Len(ks) = Len(js) + 1 /\ ks[Len(js) + 1] = Job(z)
        /\ \A k \in 1..Len(js) : ks[k] = js[k]
    BY <1>j, <1>z, SeqAppend
  <2>n. Len(js) \in Nat /\ (\A k \in 1..Len(js) + 1 : k = Len(js) + 1 \/ k \in 1..Len(js))
        /\ 1..Len(js) \subseteq 1..Len(js) + 1
    BY <1>j
  <2> HIDE DEF ks
  <2>1. \A i \in 1..Len(ks) : \A v \in ks[i].todo : <<v, ks[i].settings>> \in a
    BY <1>j, <1>z, <2>k, <2>n
  <2>2. \A r \in o : \E i \in 1..Len(ks) : r[1] \in ks[i].todo /\ r[2] = ks[i].settings
    BY <1>j, <2>k, <2>n
  <2>3. ListOK(ks, z, a, o)
    BY <2>1, <2>2, <2>k, <1>j, <1>z DEF ListOK
  <2> QED
    BY <2>3 DEF ks
<1>2. ASSUME js # <<>>, js[Len(js)].todo = {}
      PROVE  ListOK([js EXCEPT ![Len(js)].settings = z], z, a, o)
  <2> DEFINE m == Len(js)
             j == [js[m] EXCEPT !.settings = z]
             ks == [js EXCEPT ![m] = j]
  <2>m. m \in 1..Len(js) /\ js[m] \in Jobs
    BY <1>2, <1>j
  <2>q. j \in Jobs /\ j.todo = {} /\ j.settings = z
    BY <2>m, <1>2 DEF Jobs
  <2>k. /\ ks \in Seq(Jobs) /\ Len(ks) = Len(js)
        /\ \A i \in 1..Len(js) : ks[i] = IF i = m THEN j ELSE js[i]
    BY <1>j, <2>m, <2>q, SeqUpdate
  <2> HIDE DEF j, ks
  <2>1. \A i \in 1..Len(ks) : \A v \in ks[i].todo : <<v, ks[i].settings>> \in a
    BY <1>j, <2>q, <2>k
  <2>2. \A r \in o : \E i \in 1..Len(ks) : r[1] \in ks[i].todo /\ r[2] = ks[i].settings
    BY <1>j, <1>2, <2>k
  <2>3. ListOK(ks, z, a, o)
    BY <2>1, <2>2, <2>k, <2>q, <2>m, <1>j DEF ListOK
  <2> QED
    BY <2>3 DEF ks, j
<1> QED
  BY <1>1, <1>2

-----------------------------------------------------------------------------
\* The thread picks its next work from the list js.

LEMMA ThreadTyped ==
  /\ \A p \in {"woken", "wait", "ended", "crashed"} :
       At(p) \in Threads /\ At(p).at = p
  /\ \A v \in Versions, s \in Settings :
       LET t == [At("export") EXCEPT !.vsn = v, !.settings = s]
       IN t \in Threads /\ t.vsn = v /\ t.settings = s
  BY DEF At, Threads

LEMMA WorksInv ==
  ASSUME NEW js, Works(js), settings \in Settings, settings' = settings,
         ListOK(js, settings', asked', owed' \ dropped')
  PROVE  ExportInv'
<1>1. CASE thread' = Rest
  <2>1. thread' \in Threads /\ thread'.at # "export"
    BY <1>1, ThreadTyped DEF Rest
  <2>2. ListOK(jobs', settings', asked', owed' \ dropped')
    <3>1. CASE jobs' = js
      BY <3>1
    <3>2. CASE js # <<>> /\ Head(js).todo = {} /\ jobs' = Tail(js)
      BY <3>2, TailOK
    <3> QED
      BY <3>1, <3>2 DEF Works
  <2> QED
    BY <2>1, <2>2 DEF ExportInv, InHand
<1>2. ASSUME js # <<>>, jobs' = js, NEW v \in Head(js).todo,
             thread' = [At("export") EXCEPT !.vsn = v, !.settings = Head(js).settings]
      PROVE  ExportInv'
  <2>1. Head(js) = js[1] /\ Head(js) \in Jobs
    BY <1>2, SeqTail DEF ListOK
  <2>2. v \in Versions /\ Head(js).settings \in Settings
    BY <2>1, JobParts
  <2>3. thread' \in Threads /\ thread'.vsn = v /\ thread'.settings = Head(js).settings
    BY <1>2, <2>2, ThreadTyped
  <2> QED
    BY <1>2, <2>1, <2>3 DEF ExportInv, InHand
<1> QED
  BY <1>1, <1>2 DEF Works

-----------------------------------------------------------------------------

LEMMA InitInv == Init => ExportInv
<1> SUFFICES ASSUME Init PROVE ExportInv
  OBVIOUS
<1>1. thread \in Threads /\ thread.at = "woken"
  BY ThreadTyped DEF Init
<1>2. ListOK(<<>>, settings, {}, {} \ {})
  BY DEF ListOK
<1> QED
  BY <1>1, <1>2 DEF Init, ExportInv, InHand

\* What the user interface does to the thread: it may wake it, or move its job.
LEMMA ThreadKept ==
  ASSUME thread \in Threads,
         \/ UNCHANGED thread
         \/ thread' = WakeOne
         \/ thread' = [thread EXCEPT !.moved = TRUE]
         \/ \E b \in BOOLEAN : \/ thread' = [thread EXCEPT !.repeated = @ \/ b]
                               \/ thread' = [WakeOne EXCEPT !.repeated = @ \/ b]
  PROVE  /\ thread' \in Threads
         /\ thread'.at = "export" =>
              thread.at = "export" /\ thread'.vsn = thread.vsn /\ thread'.settings = thread.settings
  BY DEF WakeOne, Threads

LEMMA SetupInv ==
  ASSUME ExportInv, NEW s \in Settings, Setup(s)
  PROVE  ExportInv'
<1>i. /\ settings \in Settings /\ thread \in Threads /\ ListOK(jobs, settings, asked, owed \ dropped)
      /\ InHand /\ jobs \in Seq(Jobs)
  BY DEF ExportInv, ListOK
<1>u. settings' = s /\ UNCHANGED <<asked, owed, dropped>>
  BY DEF Setup, asks
<1>1. CASE jobs' = Append(jobs, Job(s)) /\ Appended
  <2>1. ListOK(jobs', settings', asked', owed' \ dropped')
    BY <1>1, <1>i, <1>u, SetupOK
  <2>2. /\ thread' \in Threads
        /\ thread'.at = "export" =>
             thread.at = "export" /\ thread'.vsn = thread.vsn /\ thread'.settings = thread.settings
    BY <1>1, <1>i, ThreadKept DEF Appended
  <2>3. jobs # <<>> => jobs' # <<>> /\ jobs'[1] = jobs[1]
    <3>1. Job(s) \in Jobs
      BY NewJob
    <3> QED
      BY <3>1, <1>1, <1>i, SeqAppend
  <2> QED
    BY <2>1, <2>2, <2>3, <1>u, <1>i DEF ExportInv, InHand
<1>2. CASE /\ jobs # <<>> /\ jobs[Last].todo = {}
           /\ jobs' = [jobs EXCEPT ![Last].settings = s] /\ UNCHANGED thread
  <2>1. ListOK(jobs', settings', asked', owed' \ dropped')
    BY <1>2, <1>i, <1>u, SetupOK DEF Last
  <2>2. thread.at = "export" => jobs' # <<>> /\ jobs'[1] = jobs[1]
    BY <1>2, <1>i DEF InHand, Last
  <2> QED
    BY <2>1, <2>2, <1>2, <1>u, <1>i DEF ExportInv, InHand
<1> QED
  BY <1>1, <1>2 DEF Setup

LEMMA GrownTyped ==
  ASSUME NEW job \in Jobs, NEW vs \in SUBSET Versions
  PROVE  /\ Grown(job, vs) \in Jobs /\ Grown(job, vs).settings = job.settings
         /\ Grown(job, vs).todo = job.todo \cup vs /\ Grown(job, vs).added = job.added \cup vs
         /\ Grown(job, vs).completed = job.completed /\ Grown(job, vs).failed = job.failed
         /\ Grown(job, vs).again = job.again \cup (vs \cap (job.completed \cup job.failed))
  BY DEF Grown, Jobs

LEMMA AddInv ==
  ASSUME ExportInv, NEW vs \in SUBSET Versions, Add(vs)
  PROVE  ExportInv'
<1> DEFINE js == IF jobs = <<>> THEN <<Job(settings)>> ELSE jobs
           n == Len(js)
           j == Grown(js[n], vs)
<1>i. /\ settings \in Settings /\ thread \in Threads /\ ListOK(jobs, settings, asked, owed \ dropped)
      /\ InHand /\ jobs \in Seq(Jobs) /\ (owed \ dropped) \subseteq Versions \X Settings
  BY DEF ExportInv, ListOK
<1>u. /\ UNCHANGED settings
      /\ asked' = asked \cup (vs \X {settings}) /\ owed' = owed \cup (vs \X {settings})
      /\ UNCHANGED dropped
      /\ jobs' = [js EXCEPT ![n] = j]
      /\ \E b \in BOOLEAN : \/ thread' = [thread EXCEPT !.repeated = @ \/ b]
                            \/ thread' = [WakeOne EXCEPT !.repeated = @ \/ b]
  <2>1. InTheThread(n, vs) \in BOOLEAN
    BY DEF InTheThread
  <2> QED
    BY <2>1 DEF Add, Ask
<1>l. ListOK(js, settings, asked, owed \ dropped) /\ js # <<>>
  <2>1. CASE jobs = <<>>
    <3>1. Append(jobs, Job(settings)) = <<Job(settings)>>
      BY <2>1
    <3>2. ListOK(Append(jobs, Job(settings)), settings, asked, owed \ dropped)
      BY <1>i, SetupOK
    <3>3. js = Append(jobs, Job(settings))
      BY <2>1, <3>1
    <3> HIDE DEF js
    <3>4. js # <<>>
      BY <3>3, <2>1
    <3> QED
      BY <3>2, <3>3, <3>4
  <2>2. CASE jobs # <<>>
    BY <2>2, <1>i
  <2> QED
    BY <2>1, <2>2
<1>s. js \in Seq(Jobs) /\ js[n].settings = settings
  BY <1>l DEF ListOK
<1>h. jobs # <<>> => js = jobs
  OBVIOUS
<1> HIDE DEF js
<1>n. n \in 1..Len(js) /\ js[n] \in Jobs
  BY <1>l, <1>s
<1>j. j \in Jobs /\ j.settings = settings /\ j.todo = js[n].todo \cup vs
  BY <1>n, <1>s, GrownTyped
<1>a. \A v \in js[n].todo : <<v, settings>> \in asked
  BY <1>l, <1>n, <1>s DEF ListOK
<1> HIDE DEF j, n
<1>1. ListOK([js EXCEPT ![n] = j], settings, asked', owed' \ dropped')
  <2>1. \A v \in j.todo : <<v, j.settings>> \in asked'
    BY <1>a, <1>j, <1>u
  <2>2. \A r \in owed' \ dropped' : \/ r \in owed \ dropped
                                    \/ r[1] \in j.todo /\ r[2] = j.settings
    BY <1>j, <1>u
  <2>3. (owed' \ dropped') \subseteq Versions \X Settings /\ asked \subseteq asked'
    BY <1>i, <1>u
  <2> QED
    BY <2>1, <2>2, <2>3, <1>l, <1>n, <1>j, <1>s, ReplaceOK
<1>2. /\ thread' \in Threads
      /\ thread'.at = "export" =>
           thread.at = "export" /\ thread'.vsn = thread.vsn /\ thread'.settings = thread.settings
  BY <1>u, <1>i, ThreadKept
<1>3. jobs # <<>> => /\ jobs' # <<>> /\ jobs'[1].settings = jobs[1].settings
                     /\ jobs[1].todo \subseteq jobs'[1].todo
  <2>1. /\ jobs' \in Seq(Jobs) /\ Len(jobs') = Len(js)
        /\ \A k \in 1..Len(js) : jobs'[k] = IF k = n THEN j ELSE js[k]
    BY <1>u, <1>s, <1>n, <1>j, SeqUpdate
  <2>2. jobs # <<>> => 1 \in 1..Len(js)
    BY <1>n, <1>s
  <2> QED
    BY <2>1, <2>2, <1>h, <1>j, <1>s
<1> QED
  BY <1>1, <1>2, <1>3, <1>u, <1>i DEF ExportInv, InHand

LEMMA RecordedTyped ==
  ASSUME NEW j \in Jobs, NEW v \in Versions, NEW ok \in BOOLEAN
  PROVE  /\ Recorded(j, v, ok) \in Jobs /\ Recorded(j, v, ok).settings = j.settings
         /\ Recorded(j, v, ok).todo = j.todo \ {v}
         /\ Recorded(j, v, ok).added = j.added /\ Recorded(j, v, ok).again = j.again
         /\ Recorded(j, v, ok).completed = IF ok THEN j.completed \cup {v} ELSE j.completed
         /\ Recorded(j, v, ok).failed = IF ok THEN j.failed ELSE j.failed \cup {v}
  BY DEF Recorded, Jobs

\* What stays owed after an export is what was, without the request served unless
\* it is still listed.
LEMMA StaysOwed ==
  ASSUME NEW js, NEW r, Served(r, js), NEW q \in owed' \ dropped'
  PROVE  \/ q # r /\ q \in owed \ dropped
         \/ q = r /\ q \in owed /\ Listed(js, r)
  BY DEF Served

LEMMA FinishInv ==
  ASSUME ExportInv, Finish
  PROVE  ExportInv'
<1>i. /\ settings \in Settings /\ thread \in Threads /\ ListOK(jobs, settings, asked, owed \ dropped)
      /\ jobs \in Seq(Jobs) /\ (owed \ dropped) \subseteq Versions \X Settings
      /\ jobs # <<>> /\ thread.vsn \in jobs[1].todo /\ thread.settings = jobs[1].settings
  BY DEF ExportInv, ListOK, InHand, Finish
<1>u. UNCHANGED <<settings, asked>>
  BY DEF Finish
<1>1. ASSUME NEW ok \in BOOLEAN, Works([jobs EXCEPT ![1] = Recorded(@, thread.vsn, ok)]),
             Served(<<thread.vsn, thread.settings>>, [jobs EXCEPT ![1] = Recorded(@, thread.vsn, ok)])
      PROVE  ExportInv'
  <2> DEFINE j == Recorded(jobs[1], thread.vsn, ok)
             r0 == <<thread.vsn, thread.settings>>
             js == [jobs EXCEPT ![1] = j]
             rest == (owed' \ dropped') \ {r0}
  <2>1. 1 \in 1..Len(jobs) /\ jobs[1] \in Jobs
    BY <1>i
  <2>v. thread.vsn \in Versions
    BY <2>1, <1>i, JobParts
  <2>2. j \in Jobs /\ j.settings = jobs[1].settings /\ j.todo = jobs[1].todo \ {thread.vsn}
    BY <2>1, <2>v DEF Recorded, Jobs
  <2>s. Works(js) /\ Served(r0, js)
    BY <1>1
  <2>r. r0 \in Versions \X Settings
    BY <2>1, <1>i, JobParts
  <2> HIDE DEF j
  <2>3. \A v \in j.todo : <<v, j.settings>> \in asked'
    BY <2>1, <2>2, <1>i, <1>u DEF ListOK
  <2>4. \A r \in rest : r \in owed \ dropped /\ (r[2] = jobs[1].settings =>
                                          r[1] \in j.todo \/ r[1] \notin jobs[1].todo)
    <3> SUFFICES ASSUME NEW r \in rest
                 PROVE  r \in owed \ dropped /\ (r[2] = jobs[1].settings =>
                                          r[1] \in j.todo \/ r[1] \notin jobs[1].todo)
      OBVIOUS
    <3>1. r \in owed \ dropped /\ r # r0
      BY <2>s, StaysOwed
    <3>2. r = <<r[1], r[2]>>
      BY <3>1, <1>i
    <3> QED
      BY <3>1, <3>2, <1>i, <2>2
  <2>5. ListOK(js, settings, asked', rest)
    <3>1. rest \subseteq Versions \X Settings
      BY <2>4, <1>i
    <3> HIDE DEF rest
    <3> QED
      BY <2>1, <2>2, <2>3, <2>4, <3>1, <1>i, <1>u, ReplaceOK
  <2> HIDE DEF js
  <2>6. ListOK(js, settings', asked', owed' \ dropped')
    <3>1. owed' \ dropped' \subseteq rest \cup {r0}
      OBVIOUS
    <3>2. r0 \in owed' \ dropped' => Listed(js, r0)
      BY <2>s, StaysOwed
    <3>3. \A r \in rest : Listed(js, r)
      BY <2>5 DEF ListOK, Listed
    <3>4. \A r \in owed' \ dropped' : Listed(js, r)
      BY <3>1, <3>2, <3>3
    <3>5. (owed' \ dropped') \subseteq Versions \X Settings
      BY <2>4, <2>r, <3>1, <1>i
    <3> HIDE DEF rest, r0
    <3> QED
      BY <2>5, <3>4, <3>5, <1>u DEF ListOK, Listed
  <2> QED
    BY <2>6, <2>s, <1>i, <1>u, WorksInv
<1>2. CASE Works(jobs) /\ UNCHANGED <<owed, dropped>>
  BY <1>2, <1>i, <1>u, WorksInv
<1>3. CASE thread' = At("crashed") /\ UNCHANGED <<jobs, owed, dropped>>
  <2>1. thread' \in Threads /\ thread'.at # "export"
    BY <1>3, ThreadTyped
  <2> QED
    BY <2>1, <1>3, <1>i, <1>u DEF ExportInv, InHand
<1> QED
  BY <1>1, <1>2, <1>3 DEF Finish

LEMMA NextInv ==
  ASSUME ExportInv, [Next]_vars
  PROVE  ExportInv'
<1>i. settings \in Settings /\ thread \in Threads /\ ListOK(jobs, settings, asked, owed \ dropped) /\ InHand
  BY DEF ExportInv
<1>1. CASE Stop
  <2>1. UNCHANGED <<jobs, settings, asked, owed, dropped>> /\ thread' = WakeOne
    BY <1>1 DEF Stop, asks
  <2>2. /\ thread' \in Threads
        /\ thread'.at = "export" =>
             thread.at = "export" /\ thread'.vsn = thread.vsn /\ thread'.settings = thread.settings
    BY <2>1, <1>i, ThreadKept
  <2> QED
    BY <2>1, <2>2, <1>i DEF ExportInv, InHand
<1>2. CASE Wakeup
  <2>1. UNCHANGED <<settings, asked, owed, dropped>>
    BY <1>2 DEF Wakeup, asks
  <2>2. CASE thread' = At("ended") /\ UNCHANGED jobs
    <3>1. thread' \in Threads /\ thread'.at # "export"
      BY <2>2, ThreadTyped
    <3> QED
      BY <3>1, <2>1, <2>2, <1>i DEF ExportInv, InHand
  <2>3. CASE Works(jobs)
    BY <2>1, <2>3, <1>i, WorksInv
  <2> QED
    BY <1>2, <2>2, <2>3 DEF Wakeup
<1>3. CASE UNCHANGED vars
  BY <1>3, <1>i DEF vars, asks, ExportInv, InHand
<1> QED
  BY <1>1, <1>2, <1>3, SetupInv, AddInv, FinishInv DEF Next, ThreadStep

-----------------------------------------------------------------------------

(* The list of jobs, what is asked of it and what the thread has in hand agree
   at every moment. *)
THEOREM ExportInvariant == Spec => []ExportInv
<1>1. Init => ExportInv
  BY InitInv
<1>2. ExportInv /\ [Next]_vars => ExportInv'
  BY NextInv
<1> QED
  BY <1>1, <1>2, PTL DEF Spec

(* doExport uses the settings that were in force when the version was added,
   whatever has been set up since. *)
THEOREM SettingsAreKept == Spec => []ExportedAsAsked
<1>1. ExportInv => ExportedAsAsked
  <2> SUFFICES ASSUME ExportInv, thread.at = "export"
               PROVE  <<thread.vsn, thread.settings>> \in asked
    BY DEF ExportedAsAsked
  <2>1. jobs # <<>> /\ thread.vsn \in jobs[1].todo /\ thread.settings = jobs[1].settings
    BY DEF ExportInv, InHand
  <2>2. jobs \in Seq(Jobs)
        /\ \A n \in 1..Len(jobs) : \A v \in jobs[n].todo : <<v, jobs[n].settings>> \in asked
    BY DEF ExportInv, ListOK
  <2>3. 1 \in 1..Len(jobs)
    BY <2>1, <2>2
  <2> QED
    BY <2>1, <2>2, <2>3
<1> QED
  BY <1>1, ExportInvariant, PTL

(* A request stays listed, with its settings, until it is served: neither the
   user interface nor the thread that comes back from an export drops it, unless
   it was made for the version in hand. *)
THEOREM RequestsStayListed == Spec => []OwedIsListed
<1>1. ExportInv => OwedIsListed
  BY DEF ExportInv, ListOK, OwedIsListed, Listed
<1> QED
  BY <1>1, ExportInvariant, PTL

-----------------------------------------------------------------------------
(* Reports and rests *)

\* Every version of a job is listed or has been counted; what is listed after it
\* was counted, or was counted twice, has been added again.
Counted(job) ==
  /\ job.completed \cup job.failed \cup job.todo = job.added
  /\ job.completed \cap job.failed \subseteq job.again
  /\ job.todo \cap (job.completed \cup job.failed) \subseteq job.again

\* While no job was queued behind another, there is but one.
ReportInv ==
  /\ \A n \in 1..Len(jobs) : Counted(jobs[n])
  /\ ~queued => Len(jobs) <= 1
  /\ RestsOnlyWhenDone

\* What is left of a list that the thread has looked at, and how it goes on.
LEMMA WorksCounted ==
  ASSUME NEW js \in Seq(Jobs), \A n \in 1..Len(js) : Counted(js[n]), Works(js)
  PROVE  /\ jobs' \in Seq(Jobs) /\ Len(jobs') <= Len(js)
         /\ \A n \in 1..Len(jobs') : Counted(jobs'[n])
         /\ thread'.at = "wait" => Len(js) > 1 \/ jobs' = <<>>
         /\ Len(jobs') < Len(js) => js # <<>> /\ js[1].todo = {}
<1>1. CASE js = <<>> /\ jobs' = js
  BY <1>1
<1>2. CASE js # <<>> /\ Head(js).todo = {} /\ jobs' = Tail(js)
  BY <1>2, SeqTail
<1>3. CASE /\ js # <<>> /\ jobs' = js
           /\ \E v \in Head(js).todo :
                thread' = [At("export") EXCEPT !.vsn = v, !.settings = Head(js).settings]
  <2>1. thread'.at # "wait"
    BY <1>3 DEF At
  <2> QED
    BY <1>3, <2>1
<1> QED
  BY <1>1, <1>2, <1>3 DEF Works

LEMMA WholeWhenDone ==
  ASSUME NEW job, Counted(job), job.todo = {}
  PROVE  WholeIsReported(job)
  BY DEF Counted, WholeIsReported

LEMMA RecordedCounted ==
  ASSUME NEW job \in Jobs, Counted(job), NEW v \in job.todo, NEW ok \in BOOLEAN
  PROVE  Counted(Recorded(job, v, ok))
<1> DEFINE j == Recorded(job, v, ok)
<1>v. v \in Versions
  BY JobParts
<1>1. /\ j.todo = job.todo \ {v} /\ j.added = job.added /\ j.again = job.again
      /\ j.completed = IF ok THEN job.completed \cup {v} ELSE job.completed
      /\ j.failed = IF ok THEN job.failed ELSE job.failed \cup {v}
  BY <1>v DEF Recorded, Jobs
<1> HIDE DEF j
<1>2. Counted(j)
  BY <1>1 DEF Counted
<1> QED
  BY <1>2 DEF j

LEMMA GrownCounted ==
  ASSUME NEW job \in Jobs, Counted(job), NEW vs \in SUBSET Versions
  PROVE  Counted(Grown(job, vs))
<1> DEFINE j == Grown(job, vs)
<1>1. /\ j.todo = job.todo \cup vs /\ j.added = job.added \cup vs
      /\ j.completed = job.completed /\ j.failed = job.failed
      /\ j.again = job.again \cup (vs \cap (job.completed \cup job.failed))
  BY GrownTyped
<1> HIDE DEF j
<1>2. Counted(j)
  BY <1>1 DEF Counted
<1> QED
  BY <1>2 DEF j

\* What a step says of a job that leaves the list.
Reported ==
  jobs # <<>> /\ Len(jobs') < Len(jobs) =>
    \/ WholeIsReported(Head(jobs))
    \/ /\ thread.at = "export"
       /\ \E ok \in BOOLEAN : WholeIsReported(Recorded(Head(jobs), thread.vsn, ok))

LEMMA SetupReport ==
  ASSUME ExportInv, ReportInv, NEW s \in Settings, Setup(s)
  PROVE  ReportInv' /\ Reported
<1>i. jobs \in Seq(Jobs) /\ Len(jobs) \in Nat
  BY DEF ExportInv, ListOK
<1>1. CASE /\ jobs' = Append(jobs, Job(s)) /\ Appended /\ queued' = (queued \/ jobs # <<>>)
           /\ jobs # <<>> => jobs[Last].todo # {}
  <2>1. Counted(Job(s)) /\ Job(s) \in Jobs /\ Job(s).todo = {}
    BY NewJob DEF Counted, Job
  <2>2. /\ Len(jobs') = Len(jobs) + 1 /\ jobs'[Len(jobs) + 1] = Job(s)
        /\ \A k \in 1..Len(jobs) : jobs'[k] = jobs[k]
    BY <1>1, <1>i, <2>1, SeqAppend
  <2>3. \A n \in 1..Len(jobs') : n \in 1..Len(jobs) \/ n = Len(jobs) + 1
    BY <1>i, <2>2
  <2>4. \A n \in 1..Len(jobs') : Counted(jobs'[n])
    BY <2>1, <2>2, <2>3 DEF ReportInv
  <2>5. ~queued' => jobs = <<>> /\ Len(jobs') = 1
    <3>1. ~queued' => jobs = <<>>
      BY <1>1, Zenon
    <3>2. jobs = <<>> => Len(jobs') = 1
      BY <2>2, <1>i
    <3> QED
      BY <3>1, <3>2
  <2>6. RestsOnlyWhenDone'
    BY <2>1, <2>2, <2>5, <1>i DEF RestsOnlyWhenDone
  <2>7. Reported
    BY <2>2, <1>i DEF Reported
  <2> QED
    BY <2>4, <2>5, <2>6, <2>7 DEF ReportInv
<1>2. CASE /\ jobs # <<>> /\ jobs[Last].todo = {}
           /\ jobs' = [jobs EXCEPT ![Last].settings = s] /\ UNCHANGED <<thread, queued>>
  <2> DEFINE j == [jobs[Last] EXCEPT !.settings = s]
  <2>1. Last \in 1..Len(jobs) /\ jobs[Last] \in Jobs
    BY <1>2, <1>i DEF Last
  <2>2. j \in Jobs /\ j.todo = {} /\ Counted(j)
    <3>1. /\ j \in Jobs /\ j.todo = jobs[Last].todo /\ j.added = jobs[Last].added
          /\ j.completed = jobs[Last].completed /\ j.failed = jobs[Last].failed
          /\ j.again = jobs[Last].again
      BY <2>1 DEF Jobs
    <3>2. Counted(jobs[Last])
      BY <2>1 DEF ReportInv
    <3> HIDE DEF j
    <3> QED
      BY <3>1, <3>2, <1>2 DEF Counted
  <2>3. jobs' = [jobs EXCEPT ![Last] = j]
    BY <1>2
  <2> HIDE DEF j
  <2>4. /\ Len(jobs') = Len(jobs)
        /\ \A k \in 1..Len(jobs) : jobs'[k] = IF k = Last THEN j ELSE jobs[k]
    BY <1>i, <2>1, <2>2, <2>3, SeqUpdate
  <2>5. \A n \in 1..Len(jobs') : Counted(jobs'[n])
    BY <2>2, <2>4 DEF ReportInv
  <2>6. RestsOnlyWhenDone'
    BY <2>2, <2>4, <1>2 DEF ReportInv, RestsOnlyWhenDone
  <2>7. Reported
    BY <2>4, <1>i DEF Reported
  <2> QED
    BY <2>4, <2>5, <2>6, <2>7, <1>2 DEF ReportInv
<1> QED
  BY <1>1, <1>2 DEF Setup

LEMMA AddReport ==
  ASSUME ExportInv, ReportInv, NEW vs \in SUBSET Versions, Add(vs)
  PROVE  ReportInv' /\ Reported
<1> DEFINE js == IF jobs = <<>> THEN <<Job(settings)>> ELSE jobs
           n == Len(js)
           j == Grown(js[n], vs)
<1>i. jobs \in Seq(Jobs) /\ Len(jobs) \in Nat /\ settings \in Settings /\ thread \in Threads
  BY DEF ExportInv, ListOK
<1>u. /\ UNCHANGED queued
      /\ jobs' = [js EXCEPT ![n] = j]
      /\ thread'.at = (IF js[n].todo = {} THEN WakeOne ELSE thread).at
  BY <1>i DEF Add, WakeOne, Threads
<1>b. Job(settings) \in Jobs /\ Counted(Job(settings)) /\ Job(settings).todo = {}
  BY <1>i, NewJob DEF Counted, Job
<1>s. /\ js \in Seq(Jobs) /\ n \in 1..Len(js) /\ js[n] \in Jobs
      /\ \A k \in 1..Len(js) : Counted(js[k])
      /\ ~queued => n = 1
      /\ jobs # <<>> => js = jobs
      /\ n >= Len(jobs)
  <2>1. CASE jobs = <<>>
    <3>1. js = <<Job(settings)>> /\ Len(js) = 1 /\ js[1] = Job(settings)
      BY <2>1
    <3> HIDE DEF js
    <3> QED
      BY <2>1, <3>1, <1>b, <1>i
  <2>2. CASE jobs # <<>>
    <3>1. js = jobs
      BY <2>2
    <3> HIDE DEF js
    <3>2. n \in 1..Len(js) /\ js[n] \in Jobs /\ n >= Len(jobs)
      BY <2>2, <3>1, <1>i
    <3>3. ~queued => n = 1
      <4>1. ~queued => Len(jobs) <= 1
        BY Zenon DEF ReportInv
      <4>2. Len(jobs) <= 1 => n = 1
        <5>1. Len(js) = Len(jobs) /\ Len(jobs) >= 1
          BY <3>1, <2>2, <1>i
        <5> QED
          BY <5>1, <1>i
      <4> QED
        BY <4>1, <4>2
    <3> QED
      BY <3>1, <3>2, <3>3, <1>i DEF ReportInv
  <2> QED
    BY <2>1, <2>2
<1> HIDE DEF js
<1>j. j \in Jobs /\ Counted(j)
  BY <1>s, GrownTyped, GrownCounted
<1>w. thread'.at = "wait" => thread.at = "wait" /\ js[n].todo # {}
  BY <1>u, <1>i DEF WakeOne, Threads
<1> HIDE DEF j, n
<1>1. /\ Len(jobs') = Len(js)
      /\ \A k \in 1..Len(js) : jobs'[k] = IF k = n THEN j ELSE js[k]
  BY <1>u, <1>s, <1>j, SeqUpdate
<1>2. \A k \in 1..Len(jobs') : Counted(jobs'[k])
  BY <1>1, <1>s, <1>j
<1>3. ~queued' => Len(jobs') <= 1
  <2>1. ~queued' => n = 1
    BY <1>s, <1>u, Zenon
  <2>2. n = 1 => Len(jobs') <= 1
    BY <1>1 DEF n
  <2> QED
    BY <2>1, <2>2
<1>4. RestsOnlyWhenDone'
  <2> SUFFICES ASSUME thread'.at = "wait", ~queued'
               PROVE  FALSE
    BY DEF RestsOnlyWhenDone
  <2>1. CASE jobs = <<>>
    <3>1. js[n] = Job(settings)
      BY <2>1 DEF js, n
    <3> QED
      BY <3>1, <1>b, <1>w
  <2>2. CASE jobs # <<>>
    BY <2>2, <1>w, <1>s, <1>u DEF ReportInv, RestsOnlyWhenDone
  <2> QED
    BY <2>1, <2>2
<1>5. Reported
  BY <1>1, <1>s, <1>i DEF Reported, n
<1> QED
  BY <1>2, <1>3, <1>4, <1>5 DEF ReportInv

LEMMA FinishReport ==
  ASSUME ExportInv, ReportInv, Finish
  PROVE  ReportInv' /\ Reported
<1>i. /\ jobs \in Seq(Jobs) /\ Len(jobs) \in Nat /\ thread.at = "export"
      /\ jobs # <<>> /\ 1 \in 1..Len(jobs) /\ jobs[1] \in Jobs /\ thread.vsn \in jobs[1].todo
      /\ jobs[1] = Head(jobs)
  BY DEF ExportInv, ListOK, InHand, Finish
<1>u. UNCHANGED queued
  BY DEF Finish
<1>1. ASSUME NEW ok \in BOOLEAN, Works([jobs EXCEPT ![1] = Recorded(@, thread.vsn, ok)])
      PROVE  ReportInv' /\ Reported
  <2> DEFINE j == Recorded(jobs[1], thread.vsn, ok)
             js == [jobs EXCEPT ![1] = j]
  <2>1. j \in Jobs
    BY <1>i, JobParts, RecordedTyped
  <2>2. Counted(j)
    BY <1>i, RecordedCounted DEF ReportInv
  <2>3. j.todo = {} => WholeIsReported(j)
    BY <2>2, WholeWhenDone
  <2>4. j = Recorded(Head(jobs), thread.vsn, ok)
    BY <1>i
  <2> HIDE DEF j
  <2>5. js \in Seq(Jobs) /\ Len(js) = Len(jobs)
        /\ \A k \in 1..Len(jobs) : js[k] = IF k = 1 THEN j ELSE jobs[k]
    BY <1>i, <2>1, SeqUpdate
  <2>6. Works(js)
    BY <1>1 DEF j
  <2> HIDE DEF js
  <2>7. \A n \in 1..Len(js) : Counted(js[n])
    BY <2>2, <2>5 DEF ReportInv
  <2>8. /\ jobs' \in Seq(Jobs) /\ Len(jobs') <= Len(js)
        /\ \A n \in 1..Len(jobs') : Counted(jobs'[n])
        /\ thread'.at = "wait" => Len(js) > 1 \/ jobs' = <<>>
        /\ Len(jobs') < Len(js) => js # <<>> /\ js[1].todo = {}
    BY <2>5, <2>6, <2>7, WorksCounted
  <2>9. Reported
    BY <2>3, <2>4, <2>5, <2>8, <1>i DEF Reported
  <2> QED
    BY <2>5, <2>8, <2>9, <1>i, <1>u DEF ReportInv, RestsOnlyWhenDone
<1>2. CASE Works(jobs)
  <2>1. /\ jobs' \in Seq(Jobs) /\ Len(jobs') <= Len(jobs)
        /\ \A n \in 1..Len(jobs') : Counted(jobs'[n])
        /\ thread'.at = "wait" => Len(jobs) > 1 \/ jobs' = <<>>
        /\ Len(jobs') < Len(jobs) => jobs # <<>> /\ jobs[1].todo = {}
    BY <1>2, <1>i, WorksCounted DEF ReportInv
  <2> QED
    BY <2>1, <1>i, <1>u DEF ReportInv, RestsOnlyWhenDone, Reported
<1>3. CASE thread' = At("crashed") /\ UNCHANGED jobs
  <2>1. thread'.at # "wait"
    BY <1>3 DEF At
  <2> QED
    BY <1>3, <1>i, <1>u, <2>1 DEF ReportInv, RestsOnlyWhenDone, Reported
<1> QED
  BY <1>1, <1>2, <1>3 DEF Finish

LEMMA NextReport ==
  ASSUME ExportInv, ReportInv, [Next]_vars
  PROVE  ReportInv' /\ Reported
<1>i. jobs \in Seq(Jobs) /\ Len(jobs) \in Nat /\ thread \in Threads
  BY DEF ExportInv, ListOK
<1>1. CASE Stop
  <2>1. UNCHANGED <<jobs, queued>> /\ (thread'.at = "wait" => thread.at = "wait")
    BY <1>1, <1>i DEF Stop, WakeOne, Threads
  <2> QED
    BY <2>1, <1>i DEF ReportInv, RestsOnlyWhenDone, Reported
<1>2. CASE Wakeup
  <2>1. UNCHANGED queued
    BY <1>2 DEF Wakeup
  <2>2. CASE thread' = At("ended") /\ UNCHANGED jobs
    <3>1. thread'.at # "wait"
      BY <2>2 DEF At
    <3> QED
      BY <2>1, <2>2, <3>1, <1>i DEF ReportInv, RestsOnlyWhenDone, Reported
  <2>3. CASE Works(jobs)
    <3>1. /\ jobs' \in Seq(Jobs) /\ Len(jobs') <= Len(jobs)
          /\ \A n \in 1..Len(jobs') : Counted(jobs'[n])
          /\ thread'.at = "wait" => Len(jobs) > 1 \/ jobs' = <<>>
          /\ Len(jobs') < Len(jobs) => jobs # <<>> /\ jobs[1].todo = {}
      BY <2>3, <1>i, WorksCounted DEF ReportInv
    <3>2. jobs # <<>> => Head(jobs) = jobs[1] /\ 1 \in 1..Len(jobs)
      BY <1>i
    <3>3. Reported
      BY <3>1, <3>2, WholeWhenDone DEF ReportInv, Reported
    <3> QED
      BY <3>1, <3>3, <2>1, <1>i DEF ReportInv, RestsOnlyWhenDone
  <2> QED
    BY <1>2, <2>2, <2>3 DEF Wakeup
<1>3. CASE UNCHANGED vars
  BY <1>3, <1>i DEF vars, ReportInv, RestsOnlyWhenDone, Reported
<1> QED
  BY <1>1, <1>2, <1>3, SetupReport, AddReport, FinishReport DEF Next, ThreadStep

LEMMA InitReport ==
  ASSUME Init
  PROVE  ReportInv
  BY DEF Init, ReportInv, RestsOnlyWhenDone, At

(* Whatever is added while it is worked off and whichever exports fail, a job that
   leaves the list has each of its versions counted as a success or as a failure,
   and as both only if it was added again after it had been counted. *)
THEOREM JobsAreAccountedFor == Spec => ReportIsWhole
<1>1. Init => ReportInv
  BY InitReport
<1>2. ExportInv /\ ReportInv /\ [Next]_vars => ReportInv' /\ [Reported]_vars
  BY NextReport
<1>3. [Reported]_vars <=> [jobs # <<>> /\ Len(jobs') < Len(jobs) =>
       \/ WholeIsReported(Head(jobs))
       \/ /\ thread.at = "export"
          /\ \E ok \in BOOLEAN : WholeIsReported(Recorded(Head(jobs), thread.vsn, ok))]_vars
  BY DEF Reported
<1> QED
  BY <1>1, <1>2, <1>3, ExportInvariant, PTL DEF Spec, ReportIsWhole

(* Unless a job was queued behind another, the thread never waits while a version
   is listed: whoever lists one wakes it, or it is awake. *)
THEOREM WaitsOnlyForWork == Spec => []RestsOnlyWhenDone
<1>1. Init => ReportInv
  BY InitReport
<1>2. ExportInv /\ ReportInv /\ [Next]_vars => ReportInv'
  BY NextReport
<1>3. ReportInv => RestsOnlyWhenDone
  BY DEF ReportInv
<1> QED
  BY <1>1, <1>2, <1>3, ExportInvariant, PTL DEF Spec
=============================================================================
