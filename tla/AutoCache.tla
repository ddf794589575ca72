----------------------------- MODULE AutoCache -----------------------------
(***************************************************************************)
(* The image cache: AutoCache (main thread), AC_Worker with its persistent *)
(* cache database (worker thread) and the IF_Bank of finder threads.       *)
(*                                                                         *)
(* An image is abstracted to the generation of the version's settings it   *)
(* was computed from.  Handlers of the worker run one at a time, taken     *)
(* from its FIFO event queue; each iteration of the loops of activateBank  *)
(* is a step of its own, so that the bank reads settings at the moment the *)
(* code reads them.  The main thread and the finder threads interleave     *)
(* with everything.                                                        *)
(***************************************************************************)
EXTENDS Integers, Sequences, FiniteSets

CONSTANTS
  Versions,    \* version IDs
  Finders,     \* the finder threads of the bank
  None,        \* "no image" and "no version"
  Poor,        \* versions whose file is unreadable or smaller than requests
  Batch,       \* rows taken from the persistent queue at a time (100)
  MaxLoaded,   \* images held in memory before a forced store (threshold)
  Ops,         \* which operations the main thread uses
  MaxGen,      \* bound on edits per version
  MaxEvents    \* bound on events the main thread has outstanding

AllOps == {"request", "easy", "recache", "edit", "offerBig", "offerSmall",
           "purge", "quit", "kill"}

ASSUME ConstantsAssumption ==
  /\ Finders # {} /\ IsFiniteSet(Finders) /\ IsFiniteSet(Versions)
  /\ None \notin Versions /\ None \notin Nat
  /\ Poor \subseteq Versions
  /\ Batch \in Nat \ {0} /\ MaxLoaded \in Nat
  /\ Ops \subseteq AllOps
  /\ MaxGen \in Nat /\ MaxEvents \in Nat

VARIABLES
  \* the photo database and the main thread
  gen,          \* gen[v]: generation of v's settings in the photo database
  owed,         \* versions edited live, whose new image is still to be offered
  holder,       \* AC_ImageHolder: the image on offer, or None
  purging,      \* version taken out of the cache, about to leave the database
  deleted,      \* versions no longer in the photo database
  waiting,      \* requested versions without an answer since
  \* the persistent cache database
  queue,        \* table queue
  stored,       \* table cache: generation of the cached image, or None
  outdated,     \* cached versions marked outdated
  asked,        \* history: generation that the latest handled recache saw
  \* the worker
  events,       \* its event queue
  pc,           \* "boot", "idle", "activate" (inside activateBank), "down"
  slots, notyetready,               \* locals K and notyetready of activateBank
  readyToLoad, rtlOrder, mustCache, beingLoaded, invalidated,
  loaded,       \* loaded[v]: image in memory, or None
  hushup, requests,
  \* the bank
  job, jobGen,  \* the finder's current version, or None; its settings
  working       \* finders whose thread has not yet emitted foundImage

mainVars   == <<gen, owed, holder, purging, deleted, waiting>>
dbVars     == <<queue, stored, outdated, asked>>
loopVars   == <<slots, notyetready>>
setVars    == <<readyToLoad, rtlOrder, mustCache, beingLoaded, invalidated>>
outVars    == <<loaded, hushup, requests>>
bankVars   == <<job, jobGen, working>>
vars == <<mainVars, dbVars, events, pc, loopVars, setVars, outVars, bankVars>>

Gens == Nat
Nothing == [v \in Versions |-> None]

\* The versions with an image in memory.
Loaded(ld) == {v \in Versions : ld[v] # None}

\* A hash set is walked in any order.
Orders(S) == {s \in [1..Cardinality(S) -> S] : \A x \in S : \E i \in DOMAIN s : s[i] = x}

IdleFinders == {f \in Finders : job[f] = None}

\* getSomeFromDBQueue: at most Batch rows, in no promised order.
SomeOf(q) == {S \in SUBSET q : \/ Cardinality(S) = Batch
                               \/ S = q /\ Cardinality(q) < Batch}

\* What may be in the worker's event queue: calls of the front, a finder
\* thread's answer, and the image it passes on.
Event ==
  [type : {"recache"}, vs : SUBSET Versions]
  \cup [type : {"request", "easy", "modified"}, v : Versions]
  \cup [type : {"finder"}, f : Finders]
  \cup [type : {"found"}, v : Versions, img : Gens]

TypeOK ==
  /\ gen \in [Versions -> Gens]
  /\ owed \subseteq Versions /\ deleted \subseteq Versions
  /\ waiting \subseteq Versions /\ purging \in Versions \cup {None}
  /\ holder \in [Versions -> (Gens \X BOOLEAN) \cup {<<>>}]
  /\ queue \subseteq Versions /\ outdated \subseteq Versions
  /\ stored \in [Versions -> Gens \cup {None}]
  /\ asked \in [Versions -> Gens]
  /\ events \in Seq(Event)
  /\ pc \in {"boot", "idle", "activate", "down"}
  /\ slots \in Nat /\ notyetready \subseteq Versions
  /\ readyToLoad \subseteq Versions /\ rtlOrder \in Seq(Versions)
  /\ mustCache \subseteq Versions /\ beingLoaded \subseteq Versions
  /\ invalidated \subseteq Versions
  /\ loaded \in [Versions -> Gens \cup {None}]
  /\ hushup \subseteq Versions /\ requests \subseteq Versions
  /\ job \in [Finders -> Versions \cup {None}]
  /\ jobGen \in [Finders -> Gens]
  /\ working \subseteq Finders

(***************************************************************************)
(* A new process: the worker's state is empty, the databases are as the    *)
(* previous run left them.                                                 *)
(***************************************************************************)
FreshProcess ==
  /\ owed = {} /\ holder = [v \in Versions |-> <<>>]
  /\ purging = None /\ waiting = {}
  /\ events = <<>> /\ pc = "boot"
  /\ slots = 0 /\ notyetready = {}
  /\ readyToLoad = {} /\ rtlOrder = <<>> /\ mustCache = {}
  /\ beingLoaded = {} /\ invalidated = {}
  /\ loaded = Nothing /\ hushup = {} /\ requests = {}
  /\ job = [f \in Finders |-> None] /\ jobGen = [f \in Finders |-> 0]
  /\ working = {}

Init ==
  /\ gen = [v \in Versions |-> 0] /\ deleted = {}
  /\ queue \in SUBSET Versions
  /\ stored \in [Versions -> {0, None}]
  /\ outdated = {v \in queue : stored[v] # None}
  /\ asked = [v \in Versions |-> 0]
  /\ FreshProcess

-----------------------------------------------------------------------------
(* The main thread *)

Running == pc \in {"idle", "activate"}
Post(e) == Len(events) < MaxEvents /\ events' = Append(events, e)
May(op) == op \in Ops /\ Running

workerVars == <<dbVars, pc, loopVars, setVars, outVars, bankVars>>

\* AutoCache::request, AutoCache::requestIfEasy
Request(v) ==
  /\ May("request") /\ v \notin deleted
  /\ Post([type |-> "request", v |-> v])
  /\ waiting' = waiting \cup {v}
  /\ UNCHANGED <<gen, owed, holder, purging, deleted, workerVars>>

RequestIfEasy(v) ==
  /\ May("easy") /\ v \notin deleted
  /\ Post([type |-> "easy", v |-> v])
  /\ UNCHANGED <<mainVars, workerVars>>

\* New settings are written for all of S, then AutoCache::recache(S):
\* LightTable::rotateSelected, a rescan.
EditAndRecache(S) ==
  /\ May("recache") /\ S # {} /\ S \cap deleted = {}
  /\ \A v \in S : gen[v] < MaxGen
  /\ gen' = [v \in Versions |-> IF v \in S THEN gen[v] + 1 ELSE gen[v]]
  /\ holder' = [v \in Versions |-> IF v \in S THEN <<>> ELSE holder[v]]
  /\ Post([type |-> "recache", vs |-> S])
  /\ UNCHANGED <<owed, purging, deleted, waiting, workerVars>>

\* A slider writes new settings; the live adjuster will offer the result.
EditLive(v) ==
  /\ May("edit") /\ v \notin deleted /\ gen[v] < MaxGen
  /\ gen' = [gen EXCEPT ![v] = @ + 1]
  /\ owed' = owed \cup {v}
  /\ UNCHANGED <<holder, purging, deleted, waiting, events, workerVars>>

\* AutoCache::cacheModified: big tells whether the image fills the cache's
\* largest size.
Offer(v, big) ==
  /\ May(IF big THEN "offerBig" ELSE "offerSmall") /\ v \in owed
  /\ owed' = owed \ {v}
  /\ holder' = [holder EXCEPT ![v] = <<gen[v], big>>]
  /\ Post([type |-> "modified", v |-> v])
  /\ UNCHANGED <<gen, purging, deleted, waiting, workerVars>>

\* PurgeDialog: AutoCache::purge in the caller's thread, then deleteVersion.
PurgeFromCache(v) ==
  /\ May("purge") /\ purging = None /\ v \notin deleted
  /\ purging' = v
  /\ stored' = [u \in Versions |-> IF u = v THEN None ELSE stored[u]]
  /\ outdated' = outdated \ {v}
  /\ UNCHANGED <<gen, owed, holder, deleted, waiting, queue, asked, events, pc,
                 loopVars, setVars, outVars, bankVars>>

DeleteVersion ==
  /\ Running /\ purging # None
  /\ deleted' = deleted \cup {purging} /\ purging' = None
  /\ owed' = owed \ {purging} /\ waiting' = waiting \ {purging}
  /\ UNCHANGED <<gen, holder, events, workerVars>>

\* Session::quit lets the current handler finish, drops what is queued and
\* sweeps the cache rows of deleted versions (PurgeCache::purge).  Whatever
\* kills the process does the same without the sweep.
Restarted ==
  /\ owed' = {} /\ holder' = [v \in Versions |-> <<>>]
  /\ purging' = None /\ waiting' = {}
  /\ events' = <<>> /\ pc' = "boot" /\ slots' = 0 /\ notyetready' = {}
  /\ readyToLoad' = {} /\ rtlOrder' = <<>> /\ mustCache' = {}
  /\ beingLoaded' = {} /\ invalidated' = {}
  /\ loaded' = Nothing /\ hushup' = {} /\ requests' = {}
  /\ job' = [f \in Finders |-> None] /\ jobGen' = [f \in Finders |-> 0]
  /\ working' = {}

Quit ==
  /\ May("quit") /\ pc = "idle" /\ purging = None
  /\ stored' = [v \in Versions |-> IF v \in deleted THEN None ELSE stored[v]]
  /\ outdated' = outdated \ deleted
  /\ Restarted
  /\ UNCHANGED <<gen, deleted, queue, asked>>

Kill ==
  /\ "kill" \in Ops
  /\ Restarted
  /\ UNCHANGED <<gen, deleted, dbVars>>

-----------------------------------------------------------------------------
(* Pieces of the worker *)

\* activateBank up to its loop.  With nothing requested, half the threads
\* stay free.
StartActivate(req) ==
  LET K  == Cardinality(IdleFinders')
      K1 == IF Cardinality(Finders) >= 2 THEN Cardinality(Finders) \div 2 ELSE 1
  IN  /\ pc' = "activate" /\ notyetready' = {}
      /\ slots' = IF req = {} /\ K > K1 THEN K1 ELSE K

\* Mutant of MarkReadyToLoad: versions in flight are not invalidated.
MarkReadyNoInvalidate(S, being, inv, ld) ==
  LET fresh == S \ readyToLoad
  IN  /\ invalidated' = inv
      /\ loaded' = [v \in Versions |-> IF v \in S \ being THEN None ELSE ld[v]]
      /\ readyToLoad' = readyToLoad \cup S
      /\ mustCache' = mustCache \cup fresh
      /\ \E s \in Orders(fresh) : rtlOrder' = rtlOrder \o s

\* markReadyToLoad(S), from the given set being loaded and images in memory.
MarkReadyToLoad(S, being, inv, ld) ==
  LET fresh == S \ readyToLoad
  IN  /\ invalidated' = inv \cup (S \cap being)
      /\ loaded' = [v \in Versions |-> IF v \in S \ being THEN None ELSE ld[v]]
      /\ readyToLoad' = readyToLoad \cup S
      /\ mustCache' = mustCache \cup fresh
      /\ \E s \in Orders(fresh) : rtlOrder' = rtlOrder \o s

\* Mutant of StoreLoaded: the queue rows stay.
StoreLoadedNoDequeue(ld) ==
  /\ stored' = [v \in Versions |-> IF ld[v] # None THEN ld[v] ELSE stored[v]]
  /\ outdated' = outdated \ Loaded(ld)
  /\ UNCHANGED queue

\* storeLoadedInDB: one transaction.
StoreLoaded(ld) ==
  /\ stored' = [v \in Versions |-> IF ld[v] # None THEN ld[v] ELSE stored[v]]
  /\ outdated' = outdated \ Loaded(ld)
  /\ queue' = queue \ Loaded(ld)

\* Mutant of Refill: a finished batch is not followed by the next one.
NoRefill(q) == {{}}

\* What is readied when everything taken from the queue has been stored.
Refill(q) == SomeOf(q)

\* processLoaded, from the given set being loaded and images in memory.
ProcessLoaded(being, inv, ld) ==
  LET done == Loaded(ld) # {} /\ readyToLoad = {} /\ being = {}
  IN  /\ \/ /\ done
            /\ StoreLoaded(ld)
            /\ \E S \in Refill(queue') : MarkReadyToLoad(S, being, inv, Nothing)
         \/ /\ ~done /\ Cardinality(Loaded(ld)) > MaxLoaded
            /\ StoreLoaded(ld)
            /\ loaded' = Nothing /\ invalidated' = inv
            /\ UNCHANGED <<readyToLoad, rtlOrder, mustCache>>
         \/ /\ ~done /\ Cardinality(Loaded(ld)) <= MaxLoaded
            /\ loaded' = ld /\ invalidated' = inv
            /\ UNCHANGED <<queue, stored, outdated, readyToLoad, rtlOrder, mustCache>>
      /\ UNCHANGED asked

\* recache(S): queued and marked outdated in one transaction, then readied.
Recache(S) ==
  /\ queue' = queue \cup S
  /\ outdated' = outdated \cup {v \in S : stored[v] # None}
  /\ asked' = [v \in Versions |-> IF v \in S THEN gen[v] ELSE asked[v]]
  /\ MarkReadyToLoad(S, beingLoaded, invalidated, loaded)
  /\ UNCHANGED <<stored, beingLoaded>>

-----------------------------------------------------------------------------
(* The worker's handlers *)

Boot ==
  /\ pc = "boot"
  /\ \E S \in SomeOf(queue) : MarkReadyToLoad(S, beingLoaded, invalidated, loaded)
  /\ UNCHANGED bankVars
  /\ StartActivate(requests)
  /\ UNCHANGED <<mainVars, dbVars, events, beingLoaded, hushup, requests>>

Take(type) ==
  /\ pc = "idle" /\ events # <<>> /\ Head(events).type = type
  /\ events' = Tail(events)

HandleRecache ==
  /\ Take("recache")
  /\ Recache(Head(events).vs)
  /\ UNCHANGED bankVars
  /\ StartActivate(requests)
  /\ UNCHANGED <<mainVars, hushup, requests>>

\* Mutant of OvertakenBy: an image in flight may overwrite the offered one.
OvertakesNothing(v) == {}

\* The image in flight that an offer for v makes obsolete.
OvertakenBy(v) == {v} \cap beingLoaded

\* cacheModified: an image as large as the cache wants is taken into memory,
\* a smaller one makes the worker load the version again, silently.
HandleModified ==
  /\ Take("modified")
  /\ UNCHANGED bankVars
  /\ LET v == Head(events).v
     IN /\ holder' = [holder EXCEPT ![v] = <<>>]
        /\ \/ /\ holder[v] = <<>>
              /\ UNCHANGED <<dbVars, pc, loopVars, setVars, outVars>>
           \/ /\ holder[v] # <<>> /\ holder[v][2]
              /\ requests' = requests \ {v}
              /\ ProcessLoaded(beingLoaded,
                               invalidated \cup OvertakenBy(v),
                               [loaded EXCEPT ![v] = holder[v][1]])
              /\ StartActivate(requests')
              /\ UNCHANGED <<beingLoaded, hushup>>
           \/ /\ holder[v] # <<>> /\ ~holder[v][2]
              /\ hushup' = hushup \cup {v}
              /\ Recache({v})
              /\ StartActivate(requests)
              /\ UNCHANGED requests
  /\ UNCHANGED <<gen, owed, purging, deleted, waiting>>

WithRequest(v) == requests \cup {v}

\* QList::removeAll
Without(s, v) ==
  LET Kept[i \in 0..Len(s)] ==
        IF i = 0 THEN <<>>
        ELSE IF s[i] # v THEN Append(Kept[i - 1], s[i]) ELSE Kept[i - 1]
  IN  Kept[Len(s)]

\* A requested version is served first.
ToFront(v) ==
  <<v>> \o (IF v \in readyToLoad THEN Without(rtlOrder, v)
            ELSE rtlOrder)

\* requestImage.  What is at hand is shown at once; if it is outdated or
\* smaller than desired, a better one is loaded.
HandleRequest ==
  /\ Take("request")
  /\ LET v == Head(events).v
         fresh == loaded[v] # None \/ (stored[v] # None /\ v \notin outdated)
         sizes == IF v \in Poor THEN {"null", "small", "enough"} ELSE {"enough"}
     IN \E size \in sizes :
          LET shown == loaded[v] # None \/ (stored[v] # None /\ size # "null")
              enough == size = "enough"
          IN
          /\ waiting' = IF shown THEN waiting \ {v} ELSE waiting
          /\ UNCHANGED bankVars
          /\ \/ /\ fresh /\ enough
                /\ UNCHANGED <<pc, loopVars, setVars, requests>>
             \/ /\ ~(fresh /\ enough) /\ v \in beingLoaded
                /\ requests' = WithRequest(v)
                /\ UNCHANGED <<pc, loopVars, setVars>>
             \/ /\ ~(fresh /\ enough) /\ v \notin beingLoaded
                /\ requests' = WithRequest(v)
                /\ mustCache' = mustCache \cup {v}
                /\ readyToLoad' = readyToLoad \cup {v}
                /\ rtlOrder' = ToFront(v)
                /\ StartActivate(requests')
                /\ UNCHANGED <<beingLoaded, invalidated>>
  /\ UNCHANGED <<gen, owed, holder, purging, deleted, dbVars, loaded, hushup>>

\* requestIfEasy: only what is at hand and up to date.
HandleEasy ==
  /\ Take("easy")
  /\ LET v == Head(events).v
     IN \E null \in IF v \in Poor THEN BOOLEAN ELSE {FALSE} :
          waiting' = IF loaded[v] # None \/ (stored[v] # None /\ v \notin outdated /\ ~null)
                     THEN waiting \ {v} ELSE waiting
  /\ UNCHANGED <<gen, owed, holder, purging, deleted, workerVars>>

\* Mutant of HandleFinder: the finder is not freed.
HandleFinderStaysBusy ==
  /\ pc = "idle" /\ events # <<>> /\ Head(events).type = "finder"
  /\ LET f == Head(events).f
     IN events' = Append(Tail(events),
                         [type |-> "found", v |-> job[f], img |-> jobGen[f]])
  /\ UNCHANGED <<mainVars, dbVars, pc, loopVars, setVars, outVars, bankVars>>

\* ImageFinder::handleFoundImage frees the finder and passes the image on
\* through the queue.
HandleFinder ==
  /\ pc = "idle" /\ events # <<>> /\ Head(events).type = "finder"
  /\ LET f == Head(events).f
     IN /\ events' = Append(Tail(events),
                            [type |-> "found", v |-> job[f], img |-> jobGen[f]])
        /\ job' = [job EXCEPT ![f] = None]
        /\ jobGen' = [jobGen EXCEPT ![f] = 0]
  /\ UNCHANGED <<mainVars, dbVars, pc, loopVars, setVars, outVars, working>>

\* Mutant of Keeps: an invalidated image is kept all the same.
KeepsAnything(v) == v \in mustCache

Keeps(v) == v \notin invalidated /\ v \in mustCache

\* AC_Worker::handleFoundImage.  An image invalidated on its way is answered
\* to an explicit request, but not kept.
HandleFound ==
  /\ Take("found")
  /\ LET v == Head(events).v
         being == beingLoaded \ {v}
         ld == IF Keeps(v) THEN [loaded EXCEPT ![v] = Head(events).img] ELSE loaded
         answer == v \notin hushup /\ (v \notin invalidated \/ v \in requests)
     IN /\ v \notin deleted \ Poor
        /\ waiting' = IF answer THEN waiting \ {v} ELSE waiting
        /\ requests' = IF answer THEN requests \ {v} ELSE requests
        /\ beingLoaded' = being
        /\ ProcessLoaded(being, invalidated \ {v}, ld)
        /\ UNCHANGED bankVars
        /\ StartActivate(requests')
  /\ UNCHANGED <<gen, owed, holder, purging, deleted, hushup>>

\* ensureDBSizeCorrect asserts that the version is in the database, when the
\* file could be read.
FoundDeleted ==
  /\ pc = "idle" /\ events # <<>> /\ Head(events).type = "found"
  /\ Head(events).v \in deleted
  /\ pc' = "down"
  /\ UNCHANGED <<mainVars, dbVars, events, loopVars, setVars, outVars, bankVars>>

-----------------------------------------------------------------------------
(* activateBank, one iteration at a time *)

InLoop == pc = "activate" /\ slots > 0 /\ readyToLoad # {}
AfterLoop == pc = "activate" /\ (slots = 0 \/ readyToLoad = {})

\* Mutant of Sendable: versions still in flight are sent again.
SendableAtOnce == readyToLoad

Sendable == readyToLoad \ invalidated

\* An entry whose version is no longer ready is dropped with a complaint; one
\* invalidated in flight has to wait for its first answer.
SkipEntry ==
  /\ InLoop /\ rtlOrder # <<>>
  /\ LET v == Head(rtlOrder)
     IN /\ v \notin Sendable
        /\ notyetready' = IF v \in readyToLoad THEN notyetready \cup {v} ELSE notyetready
  /\ rtlOrder' = Tail(rtlOrder)
  /\ UNCHANGED <<mainVars, dbVars, events, pc, slots, readyToLoad, mustCache,
                 beingLoaded, invalidated, outVars, bankVars>>

\* Hand the version to an idle finder with the settings it has now.
SendToBank(f) ==
  /\ InLoop /\ rtlOrder # <<>> /\ f \in IdleFinders
  /\ LET v == Head(rtlOrder)
     IN /\ v \in Sendable \ deleted
        /\ readyToLoad' = readyToLoad \ {v}
        /\ beingLoaded' = beingLoaded \cup {v}
        /\ job' = [job EXCEPT ![f] = v]
        /\ jobGen' = [jobGen EXCEPT ![f] = gen[v]]
  /\ working' = working \cup {f}
  /\ rtlOrder' = Tail(rtlOrder) /\ slots' = slots - 1
  /\ UNCHANGED <<mainVars, dbVars, events, pc, notyetready, mustCache,
                 invalidated, outVars>>

\* sendToBank asserts that the version is in the database.
SendDeleted ==
  /\ InLoop /\ rtlOrder # <<>>
  /\ Head(rtlOrder) \in Sendable \cap deleted
  /\ pc' = "down"
  /\ UNCHANGED <<mainVars, dbVars, events, loopVars, setVars, outVars, bankVars>>

\* "rtlOrder is empty but readyToLoad is not"
ForgetReady ==
  /\ InLoop /\ rtlOrder = <<>>
  /\ readyToLoad' = {}
  /\ UNCHANGED <<mainVars, dbVars, events, pc, loopVars, rtlOrder, mustCache,
                 beingLoaded, invalidated, outVars, bankVars>>

PutBack(v) ==
  /\ AfterLoop /\ v \in notyetready
  /\ notyetready' = notyetready \ {v}
  /\ rtlOrder' = <<v>> \o rtlOrder
  /\ UNCHANGED <<mainVars, dbVars, events, pc, slots, readyToLoad, mustCache,
                 beingLoaded, invalidated, outVars, bankVars>>

EndActivate ==
  /\ AfterLoop /\ notyetready = {}
  /\ pc' = "idle" /\ slots' = 0
  /\ UNCHANGED <<mainVars, dbVars, events, notyetready, setVars, outVars, bankVars>>

-----------------------------------------------------------------------------
(* A finder's own thread: IF_Worker::findImage *)

FindImage(f) ==
  /\ pc # "down" /\ f \in working
  /\ working' = working \ {f}
  /\ events' = Append(events, [type |-> "finder", f |-> f])
  /\ UNCHANGED <<mainVars, dbVars, pc, loopVars, setVars, outVars, job, jobGen>>

-----------------------------------------------------------------------------
MainStep ==
  \/ \E v \in Versions : Request(v) \/ RequestIfEasy(v) \/ EditLive(v)
  \/ \E v \in Versions, big \in BOOLEAN : Offer(v, big)
  \/ \E S \in SUBSET Versions : EditAndRecache(S)
  \/ \E v \in Versions : PurgeFromCache(v)
  \/ DeleteVersion \/ Quit \/ Kill

HandlerStep == HandleRecache \/ HandleModified \/ HandleRequest \/ HandleEasy
               \/ HandleFinder \/ HandleFound \/ FoundDeleted

WorkerStep ==
  \/ Boot \/ HandlerStep
  \/ SkipEntry \/ (\E f \in Finders : SendToBank(f)) \/ SendDeleted \/ ForgetReady
  \/ (\E v \in Versions : PutBack(v)) \/ EndActivate

Next == MainStep \/ WorkerStep \/ \E f \in Finders : FindImage(f)

Spec == Init /\ [][Next]_vars

\* Qt delivers every posted event, and every thread runs; nothing obliges the
\* user to do anything.
Fairness == WF_vars(WorkerStep) /\ \A f \in Finders : WF_vars(FindImage(f))

FairSpec == Spec /\ Fairness
=============================================================================
