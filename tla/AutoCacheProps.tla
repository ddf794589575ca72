--------------------------- MODULE AutoCacheProps --------------------------
(* The properties of AutoCache. *)
EXTENDS AutoCache

\* The found images on their way through the worker's queue.
FoundAt == {i \in DOMAIN events : events[i].type = "found"}
Posted(type, v) == \E i \in DOMAIN events : events[i].type = type /\ events[i].v = v
RecachePosted(v) == \E i \in DOMAIN events :
                      events[i].type = "recache" /\ v \in events[i].vs

InFlight(v) == (\E f \in Finders : job[f] = v) \/ (\E i \in FoundAt : events[i].v = v)

(* The bank never works on two copies of a version at once (the comment in
   activateBank says why: answers to different requests for a version cannot
   be told apart), and beingLoaded names exactly what is under way. *)
SingleFlight ==
  /\ \A f, g \in Finders : job[f] = job[g] /\ job[f] # None => f = g
  /\ \A i, j \in FoundAt : events[i].v = events[j].v => i = j
  /\ \A f \in Finders, i \in FoundAt : job[f] # events[i].v
  /\ \A v \in Versions : v \in beingLoaded <=> InFlight(v)

\* What makes SingleFlight inductive.  A finder is counted busy until its
\* answer has been handled, and answers once; a version in flight that is
\* ready again is known to be invalidated, which keeps it from being sent.
FinderAt == {i \in DOMAIN events : events[i].type = "finder"}
FindersAnswerOnce ==
  /\ \A f \in working : job[f] # None
  /\ \A i \in FinderAt : job[events[i].f] # None /\ events[i].f \notin working
  /\ \A i, j \in FinderAt : events[i].f = events[j].f => i = j
ReadyAgainIsInvalidated ==
  /\ invalidated \subseteq beingLoaded
  /\ readyToLoad \cap beingLoaded \subseteq invalidated
FlightInv == TypeOK /\ SingleFlight /\ FindersAnswerOnce /\ ReadyAgainIsInvalidated

(* In the persistent cache database a cached image is marked outdated exactly
   when its version is in the queue, whenever the process stops: nothing marked
   for recaching is forgotten by a restart, and no fresh image is recached
   forever. *)
OutdatedIffQueued ==
  \A v \in Versions : stored[v] # None => (v \in outdated <=> v \in queue)

(* An image that the cache would serve as up to date, but is not, is about to
   be replaced: the live adjuster still owes one, a recache or an offer is on
   its way to the worker, or the worker holds the newest image in memory. *)
FreshOrPending ==
  \A v \in Versions \ deleted :
    stored[v] # None /\ v \notin outdated /\ stored[v] < gen[v] =>
      \/ v \in owed
      \/ RecachePosted(v)
      \/ Posted("modified", v) /\ holder[v] # <<>> /\ holder[v][1] = gen[v]
      \/ loaded[v] = gen[v]

(* The worker only ever does to the cache database what the ledger allows: a
   version leaves the queue only when an image no older than its last recache
   is stored, and no image is replaced by an older one. *)
Ledger == INSTANCE CacheLedger
            WITH Versions <- Versions, None <- None, gen <- gen, queue <- queue,
                 stored <- stored, outdated <- outdated, asked <- asked
ImplementsLedger == Ledger!Spec

(* Every request is eventually answered by an available signal. *)
RequestAnswered == \A v \in Versions : v \in waiting ~> v \notin waiting

(* Every queued version is eventually stored and leaves the queue. *)
QueueDrains == \A v \in Versions : v \in queue ~> v \notin queue
=============================================================================
