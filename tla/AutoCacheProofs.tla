-------------------------- MODULE AutoCacheProofs --------------------------
(* Theorems about AutoCache, for every value of its constants. *)
EXTENDS AutoCacheProps, WellFoundedInduction, FiniteSetTheorems, SequenceTheorems, TLAPS

-----------------------------------------------------------------------------
(* Induction over the natural numbers, with a set in place of a predicate. *)

\* A set of natural numbers that holds 0 and is closed under successor is Nat.
LEMMA SetInduction ==
  ASSUME NEW S \in SUBSET Nat, 0 \in S, \A n \in S : n + 1 \in S
  PROVE  S = Nat
<1> DEFINE T == Nat \ S
           R == {ss \in Nat \X Nat : ss[1] < ss[2]}
<1>1. IsWellFoundedOn(R, Nat)
  BY NatLessThanWellFounded, Zenon DEF OpToRel
<1>2. ASSUME T # {}
      PROVE  FALSE
  <2>1. PICK x \in T : \A y \in T : ~ (<<y, x>> \in R)
    <3>1. T \subseteq Nat
      OBVIOUS
    <3> HIDE DEF T, R
    <3>2. QED  BY <3>1, <1>1, <1>2, WFMin
  <2>2. x \in Nat /\ x # 0 /\ x - 1 \in Nat
    OBVIOUS
  <2>3. x - 1 \in S
    <3>1. <<x - 1, x>> \in R
      BY <2>2
    <3>2. QED  BY <2>1, <2>2, <3>1
  <2>4. x - 1 + 1 \in S
    BY <2>3
  <2>5. QED  BY <2>2, <2>4
<1>3. QED  BY <1>2

-----------------------------------------------------------------------------
(* The cache database *)

\* Storing any images keeps marks and queue rows in agreement.
LEMMA StoreKeepsAgreement ==
  ASSUME OutdatedIffQueued, NEW ld, StoreLoaded(ld)
  PROVE  OutdatedIffQueued'
BY DEF OutdatedIffQueued, StoreLoaded, Loaded

\* So does processLoaded, whichever way it goes.
LEMMA ProcessKeepsAgreement ==
  ASSUME OutdatedIffQueued, NEW being, NEW inv, NEW ld, ProcessLoaded(being, inv, ld)
  PROVE  OutdatedIffQueued'
<1>1. StoreLoaded(ld) \/ UNCHANGED <<queue, stored, outdated>>
  BY DEF ProcessLoaded
<1>2. CASE UNCHANGED <<queue, stored, outdated>>
  BY <1>2 DEF OutdatedIffQueued
<1>3. QED  BY <1>1, <1>2, StoreKeepsAgreement

\* Recaching marks and queues together.
LEMMA RecacheKeepsAgreement ==
  ASSUME OutdatedIffQueued, NEW S, Recache(S)
  PROVE  OutdatedIffQueued'
BY DEF OutdatedIffQueued, Recache

(* In the persistent cache database a cached image is marked outdated exactly
   when its version is queued, at every step and therefore after a restart at
   any moment. *)
THEOREM OutdatedIsQueued == Spec => []OutdatedIffQueued
<1>1. Init => OutdatedIffQueued
  BY DEF Init, OutdatedIffQueued
<1>2. OutdatedIffQueued /\ [Next]_vars => OutdatedIffQueued'
  <2> SUFFICES ASSUME OutdatedIffQueued, [Next]_vars
               PROVE  OutdatedIffQueued'
    OBVIOUS
  <2>1. CASE UNCHANGED <<queue, stored, outdated>>
    BY <2>1 DEF OutdatedIffQueued
  <2>2. CASE HandleRecache
    BY <2>2, RecacheKeepsAgreement DEF HandleRecache
  <2>3. CASE HandleModified
    <3>1. \/ UNCHANGED dbVars
          \/ \E being, inv, ld : ProcessLoaded(being, inv, ld)
          \/ \E S : Recache(S)
      BY <2>3 DEF HandleModified
    <3>2. QED
      BY <3>1, <2>1, ProcessKeepsAgreement, RecacheKeepsAgreement DEF dbVars
  <2>4. CASE HandleFound
    BY <2>4, ProcessKeepsAgreement DEF HandleFound
  <2>5. ASSUME NEW v \in Versions, PurgeFromCache(v)
        PROVE  OutdatedIffQueued'
    BY <2>5 DEF PurgeFromCache, OutdatedIffQueued
  <2>6. CASE Quit
    BY <2>6 DEF Quit, OutdatedIffQueued
  <2>7. CASE UNCHANGED vars
    BY <2>7, <2>1 DEF vars, dbVars
  <2>8. CASE MainStep
    <3>1. \/ UNCHANGED <<queue, stored, outdated>>
          \/ Quit \/ \E v \in Versions : PurgeFromCache(v)
      BY <2>8 DEF MainStep, Request, RequestIfEasy, EditLive, Offer, EditAndRecache,
                  DeleteVersion, Kill, workerVars, dbVars
    <3>2. QED  BY <3>1, <2>1, <2>5, <2>6
  <2>9. CASE WorkerStep
    <3>1. \/ UNCHANGED <<queue, stored, outdated>>
          \/ HandleRecache \/ HandleModified \/ HandleFound
      BY <2>9 DEF WorkerStep, HandlerStep, Boot, HandleRequest, HandleEasy,
                  HandleFinder, FoundDeleted, SkipEntry, SendToBank, SendDeleted,
                  ForgetReady, PutBack, EndActivate, workerVars, dbVars
    <3>2. QED  BY <3>1, <2>1, <2>2, <2>3, <2>4
  <2>10. CASE \E f \in Finders : FindImage(f)
    BY <2>10, <2>1 DEF FindImage, dbVars
  <2>11. QED
    BY <2>7, <2>8, <2>9, <2>10 DEF Next
<1>3. QED  BY <1>1, <1>2, PTL DEF Spec

-----------------------------------------------------------------------------
(* Types of the worker's pieces *)

Image == [Versions -> Gens \cup {None}]

LEMMA OrdersType ==
  ASSUME NEW S \in SUBSET Versions, NEW s \in Orders(S)
  PROVE  s \in Seq(Versions)
<1>1. Cardinality(S) \in Nat
  BY FS_Subset, FS_CardinalityType, ConstantsAssumption
<1>2. s \in [1..Cardinality(S) -> S]
  BY DEF Orders
<1>3. QED  BY <1>1, <1>2

\* What removeAll leaves in a list is a list over the same set.
LEMMA WithoutType ==
  ASSUME NEW A, NEW s \in Seq(A), NEW e
  PROVE  Without(s, e) \in Seq(A)
<1> DEFINE Step(k, i) == IF i = 0 THEN <<>>
                         ELSE IF s[i] # e THEN Append(k[i - 1], s[i]) ELSE k[i - 1]
           L == Len(s)
           P(n) == \E k \in [0..n -> Seq(A)] : \A i \in 0..n : k[i] = Step(k, i)
           Works == {n \in Nat : n <= L => P(n)}
           K == CHOOSE k : k = [i \in 0..L |-> Step(k, i)]
<1>1. L \in Nat /\ \A i \in 1..L : s[i] \in A
  OBVIOUS
<1>2. 0 \in Works
  <2> DEFINE k == [i \in 0..0 |-> <<>>]
  <2>1. k \in [0..0 -> Seq(A)]
    OBVIOUS
  <2>2. \A i \in 0..0 : k[i] = Step(k, i)
    OBVIOUS
  <2> HIDE DEF k, Step
  <2>3. QED  BY <2>1, <2>2
<1>3. ASSUME NEW n \in Works
      PROVE  n + 1 \in Works
  <2>1. SUFFICES ASSUME n + 1 <= L
                 PROVE  P(n + 1)
    <3> HIDE DEF P
    <3>1. QED  OBVIOUS
  <2>2. PICK k \in [0..n -> Seq(A)] : \A i \in 0..n : k[i] = Step(k, i)
    BY <2>1, <1>1
  <2>3. k[n] \in Seq(A) /\ s[n + 1] \in A /\ n \in Nat
    BY <1>1, <2>1
  <2> DEFINE last == IF s[n + 1] # e THEN Append(k[n], s[n + 1]) ELSE k[n]
             g == [i \in 0..(n + 1) |-> IF i = n + 1 THEN last ELSE k[i]]
  <2>4. last \in Seq(A)
    BY <2>3
  <2>5. g \in [0..(n + 1) -> Seq(A)]
    BY <2>3, <2>4
  <2>6. ASSUME NEW i \in 0..(n + 1)
        PROVE  g[i] = Step(g, i)
    <3>1. CASE i = 0
      BY <2>2, <2>3, <3>1
    <3>2. CASE i = n + 1
      BY <2>3, <3>2
    <3>3. CASE i \in 1..n
      <4>1. g[i] = k[i] /\ g[i - 1] = k[i - 1] /\ i # 0 /\ i \in 0..n
        BY <2>3, <3>3
      <4>2. k[i] = Step(k, i)
        BY <2>2, <4>1
      <4> HIDE DEF g
      <4>3. QED  BY <4>1, <4>2
    <3>4. QED  BY <2>3, <3>1, <3>2, <3>3
  <2>7. QED  BY <2>5, <2>6
<1>4. L \in Works
  <2> HIDE DEF Works
  <2>1. Works \in SUBSET Nat
    BY DEF Works
  <2>2. QED  BY <1>1, <1>2, <1>3, <2>1, SetInduction
<1>5. PICK k \in [0..L -> Seq(A)] : \A i \in 0..L : k[i] = Step(k, i)
  BY <1>1, <1>4
<1>6. k = [i \in 0..L |-> Step(k, i)]
  BY <1>5
<1>7. K = [i \in 0..L |-> Step(K, i)]
  <2> HIDE DEF Step, L
  <2>1. QED  BY <1>6
<1>8. \A i \in 0..L : K[i] \in Seq(A)
  <2> DEFINE Good == {n \in Nat : n <= L => K[n] \in Seq(A)}
  <2> HIDE DEF K
  <2>1. \A i \in 0..L : K[i] = Step(K, i)
    BY <1>7
  <2>2. 0 \in Good
    <3>1. 0 \in 0..L
      BY <1>1
    <3>2. K[0] = <<>>
      BY <2>1, <3>1
    <3>3. <<>> \in Seq(A)
      OBVIOUS
    <3>4. QED  BY <3>2, <3>3
  <2>3. ASSUME NEW n \in Good
        PROVE  n + 1 \in Good
    <3>1. SUFFICES ASSUME n + 1 <= L PROVE K[n + 1] \in Seq(A)
      OBVIOUS
    <3>2. K[n] \in Seq(A) /\ K[n + 1] = Step(K, n + 1) /\ s[n + 1] \in A
      BY <2>1, <3>1, <1>1
    <3>3. QED  BY <3>2
  <2>4. Good = Nat
    <3>1. Good \in SUBSET Nat
      OBVIOUS
    <3> HIDE DEF Good
    <3>2. QED  BY <2>2, <2>3, <3>1, SetInduction
  <2>5. QED  BY <2>4, <1>1
<1>9. Without(s, e) = K[L]
  BY DEF Without
<1> HIDE DEF K, L
<1>10. QED  BY <1>1, <1>8, <1>9

\* markReadyToLoad only adds to readyToLoad, and invalidates what is in flight.
LEMMA MarkReadyType ==
  ASSUME TypeOK, NEW S \in SUBSET Versions, NEW being \in SUBSET Versions,
         NEW inv \in SUBSET Versions, NEW ld \in Image,
         MarkReadyToLoad(S, being, inv, ld)
  PROVE  /\ readyToLoad' = readyToLoad \cup S /\ invalidated' = inv \cup (S \cap being)
         /\ readyToLoad' \subseteq Versions /\ invalidated' \subseteq Versions
         /\ mustCache' \subseteq Versions /\ rtlOrder' \in Seq(Versions)
         /\ loaded' \in Image
<1>1. PICK s \in Orders(S \ readyToLoad) : rtlOrder' = rtlOrder \o s
  BY DEF MarkReadyToLoad
<1>2. s \in Seq(Versions)
  BY <1>1, OrdersType
<1>3. rtlOrder' \in Seq(Versions)
  BY <1>1, <1>2 DEF TypeOK
<1>4. loaded' \in Image
  BY DEF MarkReadyToLoad, Image
<1>5. QED  BY <1>3, <1>4 DEF MarkReadyToLoad, TypeOK

\* storeLoadedInDB leaves a well-formed database.
LEMMA StoreType ==
  ASSUME TypeOK, NEW ld \in Image, StoreLoaded(ld)
  PROVE  queue' \subseteq Versions /\ outdated' \subseteq Versions /\ stored' \in Image
BY DEF StoreLoaded, TypeOK, Image

\* processLoaded readies versions only when nothing is in flight.
LEMMA ProcessType ==
  ASSUME TypeOK, NEW being \in SUBSET Versions, NEW inv \in SUBSET Versions,
         NEW ld \in Image, ProcessLoaded(being, inv, ld)
  PROVE  /\ invalidated' = inv
         /\ readyToLoad' = readyToLoad \/ being = {}
         /\ readyToLoad' \subseteq Versions /\ mustCache' \subseteq Versions
         /\ rtlOrder' \in Seq(Versions) /\ loaded' \in Image
         /\ queue' \subseteq Versions /\ outdated' \subseteq Versions
         /\ stored' \in Image /\ asked' = asked
<1> DEFINE done == Loaded(ld) # {} /\ readyToLoad = {} /\ being = {}
<1>1. Nothing \in Image
  BY DEF Nothing, Image
<1>2. CASE done
  <2>1. StoreLoaded(ld) /\ asked' = asked
    BY <1>2 DEF ProcessLoaded
  <2>2. PICK S \in Refill(queue') : MarkReadyToLoad(S, being, inv, Nothing)
    BY <1>2 DEF ProcessLoaded
  <2>3. queue' \subseteq Versions /\ outdated' \subseteq Versions /\ stored' \in Image
    BY <2>1, StoreType
  <2>4. S \in SUBSET Versions
    BY <2>2, <2>3 DEF Refill, SomeOf
  <2>5. /\ invalidated' = inv \cup (S \cap being)
        /\ readyToLoad' \subseteq Versions /\ mustCache' \subseteq Versions
        /\ rtlOrder' \in Seq(Versions) /\ loaded' \in Image
    BY <1>1, <2>2, <2>4, MarkReadyType
  <2>6. being = {}
    BY <1>2
  <2>7. invalidated' = inv
    BY <2>5, <2>6
  <2>8. QED  BY <2>1, <2>3, <2>5, <2>6, <2>7
<1>3. CASE ~done
  <2>1. /\ invalidated' = inv /\ asked' = asked /\ loaded' \in {Nothing, ld}
        /\ UNCHANGED <<readyToLoad, rtlOrder, mustCache>>
        /\ StoreLoaded(ld) \/ UNCHANGED <<queue, stored, outdated>>
    BY <1>3 DEF ProcessLoaded
  <2>2. queue' \subseteq Versions /\ outdated' \subseteq Versions /\ stored' \in Image
    BY <2>1, StoreType DEF TypeOK, Image
  <2>3. QED
    BY <1>1, <2>1, <2>2 DEF TypeOK
<1>4. QED  BY <1>2, <1>3

\* activateBank starts with a natural number of free places.
LEMMA StartType ==
  ASSUME NEW req, StartActivate(req), job' \in [Finders -> Versions \cup {None}]
  PROVE  pc' = "activate" /\ notyetready' = {} /\ slots' \in Nat
<1>1. Cardinality(Finders) \in Nat /\ Cardinality(IdleFinders') \in Nat
  <2>1. IdleFinders' \subseteq Finders
    BY DEF IdleFinders
  <2>2. QED  BY <2>1, FS_Subset, FS_CardinalityType, ConstantsAssumption
<1>2. QED  BY <1>1 DEF StartActivate

\* recache keeps types, and readies nothing in flight without invalidating it.
LEMMA RecacheType ==
  ASSUME TypeOK, NEW S \in SUBSET Versions, Recache(S)
  PROVE  /\ beingLoaded' = beingLoaded
         /\ readyToLoad' = readyToLoad \cup S
         /\ invalidated' = invalidated \cup (S \cap beingLoaded)
         /\ readyToLoad' \subseteq Versions /\ mustCache' \subseteq Versions
         /\ rtlOrder' \in Seq(Versions) /\ loaded' \in Image
         /\ queue' \subseteq Versions /\ outdated' \subseteq Versions
         /\ stored' \in Image /\ asked' \in [Versions -> Gens]
<1>1. loaded \in Image /\ beingLoaded \in SUBSET Versions /\ invalidated \in SUBSET Versions
  BY DEF TypeOK, Image
<1>2. MarkReadyToLoad(S, beingLoaded, invalidated, loaded)
  BY DEF Recache
<1>3. /\ queue' \subseteq Versions /\ outdated' \subseteq Versions
      /\ stored' \in Image /\ asked' \in [Versions -> Gens] /\ beingLoaded' = beingLoaded
  BY DEF Recache, TypeOK, Image
<1>4. QED  BY <1>1, <1>2, <1>3, MarkReadyType

-----------------------------------------------------------------------------
(* One flight per version *)

\* The flights seen so far keep their places in the queue.
LEMMA SamePlaces ==
  ASSUME SingleFlight, FindersAnswerOnce, FoundAt' = FoundAt, FinderAt' = FinderAt,
         \A i \in FoundAt \cup FinderAt : events'[i] = events[i],
         job' = job, working' = working, beingLoaded' = beingLoaded
  PROVE  SingleFlight' /\ FindersAnswerOnce'
<1>1. \A v \in Versions : InFlight(v)' <=> InFlight(v)
  BY DEF InFlight
<1>2. SingleFlight'
  BY <1>1 DEF SingleFlight
<1>3. FindersAnswerOnce'
  BY DEF FindersAnswerOnce
<1>4. QED  BY <1>2, <1>3

\* They move up by one place together.
LEMMA ShiftedPlaces ==
  ASSUME SingleFlight, FindersAnswerOnce,
         FoundAt' \subseteq Int, FoundAt \subseteq Int, FinderAt' \subseteq Int,
         \A i \in FoundAt' : i + 1 \in FoundAt /\ events'[i] = events[i + 1],
         \A i \in FoundAt : i - 1 \in FoundAt' /\ events[i] = events'[i - 1],
         \A i \in FinderAt' : i + 1 \in FinderAt /\ events'[i] = events[i + 1],
         job' = job, working' = working, beingLoaded' = beingLoaded
  PROVE  SingleFlight' /\ FindersAnswerOnce'
<1>1. \A v \in Versions : InFlight(v)' <=> InFlight(v)
  BY DEF InFlight
<1>2. SingleFlight'
  <2>1. \A i, j \in FoundAt' : events'[i].v = events'[j].v => i = j
    <3>1. SUFFICES ASSUME NEW i \in FoundAt', NEW j \in FoundAt', events'[i].v = events'[j].v
                   PROVE  i = j
      OBVIOUS
    <3>2. i + 1 = j + 1
      BY <3>1 DEF SingleFlight
    <3>3. QED  BY <3>2
  <2>2. \A f \in Finders, i \in FoundAt' : job[f] # events'[i].v
    BY DEF SingleFlight
  <2>3. QED  BY <1>1, <2>1, <2>2 DEF SingleFlight
<1>3. FindersAnswerOnce'
  <2>1. \A i, j \in FinderAt' : events'[i].f = events'[j].f => i = j
    <3>1. SUFFICES ASSUME NEW i \in FinderAt', NEW j \in FinderAt', events'[i].f = events'[j].f
                   PROVE  i = j
      OBVIOUS
    <3>2. i + 1 = j + 1
      BY <3>1 DEF FindersAnswerOnce
    <3>3. QED  BY <3>2
  <2>2. QED  BY <2>1 DEF FindersAnswerOnce
<1>4. QED  BY <1>2, <1>3

\* Posting an event of another kind leaves all flights as they are.
LEMMA PostKeepsFlights ==
  ASSUME events \in Seq(Event), SingleFlight, FindersAnswerOnce,
         NEW e \in Event, e.type \notin {"finder", "found"},
         events' = Append(events, e), UNCHANGED <<job, working, beingLoaded>>
  PROVE  events' \in Seq(Event) /\ SingleFlight' /\ FindersAnswerOnce'
<1>1. /\ events' \in Seq(Event)
      /\ DOMAIN events' = 1..(Len(events) + 1) /\ DOMAIN events = 1..Len(events)
      /\ \A i \in DOMAIN events : events'[i] = events[i]
      /\ events'[Len(events) + 1] = e /\ Len(events) \in Nat
  OBVIOUS
<1>2. FoundAt' = FoundAt /\ FinderAt' = FinderAt
  BY <1>1 DEF FoundAt, FinderAt
<1>3. \A i \in FoundAt \cup FinderAt : events'[i] = events[i]
  BY <1>1 DEF FoundAt, FinderAt
<1>4. QED  BY <1>1, <1>2, <1>3, SamePlaces

\* So does taking one.
LEMMA TakeKeepsFlights ==
  ASSUME events \in Seq(Event), SingleFlight, FindersAnswerOnce,
         events # <<>>, Head(events).type \notin {"finder", "found"},
         events' = Tail(events), UNCHANGED <<job, working, beingLoaded>>
  PROVE  events' \in Seq(Event) /\ SingleFlight' /\ FindersAnswerOnce'
<1>1. /\ events' \in Seq(Event) /\ Len(events) \in Nat \ {0}
      /\ DOMAIN events' = 1..(Len(events) - 1) /\ DOMAIN events = 1..Len(events)
      /\ \A i \in DOMAIN events' : events'[i] = events[i + 1]
      /\ events[1] = Head(events)
  OBVIOUS
<1>2. /\ \A i \in FoundAt' : i + 1 \in FoundAt /\ events'[i] = events[i + 1]
      /\ \A i \in FoundAt : i - 1 \in FoundAt' /\ events[i] = events'[i - 1]
      /\ \A i \in FinderAt' : i + 1 \in FinderAt /\ events'[i] = events[i + 1]
      /\ FoundAt \subseteq Int /\ FoundAt' \subseteq Int /\ FinderAt' \subseteq Int
  BY <1>1 DEF FoundAt, FinderAt
<1>3. job' = job /\ working' = working /\ beingLoaded' = beingLoaded
  OBVIOUS
<1>4. SingleFlight' /\ FindersAnswerOnce'
  BY <1>2, <1>3, ShiftedPlaces
<1>5. QED  BY <1>1, <1>4

\* A finder's thread posts its answer: the finder stays busy, and it had not
\* answered before.
LEMMA FindImageKeepsFlights ==
  ASSUME FlightInv, NEW f \in Finders, FindImage(f)
  PROVE  FlightInv'
<1> DEFINE e == [type |-> "finder", f |-> f]
           n == Len(events) + 1
<1>1. /\ events' = Append(events, e) /\ e \in Event /\ working' = working \ {f}
      /\ f \in working /\ job' = job /\ beingLoaded' = beingLoaded
      /\ readyToLoad' = readyToLoad /\ invalidated' = invalidated
  BY DEF FindImage, Event, bankVars, setVars
<1>2. events \in Seq(Event) /\ SingleFlight /\ FindersAnswerOnce
  BY DEF FlightInv, TypeOK
<1>3. /\ events' \in Seq(Event)
      /\ DOMAIN events' = 1..n /\ DOMAIN events = 1..Len(events) /\ Len(events) \in Nat
      /\ \A i \in DOMAIN events : events'[i] = events[i]
      /\ events'[n] = e
  BY <1>1, <1>2
<1>4. TypeOK'
  BY <1>3 DEF FlightInv, TypeOK, FindImage, mainVars, dbVars, loopVars, setVars, outVars
<1>5. /\ FoundAt' = FoundAt /\ FinderAt' = FinderAt \cup {n}
      /\ \A i \in FoundAt \cup FinderAt : events'[i] = events[i]
      /\ n \notin FinderAt /\ events'[n].f = f
  BY <1>3 DEF FoundAt, FinderAt
<1> HIDE DEF n, e
<1>6. SingleFlight'
  <2>1. \A v \in Versions : InFlight(v)' <=> InFlight(v)
    BY <1>1, <1>5 DEF InFlight
  <2>2. \A i, j \in FoundAt' : events'[i].v = events'[j].v => i = j
    BY <1>2, <1>5 DEF SingleFlight
  <2>3. \A g \in Finders, i \in FoundAt' : job[g] # events'[i].v
    BY <1>2, <1>5 DEF SingleFlight
  <2>4. QED  BY <1>1, <1>2, <2>1, <2>2, <2>3 DEF SingleFlight
<1>7. FindersAnswerOnce'
  <2>1. \A i \in FinderAt : events[i].f # f
    BY <1>1, <1>2 DEF FindersAnswerOnce
  <2>2. \A i, j \in FinderAt' : events'[i].f = events'[j].f => i = j
    BY <1>2, <1>5, <2>1 DEF FindersAnswerOnce
  <2>3. \A i \in FinderAt' : job[events'[i].f] # None /\ events'[i].f \notin working'
    BY <1>1, <1>2, <1>5 DEF FindersAnswerOnce
  <2>4. QED  BY <1>1, <1>2, <2>2, <2>3 DEF FindersAnswerOnce
<1>8. QED
  BY <1>1, <1>4, <1>6, <1>7 DEF FlightInv, ReadyAgainIsInvalidated

\* A version is sent to an idle finder only when nothing of it is in flight.
LEMMA SendKeepsFlights ==
  ASSUME FlightInv, NEW f \in Finders, SendToBank(f)
  PROVE  FlightInv'
<1> DEFINE v == Head(rtlOrder)
<1>1. /\ job[f] = None /\ v \in readyToLoad /\ v \notin invalidated
      /\ v \in Versions /\ slots \in Nat /\ slots > 0 /\ rtlOrder # <<>>
  BY DEF SendToBank, InLoop, IdleFinders, Sendable, FlightInv, TypeOK
<1>2. /\ readyToLoad' = readyToLoad \ {v} /\ beingLoaded' = beingLoaded \cup {v}
      /\ job' = [job EXCEPT ![f] = v] /\ working' = working \cup {f}
      /\ events' = events /\ invalidated' = invalidated
  BY DEF SendToBank
<1>3. /\ v \notin beingLoaded /\ SingleFlight /\ FindersAnswerOnce
      /\ job \in [Finders -> Versions \cup {None}] /\ v # None
  BY <1>1, ConstantsAssumption DEF FlightInv, ReadyAgainIsInvalidated, TypeOK
<1>4. TypeOK'
  <2>1. rtlOrder' \in Seq(Versions) /\ slots' \in Nat
    BY <1>1 DEF SendToBank, FlightInv, TypeOK
  <2>2. jobGen' \in [Finders -> Gens] /\ job' \in [Finders -> Versions \cup {None}]
    BY <1>1 DEF SendToBank, FlightInv, TypeOK
  <2>3. QED
    BY <2>1, <2>2, <1>1, <1>2
    DEF FlightInv, TypeOK, SendToBank, mainVars, dbVars, outVars
<1>5. FoundAt' = FoundAt /\ FinderAt' = FinderAt
  BY <1>2 DEF FoundAt, FinderAt
<1>6. ~InFlight(v)
  BY <1>1, <1>3 DEF SingleFlight
<1> HIDE DEF v
<1>7. \A u \in Versions : InFlight(u)' <=> InFlight(u) \/ u = v
  <2>1. \A g \in Finders : job'[g] = IF g = f THEN v ELSE job[g]
    BY <1>2, <1>3
  <2>2. \A u \in Versions : (\E g \in Finders : job'[g] = u)
                           <=> (\E g \in Finders : job[g] = u) \/ u = v
    BY <2>1, <1>1, ConstantsAssumption
  <2>3. QED  BY <2>2, <1>2, <1>5 DEF InFlight
<1>8. SingleFlight'
  BY <1>2, <1>3, <1>5, <1>6, <1>7 DEF SingleFlight, InFlight
<1>9. FindersAnswerOnce'
  BY <1>1, <1>2, <1>3, <1>5 DEF FindersAnswerOnce
<1>10. ReadyAgainIsInvalidated'
  BY <1>2 DEF FlightInv, ReadyAgainIsInvalidated
<1>11. QED  BY <1>4, <1>8, <1>9, <1>10 DEF FlightInv

\* The finder's answer becomes a found image: the version stays in flight, and
\* the finder is free.
LEMMA HandleFinderKeepsFlights ==
  ASSUME FlightInv, HandleFinder
  PROVE  FlightInv'
<1> DEFINE f == Head(events).f
           e == [type |-> "found", v |-> job[f], img |-> jobGen[f]]
           n == Len(events)
<1>1. /\ events \in Seq(Event) /\ events # <<>> /\ Head(events).type = "finder"
      /\ events' = Append(Tail(events), e)
      /\ job' = [job EXCEPT ![f] = None] /\ jobGen' = [jobGen EXCEPT ![f] = 0]
      /\ working' = working /\ beingLoaded' = beingLoaded
      /\ readyToLoad' = readyToLoad /\ invalidated' = invalidated
  BY DEF HandleFinder, FlightInv, TypeOK, setVars
<1>2. Head(events) \in Event /\ n \in Nat \ {0} /\ events[1] = Head(events)
  BY <1>1
<1>3. f \in Finders
  BY <1>1, <1>2 DEF Event
<1>4. SingleFlight /\ FindersAnswerOnce /\ job \in [Finders -> Versions \cup {None}]
  BY DEF FlightInv, TypeOK
<1>5. 1 \in FinderAt
  BY <1>1, <1>2 DEF FinderAt
<1>6. job[f] \in Versions /\ job[f] # None /\ f \notin working
  BY <1>2, <1>3, <1>4, <1>5 DEF FindersAnswerOnce
<1>7. e \in Event
  BY <1>3, <1>6 DEF Event, FlightInv, TypeOK
<1>8. /\ Tail(events) \in Seq(Event) /\ Len(Tail(events)) = n - 1
      /\ \A i \in 1..(n - 1) : Tail(events)[i] = events[i + 1]
  BY <1>1, <1>2
<1>9. /\ events' \in Seq(Event) /\ DOMAIN events' = 1..n /\ DOMAIN events = 1..n
      /\ \A i \in 1..(n - 1) : events'[i] = events[i + 1]
      /\ events'[n] = e
  BY <1>1, <1>2, <1>7, <1>8
<1>10. TypeOK'
  BY <1>1, <1>3, <1>9, ConstantsAssumption
  DEF FlightInv, TypeOK, HandleFinder, mainVars, dbVars, loopVars, setVars, outVars, Gens
<1>11. /\ \A i \in FoundAt' : i = n \/ (i + 1 \in FoundAt /\ events'[i] = events[i + 1])
       /\ n \in FoundAt' /\ events'[n].v = job[f]
       /\ \A i \in FoundAt : i - 1 \in FoundAt' /\ events[i] = events'[i - 1] /\ i - 1 # n
       /\ \A i \in FinderAt' : /\ i + 1 \in FinderAt /\ events'[i] = events[i + 1]
                               /\ i + 1 # 1
       /\ FoundAt \subseteq Int /\ FoundAt' \subseteq Int /\ FinderAt' \subseteq Int
  BY <1>1, <1>2, <1>9 DEF FoundAt, FinderAt
<1>12. \A g \in Finders : job'[g] = IF g = f THEN None ELSE job[g]
  BY <1>1, <1>4
<1> HIDE DEF n, e, f
<1>13. \A v \in Versions : InFlight(v)' <=> InFlight(v)
  <2>1. ASSUME NEW v \in Versions, InFlight(v)'
        PROVE  InFlight(v)
    BY <2>1, <1>3, <1>11, <1>12, ConstantsAssumption DEF InFlight
  <2>2. ASSUME NEW v \in Versions, InFlight(v)
        PROVE  InFlight(v)'
    <3>1. CASE \E g \in Finders : job[g] = v
      BY <3>1, <1>3, <1>11, <1>12 DEF InFlight
    <3>2. CASE \E i \in FoundAt : events[i].v = v
      BY <3>2, <1>11 DEF InFlight
    <3>3. QED  BY <2>2, <3>1, <3>2 DEF InFlight
  <2>3. QED  BY <2>1, <2>2
<1>14. SingleFlight'
  <2>1. \A g, h \in Finders : job'[g] = job'[h] /\ job'[g] # None => g = h
    BY <1>4, <1>12 DEF SingleFlight
  <2>2. ASSUME NEW i \in FoundAt', NEW j \in FoundAt', events'[i].v = events'[j].v
        PROVE  i = j
    <3>1. CASE i # n /\ j # n
      <4>1. i + 1 = j + 1
        BY <2>2, <3>1, <1>4, <1>11 DEF SingleFlight
      <4>2. QED  BY <4>1, <1>11
    <3>2. CASE i = n /\ j # n
      BY <2>2, <3>2, <1>3, <1>4, <1>11 DEF SingleFlight
    <3>3. CASE i # n /\ j = n
      BY <2>2, <3>3, <1>3, <1>4, <1>11 DEF SingleFlight
    <3>4. QED  BY <3>1, <3>2, <3>3
  <2>3. ASSUME NEW g \in Finders, NEW i \in FoundAt'
        PROVE  job'[g] # events'[i].v
    <3>1. CASE i = n
      BY <3>1, <1>3, <1>4, <1>6, <1>11, <1>12 DEF SingleFlight
    <3>2. CASE i # n
      <4>1. i + 1 \in FoundAt /\ events'[i].v = events[i + 1].v
        BY <3>2, <1>11
      <4>2. i + 1 \in DOMAIN events /\ events[i + 1] \in Event
            /\ events[i + 1].type = "found"
        BY <4>1, <1>1 DEF FoundAt
      <4>3. events[i + 1].v # None
        BY <4>2, ConstantsAssumption DEF Event
      <4>4. QED  BY <4>1, <4>3, <1>4, <1>12 DEF SingleFlight
    <3>3. QED  BY <3>1, <3>2
  <2>4. QED
    BY <1>1, <1>4, <1>13, <2>1, <2>2, <2>3 DEF SingleFlight
<1>15. FindersAnswerOnce'
  <2>1. \A g \in working : g # f
    BY <1>6
  <2>2. \A i \in FinderAt' : events'[i].f # f
    BY <1>2, <1>5, <1>11, <1>4 DEF FindersAnswerOnce, f
  <2>3. ASSUME NEW i \in FinderAt', NEW j \in FinderAt', events'[i].f = events'[j].f
        PROVE  i = j
    <3>1. i + 1 = j + 1
      BY <2>3, <1>11, <1>4 DEF FindersAnswerOnce
    <3>2. QED  BY <3>1, <1>11
  <2>4. \A g \in working : job'[g] # None
    BY <1>4, <1>12, <2>1 DEF FindersAnswerOnce, FlightInv, TypeOK
  <2>5. \A i \in FinderAt' : job'[events'[i].f] # None /\ events'[i].f \notin working'
    <3>1. SUFFICES ASSUME NEW i \in FinderAt'
                   PROVE  job'[events'[i].f] # None /\ events'[i].f \notin working
      BY <1>1
    <3>2. i + 1 \in DOMAIN events /\ events[i + 1] \in Event /\ events[i + 1].type = "finder"
      BY <1>1, <1>11 DEF FinderAt
    <3>3. events[i + 1].f \in Finders
      BY <3>2 DEF Event
    <3>4. QED
      BY <3>3, <1>4, <1>11, <1>12, <2>2 DEF FindersAnswerOnce
  <2>6. QED  BY <1>1, <2>3, <2>4, <2>5 DEF FindersAnswerOnce
<1>16. QED
  BY <1>1, <1>10, <1>14, <1>15 DEF FlightInv, ReadyAgainIsInvalidated

\* Handling a found image ends the one flight of its version.  Versions are
\* readied anew only when that was the last flight of all.
LEMMA HandleFoundKeepsFlights ==
  ASSUME FlightInv, HandleFound
  PROVE  FlightInv'
<1> DEFINE v == Head(events).v
           being == beingLoaded \ {v}
           inv == invalidated \ {v}
           ld == IF Keeps(v) THEN [loaded EXCEPT ![v] = Head(events).img] ELSE loaded
<1>0. SingleFlight /\ FindersAnswerOnce
  BY DEF FlightInv
<1>1. /\ TypeOK /\ SingleFlight /\ FindersAnswerOnce /\ ReadyAgainIsInvalidated
      /\ events \in Seq(Event) /\ events # <<>> /\ Head(events).type = "found"
      /\ events' = Tail(events) /\ pc = "idle"
  BY DEF HandleFound, Take, FlightInv, TypeOK
<1>2. /\ beingLoaded' = being /\ ProcessLoaded(being, inv, ld)
      /\ UNCHANGED bankVars /\ StartActivate(requests')
      /\ waiting' \in {waiting, waiting \ {v}} /\ requests' \in {requests, requests \ {v}}
      /\ UNCHANGED <<gen, owed, holder, purging, deleted, hushup>>
  BY DEF HandleFound
<1>3. /\ Head(events) \in Event /\ events[1] = Head(events) /\ Len(events) \in Nat \ {0}
      /\ events' \in Seq(Event)
      /\ DOMAIN events' = 1..(Len(events) - 1) /\ DOMAIN events = 1..Len(events)
      /\ \A i \in DOMAIN events' : events'[i] = events[i + 1]
  BY <1>1
<1>4. v \in Versions /\ Head(events).img \in Gens
  BY <1>1, <1>3 DEF Event
<1>5. being \in SUBSET Versions /\ inv \in SUBSET Versions /\ ld \in Image
  BY <1>1, <1>4 DEF TypeOK, Image
<1>6. /\ invalidated' = inv
      /\ readyToLoad' = readyToLoad \/ being = {}
      /\ readyToLoad' \subseteq Versions /\ mustCache' \subseteq Versions
      /\ rtlOrder' \in Seq(Versions) /\ loaded' \in Image
      /\ queue' \subseteq Versions /\ outdated' \subseteq Versions
      /\ stored' \in Image /\ asked' = asked
  BY <1>1, <1>2, <1>5, ProcessType
<1>7. job' = job /\ jobGen' = jobGen /\ working' = working
  BY <1>2 DEF bankVars
<1>8. pc' = "activate" /\ notyetready' = {} /\ slots' \in Nat
  BY <1>1, <1>2, <1>7, StartType DEF TypeOK
<1>9. TypeOK'
  BY <1>1, <1>2, <1>3, <1>5, <1>6, <1>7, <1>8 DEF TypeOK, Image
<1>10. /\ 1 \in FoundAt
       /\ \A i \in FoundAt' : i + 1 \in FoundAt /\ events'[i] = events[i + 1] /\ i + 1 # 1
       /\ \A i \in FoundAt : i = 1 \/ (i - 1 \in FoundAt' /\ events[i] = events'[i - 1])
       /\ \A i \in FinderAt' : i + 1 \in FinderAt /\ events'[i] = events[i + 1]
       /\ FoundAt' \subseteq Int /\ FinderAt' \subseteq Int /\ events[1].v = v
  BY <1>1, <1>3 DEF FoundAt, FinderAt
<1> HIDE DEF v
<1>11. \A u \in Versions : InFlight(u)' <=> InFlight(u) /\ u # v
  <2>1. ASSUME NEW u \in Versions
        PROVE  (\E i \in FoundAt' : events'[i].v = u)
                 <=> (\E i \in FoundAt : events[i].v = u) /\ u # v
    <3>1. \A i \in FoundAt' : events'[i].v # v
      BY <1>0, <1>10 DEF SingleFlight
    <3>2. QED  BY <3>1, <1>10
  <2>2. \A f \in Finders : job[f] # v
    BY <1>0, <1>10 DEF SingleFlight
  <2>3. QED  BY <2>1, <2>2, <1>7 DEF InFlight
<1>12. SingleFlight'
  <2>1. ASSUME NEW i \in FoundAt', NEW j \in FoundAt', events'[i].v = events'[j].v
        PROVE  i = j
    <3>1. i + 1 = j + 1
      BY <2>1, <1>0, <1>10 DEF SingleFlight
    <3>2. i \in Int /\ j \in Int
      BY <1>10
    <3>3. QED  BY <3>1, <3>2
  <2>2. \A f \in Finders, i \in FoundAt' : job[f] # events'[i].v
    BY <1>0, <1>10 DEF SingleFlight
  <2>3. \A u \in Versions : u \in beingLoaded' <=> InFlight(u)'
    BY <1>1, <1>2, <1>11 DEF SingleFlight
  <2>4. QED  BY <1>0, <1>7, <2>1, <2>2, <2>3 DEF SingleFlight
<1>13. FindersAnswerOnce'
  <2>1. ASSUME NEW i \in FinderAt', NEW j \in FinderAt', events'[i].f = events'[j].f
        PROVE  i = j
    <3>1. i + 1 = j + 1
      BY <2>1, <1>0, <1>10 DEF FindersAnswerOnce
    <3>2. i \in Int /\ j \in Int
      BY <1>10
    <3>3. QED  BY <3>1, <3>2
  <2>2. QED  BY <1>0, <1>7, <1>10, <2>1 DEF FindersAnswerOnce
<1>14. ReadyAgainIsInvalidated'
  BY <1>1, <1>2, <1>6 DEF ReadyAgainIsInvalidated
<1>15. QED  BY <1>9, <1>12, <1>13, <1>14 DEF FlightInv

\* The other handlers leave the flights alone.
LEMMA HandleRecacheKeepsFlights ==
  ASSUME FlightInv, HandleRecache
  PROVE  FlightInv'
<1> DEFINE S == Head(events).vs
<1>1. /\ TypeOK /\ SingleFlight /\ FindersAnswerOnce /\ ReadyAgainIsInvalidated
      /\ events \in Seq(Event) /\ events # <<>> /\ Head(events).type = "recache"
      /\ events' = Tail(events) /\ Recache(S) /\ StartActivate(requests)
      /\ job' = job /\ jobGen' = jobGen /\ working' = working
      /\ UNCHANGED <<mainVars, hushup, requests>>
  BY DEF HandleRecache, Take, FlightInv, TypeOK, bankVars
<1>2. S \in SUBSET Versions
  <2>1. Head(events) \in Event
    BY <1>1
  <2>2. QED  BY <1>1, <2>1 DEF Event
<1>3. /\ beingLoaded' = beingLoaded
      /\ readyToLoad' = readyToLoad \cup S
      /\ invalidated' = invalidated \cup (S \cap beingLoaded)
      /\ readyToLoad' \subseteq Versions /\ mustCache' \subseteq Versions
      /\ rtlOrder' \in Seq(Versions) /\ loaded' \in Image
      /\ queue' \subseteq Versions /\ outdated' \subseteq Versions
      /\ stored' \in Image /\ asked' \in [Versions -> Gens]
  BY <1>1, <1>2, RecacheType
<1>4. events' \in Seq(Event) /\ SingleFlight' /\ FindersAnswerOnce'
  BY <1>1, <1>3, TakeKeepsFlights
<1>5. pc' = "activate" /\ notyetready' = {} /\ slots' \in Nat
  BY <1>1, StartType DEF TypeOK
<1>6. TypeOK'
  BY <1>1, <1>3, <1>4, <1>5 DEF TypeOK, Image, mainVars
<1>7. ReadyAgainIsInvalidated'
  BY <1>1, <1>3 DEF ReadyAgainIsInvalidated
<1>8. QED  BY <1>4, <1>6, <1>7 DEF FlightInv

LEMMA HandleModifiedKeepsFlights ==
  ASSUME FlightInv, HandleModified
  PROVE  FlightInv'
<1> DEFINE v == Head(events).v
           inv == invalidated \cup OvertakenBy(v)
           ld == [loaded EXCEPT ![v] = holder[v][1]]
<1>1. /\ TypeOK /\ SingleFlight /\ FindersAnswerOnce /\ ReadyAgainIsInvalidated
      /\ events \in Seq(Event) /\ events # <<>> /\ Head(events).type = "modified"
      /\ events' = Tail(events) /\ pc = "idle"
      /\ job' = job /\ jobGen' = jobGen /\ working' = working
      /\ holder' = [holder EXCEPT ![v] = <<>>]
      /\ UNCHANGED <<gen, owed, purging, deleted, waiting>>
  BY DEF HandleModified, Take, FlightInv, TypeOK, bankVars
<1>2. v \in Versions
  <2>1. Head(events) \in Event
    BY <1>1
  <2>2. QED  BY <1>1, <2>1 DEF Event
<1>3. holder' \in [Versions -> (Gens \X BOOLEAN) \cup {<<>>}]
  BY <1>1, <1>2 DEF TypeOK
<1>4. beingLoaded' = beingLoaded
  BY DEF HandleModified, setVars, Recache
<1>5. events' \in Seq(Event) /\ SingleFlight' /\ FindersAnswerOnce'
  BY <1>1, <1>4, TakeKeepsFlights
<1>6. CASE UNCHANGED <<dbVars, pc, loopVars, setVars, outVars>>
  <2>1. TypeOK'
    BY <1>1, <1>3, <1>5, <1>6 DEF TypeOK, dbVars, loopVars, setVars, outVars
  <2>2. ReadyAgainIsInvalidated'
    BY <1>1, <1>6 DEF ReadyAgainIsInvalidated, setVars
  <2>3. QED  BY <1>5, <2>1, <2>2 DEF FlightInv
<1>7. CASE /\ holder[v] # <<>> /\ requests' = requests \ {v}
           /\ ProcessLoaded(beingLoaded, inv, ld)
           /\ StartActivate(requests') /\ UNCHANGED <<beingLoaded, hushup>>
  <2>1. holder[v][1] \in Gens
    BY <1>1, <1>2, <1>7 DEF TypeOK
  <2>2. beingLoaded \in SUBSET Versions /\ inv \in SUBSET Versions /\ ld \in Image
    BY <1>1, <1>2, <2>1 DEF TypeOK, Image, OvertakenBy
  <2>3. /\ invalidated' = inv
        /\ readyToLoad' = readyToLoad \/ beingLoaded = {}
        /\ readyToLoad' \subseteq Versions /\ mustCache' \subseteq Versions
        /\ rtlOrder' \in Seq(Versions) /\ loaded' \in Image
        /\ queue' \subseteq Versions /\ outdated' \subseteq Versions
        /\ stored' \in Image /\ asked' = asked
    BY <1>1, <1>7, <2>2, ProcessType
  <2>4. pc' = "activate" /\ notyetready' = {} /\ slots' \in Nat
    BY <1>1, <1>7, StartType DEF TypeOK
  <2>5. TypeOK'
    BY <1>1, <1>3, <1>5, <1>7, <2>2, <2>3, <2>4 DEF TypeOK, Image
  <2>6. ReadyAgainIsInvalidated'
    BY <1>1, <1>4, <2>3 DEF ReadyAgainIsInvalidated, OvertakenBy
  <2>7. QED  BY <1>5, <2>5, <2>6 DEF FlightInv
<1>8. CASE /\ hushup' = hushup \cup {v} /\ Recache({v})
           /\ StartActivate(requests) /\ UNCHANGED requests
  <2>1. /\ beingLoaded' = beingLoaded
        /\ readyToLoad' = readyToLoad \cup {v}
        /\ invalidated' = invalidated \cup ({v} \cap beingLoaded)
        /\ readyToLoad' \subseteq Versions /\ mustCache' \subseteq Versions
        /\ rtlOrder' \in Seq(Versions) /\ loaded' \in Image
        /\ queue' \subseteq Versions /\ outdated' \subseteq Versions
        /\ stored' \in Image /\ asked' \in [Versions -> Gens]
    BY <1>1, <1>2, <1>8, RecacheType
  <2>2. pc' = "activate" /\ notyetready' = {} /\ slots' \in Nat
    BY <1>1, <1>8, StartType DEF TypeOK
  <2>3. TypeOK'
    BY <1>1, <1>2, <1>3, <1>5, <1>8, <2>1, <2>2 DEF TypeOK, Image
  <2>4. ReadyAgainIsInvalidated'
    BY <1>1, <2>1 DEF ReadyAgainIsInvalidated
  <2>5. QED  BY <1>5, <2>3, <2>4 DEF FlightInv
<1>9. QED  BY <1>6, <1>7, <1>8 DEF HandleModified

\* A requested version that is not in flight is readied; one in flight is not
\* touched.
LEMMA HandleRequestKeepsFlights ==
  ASSUME FlightInv, HandleRequest
  PROVE  FlightInv'
<1> DEFINE v == Head(events).v
<1>1. /\ TypeOK /\ SingleFlight /\ FindersAnswerOnce /\ ReadyAgainIsInvalidated
      /\ events \in Seq(Event) /\ events # <<>> /\ Head(events).type = "request"
      /\ events' = Tail(events)
      /\ job' = job /\ jobGen' = jobGen /\ working' = working
      /\ waiting' \in {waiting, waiting \ {v}}
      /\ UNCHANGED <<gen, owed, holder, purging, deleted, dbVars, loaded, hushup>>
  BY DEF HandleRequest, Take, FlightInv, TypeOK, bankVars
<1>2. v \in Versions
  <2>1. Head(events) \in Event
    BY <1>1
  <2>2. QED  BY <1>1, <2>1 DEF Event
<1>3. beingLoaded' = beingLoaded /\ invalidated' = invalidated
  BY DEF HandleRequest, setVars
<1>4. events' \in Seq(Event) /\ SingleFlight' /\ FindersAnswerOnce'
  BY <1>1, <1>3, TakeKeepsFlights
<1>5. CASE /\ requests' \in {requests, WithRequest(v)}
           /\ UNCHANGED <<pc, loopVars, setVars>>
  <2>1. TypeOK'
    BY <1>1, <1>2, <1>4, <1>5 DEF TypeOK, WithRequest, dbVars, loopVars, setVars
  <2>2. ReadyAgainIsInvalidated'
    BY <1>1, <1>5 DEF ReadyAgainIsInvalidated, setVars
  <2>3. QED  BY <1>4, <2>1, <2>2 DEF FlightInv
<1>6. CASE /\ requests' = WithRequest(v) /\ v \notin beingLoaded
           /\ mustCache' = mustCache \cup {v} /\ readyToLoad' = readyToLoad \cup {v}
           /\ rtlOrder' = ToFront(v) /\ StartActivate(requests')
  <2>1. rtlOrder' \in Seq(Versions)
    <3>1. rtlOrder \in Seq(Versions) /\ <<v>> \in Seq(Versions)
      BY <1>1, <1>2 DEF TypeOK
    <3>2. Without(rtlOrder, v) \in Seq(Versions)
      BY <3>1, WithoutType
    <3>3. QED  BY <1>6, <3>1, <3>2 DEF ToFront
  <2>2. pc' = "activate" /\ notyetready' = {} /\ slots' \in Nat
    BY <1>1, <1>6, StartType DEF TypeOK
  <2>3. TypeOK'
    BY <1>1, <1>2, <1>3, <1>4, <1>6, <2>1, <2>2 DEF TypeOK, WithRequest, dbVars
  <2>4. ReadyAgainIsInvalidated'
    BY <1>1, <1>3, <1>6 DEF ReadyAgainIsInvalidated
  <2>5. QED  BY <1>4, <2>3, <2>4 DEF FlightInv
<1>7. QED  BY <1>5, <1>6 DEF HandleRequest

LEMMA HandleEasyKeepsFlights ==
  ASSUME FlightInv, HandleEasy
  PROVE  FlightInv'
<1>1. /\ TypeOK /\ SingleFlight /\ FindersAnswerOnce /\ ReadyAgainIsInvalidated
      /\ events \in Seq(Event) /\ events # <<>> /\ Head(events).type = "easy"
      /\ events' = Tail(events) /\ UNCHANGED workerVars
      /\ waiting' \in {waiting, waiting \ {Head(events).v}}
      /\ UNCHANGED <<gen, owed, holder, purging, deleted>>
  BY DEF HandleEasy, Take, FlightInv, TypeOK
<1>2. events' \in Seq(Event) /\ SingleFlight' /\ FindersAnswerOnce'
  BY <1>1, TakeKeepsFlights DEF workerVars, setVars, bankVars
<1>3. TypeOK'
  BY <1>1, <1>2 DEF TypeOK, workerVars, dbVars, loopVars, setVars, outVars, bankVars
<1>4. QED
  BY <1>1, <1>2, <1>3 DEF FlightInv, ReadyAgainIsInvalidated, workerVars, setVars

\* Nothing that flights depend on changes.
LEMMA FrameKeepsFlights ==
  ASSUME SingleFlight, FindersAnswerOnce,
         UNCHANGED <<events, job, working, beingLoaded>>
  PROVE  SingleFlight' /\ FindersAnswerOnce'
<1>1. FoundAt' = FoundAt /\ FinderAt' = FinderAt
  BY DEF FoundAt, FinderAt
<1>2. \A i \in FoundAt \cup FinderAt : events'[i] = events[i]
  OBVIOUS
<1>3. QED  BY <1>1, <1>2, SamePlaces

\* The worker starts with a batch from the persistent queue.
LEMMA BootKeepsFlights ==
  ASSUME FlightInv, Boot
  PROVE  FlightInv'
<1>1. /\ TypeOK /\ SingleFlight /\ FindersAnswerOnce /\ ReadyAgainIsInvalidated
      /\ job' = job /\ jobGen' = jobGen /\ working' = working
      /\ StartActivate(requests)
      /\ UNCHANGED <<mainVars, dbVars, events, beingLoaded, hushup, requests>>
  BY DEF Boot, FlightInv, bankVars
<1>2. PICK S \in SomeOf(queue) : MarkReadyToLoad(S, beingLoaded, invalidated, loaded)
  BY DEF Boot
<1>3. S \in SUBSET Versions
  BY <1>1 DEF SomeOf, TypeOK
<1>4. loaded \in Image /\ beingLoaded \in SUBSET Versions /\ invalidated \in SUBSET Versions
  BY <1>1 DEF TypeOK, Image
<1>5. /\ readyToLoad' = readyToLoad \cup S
      /\ invalidated' = invalidated \cup (S \cap beingLoaded)
      /\ readyToLoad' \subseteq Versions /\ invalidated' \subseteq Versions
      /\ mustCache' \subseteq Versions /\ rtlOrder' \in Seq(Versions)
      /\ loaded' \in Image
  BY <1>1, <1>2, <1>3, <1>4, MarkReadyType
<1>6. pc' = "activate" /\ notyetready' = {} /\ slots' \in Nat
  BY <1>1, StartType DEF TypeOK
<1>7. TypeOK'
  BY <1>1, <1>5, <1>6 DEF TypeOK, Image, mainVars, dbVars
<1>8. SingleFlight' /\ FindersAnswerOnce'
  BY <1>1, FrameKeepsFlights
<1>9. ReadyAgainIsInvalidated'
  BY <1>1, <1>5 DEF ReadyAgainIsInvalidated
<1>10. QED  BY <1>7, <1>8, <1>9 DEF FlightInv

\* The steps of activateBank other than sending take nothing off or into the
\* bank and ready nothing.
LEMMA LoopKeepsFlights ==
  ASSUME FlightInv,
         \/ SkipEntry \/ SendDeleted \/ ForgetReady \/ EndActivate \/ FoundDeleted
         \/ \E v \in Versions : PutBack(v)
  PROVE  FlightInv'
<1>1. TypeOK /\ SingleFlight /\ FindersAnswerOnce /\ ReadyAgainIsInvalidated
  BY DEF FlightInv
<1>2. /\ UNCHANGED <<mainVars, dbVars, events, mustCache, beingLoaded, invalidated,
                     outVars, bankVars>>
      /\ readyToLoad' \in {readyToLoad, {}} /\ slots' \in {slots, 0}
      /\ pc' \in {pc, "idle", "down"}
  BY DEF SkipEntry, SendDeleted, ForgetReady, EndActivate, FoundDeleted, PutBack,
         loopVars, setVars
<1>3. notyetready' \subseteq Versions /\ rtlOrder' \in Seq(Versions)
  <2>1. CASE SkipEntry
    BY <2>1, <1>1 DEF SkipEntry, TypeOK
  <2>2. CASE \E v \in Versions : PutBack(v)
    BY <2>2, <1>1 DEF PutBack, TypeOK
  <2>3. CASE SendDeleted \/ ForgetReady \/ EndActivate \/ FoundDeleted
    <3>1. notyetready' = notyetready /\ rtlOrder' = rtlOrder
      BY <2>3 DEF SendDeleted, ForgetReady, EndActivate, FoundDeleted, loopVars, setVars
    <3>2. QED  BY <3>1, <1>1 DEF TypeOK
  <2>4. QED  BY <2>1, <2>2, <2>3
<1>4. TypeOK'
  BY <1>1, <1>2, <1>3 DEF TypeOK, mainVars, dbVars, outVars, bankVars
<1>5. SingleFlight' /\ FindersAnswerOnce'
  BY <1>1, <1>2, FrameKeepsFlights DEF bankVars
<1>6. ReadyAgainIsInvalidated'
  BY <1>1, <1>2 DEF ReadyAgainIsInvalidated
<1>7. QED  BY <1>4, <1>5, <1>6 DEF FlightInv

\* A main-thread step that posts an event.
LEMMA PostStepKeepsFlights ==
  ASSUME FlightInv, NEW e \in Event, e.type \notin {"finder", "found"},
         Post(e), UNCHANGED workerVars,
         gen' \in [Versions -> Gens], owed' \subseteq owed, waiting' \subseteq Versions,
         holder' \in [Versions -> (Gens \X BOOLEAN) \cup {<<>>}],
         UNCHANGED <<purging, deleted>>
  PROVE  FlightInv'
<1>1. events' \in Seq(Event) /\ SingleFlight' /\ FindersAnswerOnce'
  BY PostKeepsFlights DEF Post, FlightInv, TypeOK, workerVars, setVars, bankVars
<1>2. TypeOK'
  BY <1>1 DEF FlightInv, TypeOK, workerVars, dbVars, loopVars, setVars, outVars, bankVars
<1>3. ReadyAgainIsInvalidated'
  BY DEF FlightInv, ReadyAgainIsInvalidated, workerVars, setVars
<1>4. QED  BY <1>1, <1>2, <1>3 DEF FlightInv

LEMMA MainKeepsFlights ==
  ASSUME FlightInv, MainStep
  PROVE  FlightInv'
<1>1. TypeOK /\ SingleFlight /\ FindersAnswerOnce /\ ReadyAgainIsInvalidated
  BY DEF FlightInv
<1>2. ASSUME NEW v \in Versions, Request(v)
      PROVE  FlightInv'
  <2>1. [type |-> "request", v |-> v] \in Event
    BY DEF Event
  <2>2. /\ Post([type |-> "request", v |-> v]) /\ UNCHANGED workerVars
        /\ UNCHANGED <<gen, owed, holder, purging, deleted>>
        /\ waiting' = waiting \cup {v}
    BY <1>2 DEF Request
  <2>3. QED  BY <1>1, <2>1, <2>2, PostStepKeepsFlights DEF TypeOK
<1>3. ASSUME NEW v \in Versions, RequestIfEasy(v)
      PROVE  FlightInv'
  <2>1. [type |-> "easy", v |-> v] \in Event
    BY DEF Event
  <2>2. Post([type |-> "easy", v |-> v]) /\ UNCHANGED <<mainVars, workerVars>>
    BY <1>3 DEF RequestIfEasy
  <2>3. QED  BY <1>1, <2>1, <2>2, PostStepKeepsFlights DEF TypeOK, mainVars
<1>4. ASSUME NEW S \in SUBSET Versions, EditAndRecache(S)
      PROVE  FlightInv'
  <2>1. [type |-> "recache", vs |-> S] \in Event
    BY DEF Event
  <2>2. /\ Post([type |-> "recache", vs |-> S]) /\ UNCHANGED workerVars
        /\ UNCHANGED <<owed, purging, deleted, waiting>>
        /\ gen' = [v \in Versions |-> IF v \in S THEN gen[v] + 1 ELSE gen[v]]
        /\ holder' = [v \in Versions |-> IF v \in S THEN <<>> ELSE holder[v]]
    BY <1>4 DEF EditAndRecache
  <2>3. gen' \in [Versions -> Gens]
        /\ holder' \in [Versions -> (Gens \X BOOLEAN) \cup {<<>>}]
    BY <1>1, <2>2 DEF TypeOK, Gens
  <2>4. QED  BY <1>1, <2>1, <2>2, <2>3, PostStepKeepsFlights DEF TypeOK
<1>5. ASSUME NEW v \in Versions, NEW big \in BOOLEAN, Offer(v, big)
      PROVE  FlightInv'
  <2>1. [type |-> "modified", v |-> v] \in Event
    BY DEF Event
  <2>2. /\ Post([type |-> "modified", v |-> v]) /\ UNCHANGED workerVars
        /\ UNCHANGED <<gen, purging, deleted, waiting>>
        /\ owed' = owed \ {v} /\ holder' = [holder EXCEPT ![v] = <<gen[v], big>>]
    BY <1>5 DEF Offer
  <2>3. holder' \in [Versions -> (Gens \X BOOLEAN) \cup {<<>>}]
    BY <1>1, <2>2 DEF TypeOK
  <2>4. QED  BY <1>1, <2>1, <2>2, <2>3, PostStepKeepsFlights DEF TypeOK
<1>6. ASSUME NEW v \in Versions, EditLive(v) \/ PurgeFromCache(v)
      PROVE  FlightInv'
  <2>1. UNCHANGED <<events, pc, loopVars, setVars, outVars, bankVars>>
    BY <1>6 DEF EditLive, PurgeFromCache, workerVars
  <2>2. TypeOK'
    <3>1. CASE EditLive(v)
      BY <1>1, <2>1, <3>1
      DEF TypeOK, EditLive, workerVars, dbVars, loopVars, setVars, outVars, bankVars, Gens
    <3>2. CASE PurgeFromCache(v)
      BY <1>1, <2>1, <3>2
      DEF TypeOK, PurgeFromCache, loopVars, setVars, outVars, bankVars
    <3>3. QED  BY <1>6, <3>1, <3>2
  <2>3. SingleFlight' /\ FindersAnswerOnce'
    BY <1>1, <2>1, FrameKeepsFlights DEF setVars, bankVars
  <2>4. QED  BY <1>1, <2>1, <2>2, <2>3 DEF FlightInv, ReadyAgainIsInvalidated, setVars
<1>7. CASE DeleteVersion
  <2>1. TypeOK'
    BY <1>1, <1>7
    DEF TypeOK, DeleteVersion, workerVars, dbVars, loopVars, setVars, outVars, bankVars
  <2>2. SingleFlight' /\ FindersAnswerOnce'
    BY <1>1, <1>7, FrameKeepsFlights DEF DeleteVersion, workerVars, setVars, bankVars
  <2>3. QED
    BY <1>1, <1>7, <2>1, <2>2
    DEF FlightInv, ReadyAgainIsInvalidated, DeleteVersion, workerVars, setVars
<1>8. CASE Quit \/ Kill
  <2>1. /\ Restarted /\ gen' = gen /\ deleted' = deleted /\ queue' = queue
        /\ asked' = asked /\ outdated' \subseteq outdated
        /\ stored' = stored
           \/ stored' = [v \in Versions |-> IF v \in deleted THEN None ELSE stored[v]]
    BY <1>8 DEF Quit, Kill, dbVars
  <2>2. TypeOK'
    BY <1>1, <2>1 DEF TypeOK, Restarted, Nothing, Gens
  <2>3. events' = <<>> /\ job' = [f \in Finders |-> None] /\ working' = {}
        /\ beingLoaded' = {} /\ invalidated' = {} /\ readyToLoad' = {}
    BY <2>1 DEF Restarted
  <2>4. FoundAt' = {} /\ FinderAt' = {}
    BY <2>3 DEF FoundAt, FinderAt
  <2>5. SingleFlight'
    BY <2>3, <2>4, ConstantsAssumption DEF SingleFlight, InFlight
  <2>6. FindersAnswerOnce'
    BY <2>3, <2>4 DEF FindersAnswerOnce
  <2>7. QED  BY <2>2, <2>3, <2>5, <2>6 DEF FlightInv, ReadyAgainIsInvalidated
<1>9. QED
  BY <1>2, <1>3, <1>4, <1>5, <1>6, <1>7, <1>8 DEF MainStep

LEMMA WorkerKeepsFlights ==
  ASSUME FlightInv, WorkerStep
  PROVE  FlightInv'
BY BootKeepsFlights, LoopKeepsFlights, SendKeepsFlights, HandleRecacheKeepsFlights,
   HandleModifiedKeepsFlights, HandleRequestKeepsFlights, HandleEasyKeepsFlights,
   HandleFinderKeepsFlights, HandleFoundKeepsFlights
DEF WorkerStep, HandlerStep

LEMMA InitFlight == Init => FlightInv
<1>1. Init => TypeOK
  BY ConstantsAssumption DEF Init, FreshProcess, TypeOK, Nothing, Gens
<1>2. Init => SingleFlight /\ FindersAnswerOnce /\ ReadyAgainIsInvalidated
  BY ConstantsAssumption
  DEF Init, FreshProcess, SingleFlight, FindersAnswerOnce, ReadyAgainIsInvalidated,
      FoundAt, FinderAt, InFlight
<1>3. QED  BY <1>1, <1>2 DEF FlightInv

LEMMA FlightsInvariant == Spec => []FlightInv
<1>1. ASSUME FlightInv, UNCHANGED vars
      PROVE  FlightInv'
  <2>1. UNCHANGED <<mainVars, dbVars, events, pc, loopVars, setVars, outVars, bankVars>>
    BY <1>1 DEF vars
  <2>2. SingleFlight' /\ FindersAnswerOnce'
    BY <1>1, <2>1, FrameKeepsFlights DEF FlightInv, setVars, bankVars
  <2>3. TypeOK'
    BY <1>1, <2>1
    DEF FlightInv, TypeOK, mainVars, dbVars, loopVars, setVars, outVars, bankVars
  <2>4. QED
    BY <1>1, <2>1, <2>2, <2>3 DEF FlightInv, ReadyAgainIsInvalidated, setVars
<1>2. FlightInv /\ [Next]_vars => FlightInv'
  BY <1>1, MainKeepsFlights, WorkerKeepsFlights, FindImageKeepsFlights DEF Next
<1>3. QED  BY InitFlight, <1>2, PTL DEF Spec

(* Every variable keeps its type. *)
THEOREM TypeCorrect == Spec => []TypeOK
<1>1. FlightInv => TypeOK
  BY DEF FlightInv
<1>2. QED  BY <1>1, FlightsInvariant, PTL

(* The bank works on one copy of a version at most, and the worker knows which
   versions are under way, whatever the main thread, the finder threads, a quit
   or a crash do in between. *)
THEOREM OneFlight == Spec => []SingleFlight
<1>1. FlightInv => SingleFlight
  BY DEF FlightInv
<1>2. QED  BY <1>1, FlightsInvariant, PTL

-----------------------------------------------------------------------------
(***************************************************************************)
(* AutoCache implements CacheLedger, for any versions, finders and bounds, *)
(* as long as no image on offer is kept in memory and no image is smaller  *)
(* than what is asked for: what is in memory of a version is discarded by a *)
(* recache only if the version is not in flight, and with either of these  *)
(* a version may be both.                                                  *)
(***************************************************************************)

\* An image g of v is worth storing: it is no older than the last recache and
\* than the image that is stored.
Sound(v, g) == g \in asked[v]..gen[v] /\ (stored[v] # None => stored[v] <= g)

StoredSound ==
  \A v \in Versions : asked[v] <= gen[v] /\ (stored[v] # None => stored[v] <= gen[v])

\* What is in memory is worth storing, and is not about to be replaced.
LoadedSound ==
  \A v \in Versions : loaded[v] # None =>
    Sound(v, loaded[v]) /\ v \notin beingLoaded /\ v \notin readyToLoad

\* The image with a finder, or in the answer of one.
OfFlight(v, g) ==
  \/ \E f \in Finders : job[f] = v /\ jobGen[f] = g
  \/ \E i \in FoundAt : events[i].v = v /\ events[i].img = g

\* What is in flight is worth storing unless it is known to be invalidated.
FlightSound ==
  \A v \in Versions, g \in Gens : OfFlight(v, g) /\ v \notin invalidated => Sound(v, g)

OffersAreSmall == \A v \in Versions : holder[v] # <<>> => holder[v][2] = FALSE

LedgerInv == StoredSound /\ LoadedSound /\ FlightSound /\ OffersAreSmall

Restricted == "offerBig" \notin Ops /\ Poor = {}

-----------------------------------------------------------------------------
(* Flights *)

(* Posting or taking another event starts no flight. *)
LEMMA PostStartsNone ==
  ASSUME events \in Seq(Event), NEW e, e.type # "found",
         events' = Append(events, e), UNCHANGED <<job, jobGen>>
  PROVE  \A v \in Versions, g \in Gens : OfFlight(v, g)' => OfFlight(v, g)
<1>1. /\ DOMAIN events' = 1..(Len(events) + 1) /\ DOMAIN events = 1..Len(events)
      /\ \A i \in DOMAIN events : events'[i] = events[i]
      /\ events'[Len(events) + 1] = e /\ Len(events) \in Nat
  OBVIOUS
<1>2. \A i \in FoundAt' : i \in FoundAt /\ events'[i] = events[i]
  BY <1>1 DEF FoundAt
<1> QED BY <1>2 DEF OfFlight

LEMMA TakeStartsNone ==
  ASSUME events \in Seq(Event), events # <<>>,
         events' = Tail(events), UNCHANGED <<job, jobGen>>
  PROVE  \A v \in Versions, g \in Gens : OfFlight(v, g)' => OfFlight(v, g)
<1>1. /\ Len(events) \in Nat \ {0}
      /\ DOMAIN events' = 1..(Len(events) - 1) /\ DOMAIN events = 1..Len(events)
      /\ \A i \in DOMAIN events' : events'[i] = events[i + 1]
  OBVIOUS
<1>2. \A i \in FoundAt' : i + 1 \in FoundAt /\ events'[i] = events[i + 1]
  BY <1>1 DEF FoundAt
<1> QED BY <1>2 DEF OfFlight

LEMMA FrameStartsNone ==
  ASSUME UNCHANGED <<events, job, jobGen>>
  PROVE  \A v \in Versions, g \in Gens : OfFlight(v, g)' => OfFlight(v, g)
BY DEF OfFlight, FoundAt

(* A finder's answer continues its flight. *)
LEMMA FinderStartsNone ==
  ASSUME FlightInv, HandleFinder
  PROVE  \A v \in Versions, g \in Gens : OfFlight(v, g)' => OfFlight(v, g)
<1>1. PICK f : f = Head(events).f OBVIOUS
<1>2. PICK e : e = [type |-> "found", v |-> job[f], img |-> jobGen[f]] OBVIOUS
<1>3. /\ events \in Seq(Event) /\ events # <<>> /\ Head(events).type = "finder"
      /\ events' = Append(Tail(events), e)
      /\ job' = [job EXCEPT ![f] = None]
      /\ jobGen' = [jobGen EXCEPT ![f] = 0]
      /\ job \in [Finders -> Versions \cup {None}] /\ jobGen \in [Finders -> Gens]
  BY <1>1, <1>2 DEF HandleFinder, FlightInv, TypeOK
<1>4. Head(events) \in Event BY <1>3
<1>5. f \in Finders BY <1>1, <1>3, <1>4 DEF Event
<1>6. PICK n \in Nat \ {0} : n = Len(events) BY <1>3
<1>7. Tail(events) \in Seq(Event) /\ Len(Tail(events)) = n - 1
      /\ \A i \in 1..(n - 1) : Tail(events)[i] = events[i + 1]
  BY <1>3, <1>6
<1>8. DOMAIN events' = 1..n /\ events'[n] = e
      /\ \A i \in 1..(n - 1) : events'[i] = events[i + 1]
  BY <1>3, <1>6, <1>7
<1>9. \A i \in FoundAt' : i = n \/ (i + 1 \in FoundAt /\ events'[i] = events[i + 1])
  BY <1>3, <1>6, <1>8 DEF FoundAt
<1>10. \A g \in Finders : job'[g] = (IF g = f THEN None ELSE job[g])
                          /\ jobGen'[g] = (IF g = f THEN 0 ELSE jobGen[g])
  BY <1>3
<1> SUFFICES ASSUME NEW v \in Versions, NEW g \in Gens, OfFlight(v, g)'
             PROVE  OfFlight(v, g)
  OBVIOUS
<1>11. CASE \E h \in Finders : job'[h] = v /\ jobGen'[h] = g
  BY <1>10, <1>11, ConstantsAssumption DEF OfFlight
<1>12. CASE \E i \in FoundAt' : events'[i].v = v /\ events'[i].img = g
  <2>1. PICK i \in FoundAt' : events'[i].v = v /\ events'[i].img = g BY <1>12
  <2>2. CASE i = n
    <3>1. job[f] = v /\ jobGen[f] = g BY <1>2, <1>8, <2>1, <2>2
    <3> QED BY <1>5, <3>1 DEF OfFlight
  <2>3. CASE i # n BY <1>9, <2>1, <2>3 DEF OfFlight
  <2> QED BY <2>2, <2>3
<1> QED BY <1>11, <1>12 DEF OfFlight

-----------------------------------------------------------------------------
(* Steps that store nothing *)

(* Newer settings, images thrown away, versions readied that have no image in
   memory, and flights invalidated or ended leave everything worth storing. *)
LEMMA WeakerIsSound ==
  ASSUME TypeOK, TypeOK', LedgerInv,
         \A v \in Versions : gen[v] <= gen'[v], asked' = asked,
         \A v \in Versions : stored'[v] \in {stored[v], None},
         \A v \in Versions : loaded'[v] \in {loaded[v], None},
         beingLoaded' = beingLoaded, invalidated \subseteq invalidated',
         \A v \in Versions : v \in readyToLoad' => v \in readyToLoad \/ loaded'[v] = None,
         \A v \in Versions, g \in Gens : OfFlight(v, g)' => OfFlight(v, g),
         OffersAreSmall'
  PROVE  LedgerInv'
<1>1. ASSUME NEW v \in Versions, NEW g \in Gens, Sound(v, g)
      PROVE  Sound(v, g)'
  <2>1. g \in Nat /\ gen[v] \in Nat /\ gen'[v] \in Nat /\ asked[v] \in Nat
    BY DEF TypeOK, Gens
  <2>2. g \in asked[v]..gen'[v] BY <1>1, <2>1 DEF Sound
  <2>3. stored'[v] # None => stored'[v] <= g BY <1>1 DEF Sound
  <2> QED BY <2>2, <2>3 DEF Sound
<1>2. StoredSound'
  <2> SUFFICES ASSUME NEW v \in Versions
               PROVE  asked'[v] <= gen'[v] /\ (stored'[v] # None => stored'[v] <= gen'[v])
    BY DEF StoredSound
  <2>1. gen[v] \in Nat /\ gen'[v] \in Nat /\ asked[v] \in Nat /\ (stored[v] # None => stored[v] \in Nat)
    BY DEF TypeOK, Gens
  <2>2. asked[v] <= gen[v] /\ (stored[v] # None => stored[v] <= gen[v])
    BY DEF LedgerInv, StoredSound
  <2> QED BY <2>1, <2>2
<1>3. LoadedSound'
  <2> SUFFICES ASSUME NEW v \in Versions, loaded'[v] # None
               PROVE  Sound(v, loaded[v])' /\ v \notin beingLoaded' /\ v \notin readyToLoad'
    BY DEF LoadedSound
  <2>1. loaded'[v] = loaded[v] /\ loaded[v] # None /\ loaded[v] \in Gens
    BY DEF TypeOK
  <2>2. Sound(v, loaded[v]) /\ v \notin beingLoaded /\ v \notin readyToLoad
    BY <2>1 DEF LedgerInv, LoadedSound
  <2>3. PICK g \in Gens : g = loaded[v] BY <2>1
  <2>4. Sound(v, g)' BY <1>1, <2>2, <2>3
  <2> QED BY <2>1, <2>2, <2>3, <2>4 DEF Sound
<1>4. FlightSound'
  <2> SUFFICES ASSUME NEW v \in Versions, NEW g \in Gens, OfFlight(v, g)', v \notin invalidated'
               PROVE  Sound(v, g)'
    BY DEF FlightSound
  <2>1. Sound(v, g) BY DEF LedgerInv, FlightSound
  <2> QED BY <1>1, <2>1
<1> QED BY <1>2, <1>3, <1>4 DEF LedgerInv

\* What a step does to the ledger.
Entered == [Ledger!Next]_(Ledger!ledger)

(* The main thread edits, offers, purges, quits, or is killed. *)
LEMMA MainIsEntered ==
  ASSUME Restricted, FlightInv, FlightInv', LedgerInv, MainStep
  PROVE  LedgerInv' /\ Entered
<1> USE DEF Entered
<1>1. TypeOK /\ TypeOK' /\ events \in Seq(Event) BY DEF FlightInv, TypeOK
<1>2. \A v \in Versions : gen[v] <= gen[v] BY <1>1 DEF TypeOK, Gens
<1>3. OffersAreSmall BY DEF LedgerInv
<1>4. ASSUME NEW v \in Versions, Request(v) \/ RequestIfEasy(v)
      PROVE  LedgerInv' /\ Entered
  <2>1. PICK e : e.type # "found" /\ events' = Append(events, e) BY <1>4 DEF Request, RequestIfEasy, Post
  <2>2. UNCHANGED <<gen, holder, dbVars, loaded, beingLoaded, invalidated, readyToLoad, job, jobGen>>
    BY <1>4 DEF Request, RequestIfEasy, mainVars, workerVars, dbVars, setVars, outVars, bankVars
  <2>3. \A u \in Versions, g \in Gens : OfFlight(u, g)' => OfFlight(u, g)
    BY <1>1, <2>1, <2>2, PostStartsNone
  <2>4. OffersAreSmall' BY <1>3, <2>2 DEF OffersAreSmall
  <2>5. LedgerInv' BY <1>1, <1>2, <2>2, <2>3, <2>4, WeakerIsSound DEF dbVars
  <2>6. UNCHANGED Ledger!ledger BY <2>2 DEF dbVars, Ledger!ledger
  <2> QED BY <2>5, <2>6
<1>5. ASSUME NEW v \in Versions, EditLive(v)
      PROVE  LedgerInv' /\ Entered
  <2>1. /\ gen' = [gen EXCEPT ![v] = gen[v] + 1]
        /\ UNCHANGED <<events, holder, dbVars, loaded, beingLoaded, invalidated, readyToLoad, job, jobGen>>
    BY <1>5 DEF EditLive, workerVars, dbVars, setVars, outVars, bankVars
  <2>2. \A u \in Versions : gen'[u] = (IF u \in {v} THEN gen[u] + 1 ELSE gen[u]) /\ gen[u] <= gen'[u]
    BY <1>1, <2>1 DEF TypeOK, Gens
  <2>3. \A u \in Versions, g \in Gens : OfFlight(u, g)' => OfFlight(u, g) BY <2>1, FrameStartsNone
  <2>4. OffersAreSmall' BY <1>3, <2>1 DEF OffersAreSmall
  <2>5. LedgerInv' BY <1>1, <2>1, <2>2, <2>3, <2>4, WeakerIsSound DEF dbVars
  <2>6. gen' = [u \in Versions |-> IF u \in {v} THEN gen[u] + 1 ELSE gen[u]]
    BY <1>1, <2>1, <2>2 DEF TypeOK
  <2>7. Ledger!Edit({v}) BY <2>1, <2>6 DEF Ledger!Edit, dbVars
  <2> QED BY <2>5, <2>7 DEF Ledger!Next
<1>6. ASSUME NEW S \in SUBSET Versions, EditAndRecache(S)
      PROVE  LedgerInv' /\ Entered
  <2>1. PICK e : e.type # "found" /\ events' = Append(events, e) BY <1>6 DEF EditAndRecache, Post
  <2>2. /\ gen' = [v \in Versions |-> IF v \in S THEN gen[v] + 1 ELSE gen[v]]
        /\ holder' = [v \in Versions |-> IF v \in S THEN <<>> ELSE holder[v]]
        /\ UNCHANGED <<dbVars, loaded, beingLoaded, invalidated, readyToLoad, job, jobGen>>
    BY <1>6 DEF EditAndRecache, workerVars, dbVars, setVars, outVars, bankVars
  <2>3. \A u \in Versions, g \in Gens : OfFlight(u, g)' => OfFlight(u, g)
    BY <1>1, <2>1, <2>2, PostStartsNone
  <2>4. OffersAreSmall' BY <1>3, <2>2 DEF OffersAreSmall
  <2>5. \A u \in Versions : gen[u] <= gen'[u] BY <1>1, <2>2 DEF TypeOK, Gens
  <2>6. LedgerInv' BY <1>1, <2>2, <2>3, <2>4, <2>5, WeakerIsSound DEF dbVars
  <2>7. Ledger!Edit(S) BY <2>2 DEF Ledger!Edit, dbVars
  <2> QED BY <2>6, <2>7 DEF Ledger!Next
<1>7. ASSUME NEW v \in Versions, NEW big \in BOOLEAN, Offer(v, big)
      PROVE  LedgerInv' /\ Entered
  <2>1. PICK e : e.type # "found" /\ events' = Append(events, e) BY <1>7 DEF Offer, Post
  <2>2. big = FALSE BY <1>7 DEF Offer, May, Restricted
  <2>3. /\ holder' = [holder EXCEPT ![v] = <<gen[v], big>>]
        /\ UNCHANGED <<gen, dbVars, loaded, beingLoaded, invalidated, readyToLoad, job, jobGen>>
    BY <1>7 DEF Offer, workerVars, dbVars, setVars, outVars, bankVars
  <2>4. \A u \in Versions, g \in Gens : OfFlight(u, g)' => OfFlight(u, g)
    BY <1>1, <2>1, <2>3, PostStartsNone
  <2>5. OffersAreSmall' BY <1>1, <1>3, <2>2, <2>3 DEF OffersAreSmall, TypeOK
  <2>6. LedgerInv' BY <1>1, <1>2, <2>3, <2>4, <2>5, WeakerIsSound DEF dbVars
  <2>7. UNCHANGED Ledger!ledger BY <2>3 DEF dbVars, Ledger!ledger
  <2> QED BY <2>6, <2>7
<1>8. ASSUME NEW v \in Versions, PurgeFromCache(v)
      PROVE  LedgerInv' /\ Entered
  <2>1. /\ stored' = [u \in Versions |-> IF u \in {v} THEN None ELSE stored[u]]
        /\ outdated' = outdated \ {v}
        /\ UNCHANGED <<gen, queue, asked, events, holder, loaded, beingLoaded, invalidated,
                       readyToLoad, job, jobGen>>
    BY <1>8 DEF PurgeFromCache, setVars, outVars, bankVars
  <2>2. \A u \in Versions, g \in Gens : OfFlight(u, g)' => OfFlight(u, g) BY <2>1, FrameStartsNone
  <2>3. OffersAreSmall' BY <1>3, <2>1 DEF OffersAreSmall
  <2>4. \A u \in Versions : stored'[u] \in {stored[u], None} BY <2>1
  <2>5. LedgerInv' BY <1>1, <1>2, <2>1, <2>2, <2>3, <2>4, WeakerIsSound
  <2>6. Ledger!Remove({v}) BY <2>1 DEF Ledger!Remove
  <2> QED BY <2>5, <2>6 DEF Ledger!Next
<1>9. CASE DeleteVersion
  <2>1. UNCHANGED <<gen, events, holder, dbVars, loaded, beingLoaded, invalidated, readyToLoad, job, jobGen>>
    BY <1>9 DEF DeleteVersion, workerVars, dbVars, setVars, outVars, bankVars
  <2>2. \A u \in Versions, g \in Gens : OfFlight(u, g)' => OfFlight(u, g) BY <2>1, FrameStartsNone
  <2>3. OffersAreSmall' BY <1>3, <2>1 DEF OffersAreSmall
  <2>4. LedgerInv' BY <1>1, <1>2, <2>1, <2>2, <2>3, WeakerIsSound DEF dbVars
  <2>5. UNCHANGED Ledger!ledger BY <2>1 DEF dbVars, Ledger!ledger
  <2> QED BY <2>4, <2>5
<1>10. CASE Quit \/ Kill
  <2>1. /\ Restarted /\ gen' = gen /\ queue' = queue /\ asked' = asked
        /\ \/ stored' = stored /\ outdated' = outdated
           \/ /\ stored' = [v \in Versions |-> IF v \in deleted THEN None ELSE stored[v]]
              /\ outdated' = outdated \ deleted
    BY <1>10 DEF Quit, Kill, dbVars
  <2>2. Entered
    <3>1. CASE stored' = stored /\ outdated' = outdated BY <2>1, <3>1 DEF Ledger!ledger
    <3>2. CASE /\ stored' = [v \in Versions |-> IF v \in deleted THEN None ELSE stored[v]]
               /\ outdated' = outdated \ deleted
      <4>1. Ledger!Remove(deleted) BY <2>1, <3>2 DEF Ledger!Remove
      <4>2. deleted \in SUBSET Versions BY <1>1 DEF TypeOK
      <4> QED BY <4>1, <4>2 DEF Ledger!Next
    <3> QED BY <2>1, <3>1, <3>2
  <2>3. /\ holder' = [v \in Versions |-> <<>>] /\ loaded' = [v \in Versions |-> None]
        /\ events' = <<>> /\ job' = [f \in Finders |-> None]
    BY <2>1 DEF Restarted, Nothing
  <2>4. LoadedSound' /\ OffersAreSmall' BY <2>3 DEF LoadedSound, OffersAreSmall
  <2>5. FlightSound' BY <2>3, ConstantsAssumption DEF FlightSound, OfFlight, FoundAt
  <2>6. \A v \in Versions : stored'[v] \in {stored[v], None} BY <2>1
  <2>7. StoredSound' BY <2>1, <2>6 DEF LedgerInv, StoredSound
  <2> QED BY <2>2, <2>4, <2>5, <2>7 DEF LedgerInv
<1> QED BY <1>4, <1>5, <1>6, <1>7, <1>8, <1>9, <1>10 DEF MainStep

(* The steps of the worker and of the finder threads that store and queue
   nothing. *)
LEMMA QuietIsEntered ==
  ASSUME FlightInv, FlightInv', LedgerInv,
         \/ Boot \/ HandleFinder \/ HandleEasy \/ FoundDeleted \/ SkipEntry \/ SendDeleted
         \/ ForgetReady \/ EndActivate \/ (\E v \in Versions : PutBack(v))
         \/ (\E f \in Finders : FindImage(f)) \/ UNCHANGED vars
  PROVE  LedgerInv' /\ Entered
<1>1. TypeOK /\ TypeOK' /\ events \in Seq(Event) BY DEF FlightInv, TypeOK
<1>2. \A v \in Versions : gen[v] <= gen[v] BY <1>1 DEF TypeOK, Gens
<1>3. UNCHANGED <<gen, holder, dbVars, beingLoaded>>
  BY DEF Boot, HandleFinder, HandleEasy, FoundDeleted, SkipEntry, SendDeleted, ForgetReady,
     EndActivate, PutBack, FindImage, vars, mainVars, workerVars, setVars
<1>4. Entered BY <1>3 DEF Entered, dbVars, Ledger!ledger
<1>5. OffersAreSmall' BY <1>3 DEF LedgerInv, OffersAreSmall
<1>6. CASE Boot
  <2>1. PICK S : MarkReadyToLoad(S, beingLoaded, invalidated, loaded) BY <1>6 DEF Boot
  <2>2. /\ invalidated \subseteq invalidated' /\ readyToLoad' = readyToLoad \cup S
        /\ \A v \in Versions : loaded'[v] = IF v \in S \ beingLoaded THEN None ELSE loaded[v]
    BY <2>1 DEF MarkReadyToLoad
  <2>3. \A v \in Versions : v \in readyToLoad' => v \in readyToLoad \/ loaded'[v] = None
    BY <2>2 DEF LedgerInv, LoadedSound
  <2>4. \A v \in Versions, g \in Gens : OfFlight(v, g)' => OfFlight(v, g)
    BY <1>6, FrameStartsNone DEF Boot, bankVars
  <2>5. LedgerInv' BY <1>1, <1>2, <1>3, <1>5, <2>2, <2>3, <2>4, WeakerIsSound DEF dbVars
  <2> QED BY <1>4, <2>5
<1>7. CASE ~Boot
  <2>1. loaded' = loaded /\ invalidated' = invalidated /\ readyToLoad' \subseteq readyToLoad
    BY <1>7 DEF HandleFinder, HandleEasy, FoundDeleted, SkipEntry, SendDeleted, ForgetReady,
     EndActivate, PutBack, FindImage, vars, workerVars, setVars, outVars
  <2>2. \A v \in Versions, g \in Gens : OfFlight(v, g)' => OfFlight(v, g)
    <3>1. CASE HandleFinder BY <3>1, FinderStartsNone
    <3>2. CASE HandleEasy
      BY <1>1, <3>2, TakeStartsNone DEF HandleEasy, Take, workerVars, bankVars
    <3>3. ASSUME NEW f \in Finders, FindImage(f)
          PROVE  \A v \in Versions, g \in Gens : OfFlight(v, g)' => OfFlight(v, g)
      <4>1. PICK e : e.type # "found" /\ events' = Append(events, e) BY <3>3 DEF FindImage
      <4>2. UNCHANGED <<job, jobGen>> BY <3>3 DEF FindImage
      <4> QED BY <1>1, <4>1, <4>2, PostStartsNone
    <3>4. CASE UNCHANGED <<events, job, jobGen>> BY <3>4, FrameStartsNone
    <3> QED BY <1>7, <3>1, <3>2, <3>3, <3>4
        DEF FoundDeleted, SkipEntry, SendDeleted, ForgetReady, EndActivate, PutBack, vars, bankVars
  <2>3. LedgerInv' BY <1>1, <1>2, <1>3, <1>5, <2>1, <2>2, WeakerIsSound DEF dbVars
  <2> QED BY <1>4, <2>3
<1> QED BY <1>6, <1>7

(* A version is readied for a request only if no image of it is in memory. *)
LEMMA RequestIsEntered ==
  ASSUME Restricted, FlightInv, FlightInv', LedgerInv, HandleRequest
  PROVE  LedgerInv' /\ Entered
<1>1. TypeOK /\ TypeOK' /\ events \in Seq(Event) BY DEF FlightInv, TypeOK
<1>2. \A u \in Versions : gen[u] <= gen[u] BY <1>1 DEF TypeOK, Gens
<1>3. PICK v : v = Head(events).v OBVIOUS
<1>4. /\ UNCHANGED <<gen, holder, dbVars, beingLoaded, invalidated, loaded, job, jobGen>>
      /\ events # <<>> /\ events' = Tail(events)
  BY DEF HandleRequest, Take, setVars, bankVars
<1>5. readyToLoad' = readyToLoad \/ (loaded[v] = None /\ readyToLoad' = readyToLoad \cup {v})
  BY <1>3 DEF HandleRequest, Restricted, setVars
<1>6. \A u \in Versions : u \in readyToLoad' => u \in readyToLoad \/ loaded'[u] = None
  BY <1>4, <1>5
<1>7. \A u \in Versions, g \in Gens : OfFlight(u, g)' => OfFlight(u, g)
  BY <1>1, <1>4, TakeStartsNone
<1>8. OffersAreSmall' BY <1>4 DEF LedgerInv, OffersAreSmall
<1>9. LedgerInv' BY <1>1, <1>2, <1>4, <1>6, <1>7, <1>8, WeakerIsSound DEF dbVars
<1>10. Entered BY <1>4 DEF Entered, Ledger!ledger, dbVars
<1> QED BY <1>9, <1>10

-----------------------------------------------------------------------------
(* Steps that start a flight, end one, or call for images *)

(* What is sent has the settings of the moment, and was not in memory. *)
LEMMA SendIsEntered ==
  ASSUME FlightInv, FlightInv', LedgerInv, NEW f \in Finders, SendToBank(f)
  PROVE  LedgerInv' /\ Entered
<1>1. TypeOK /\ TypeOK' BY DEF FlightInv
<1>2. PICK v : v = Head(rtlOrder) OBVIOUS
<1>3. /\ v \in readyToLoad /\ v \in Versions
      /\ readyToLoad' = readyToLoad \ {v} /\ beingLoaded' = beingLoaded \cup {v}
      /\ job' = [job EXCEPT ![f] = v] /\ jobGen' = [jobGen EXCEPT ![f] = gen[v]]
      /\ UNCHANGED <<gen, holder, dbVars, loaded, events, invalidated>>
  BY <1>1, <1>2 DEF SendToBank, Sendable, TypeOK, mainVars, outVars
<1>4. Entered BY <1>3 DEF Entered, dbVars, Ledger!ledger
<1>5. StoredSound' /\ OffersAreSmall'
  BY <1>3 DEF LedgerInv, StoredSound, OffersAreSmall, dbVars
<1>6. \A u, g : Sound(u, g)' <=> Sound(u, g) BY <1>3 DEF Sound, dbVars
<1>7. LoadedSound'
  <2> SUFFICES ASSUME NEW u \in Versions, loaded[u] # None
               PROVE  Sound(u, loaded[u]) /\ u \notin beingLoaded' /\ u \notin readyToLoad'
    BY <1>3 DEF LoadedSound, Sound, dbVars
  <2>1. Sound(u, loaded[u]) /\ u \notin beingLoaded /\ u \notin readyToLoad
    BY DEF LedgerInv, LoadedSound
  <2> QED BY <1>3, <2>1
<1>8. FlightSound'
  <2> SUFFICES ASSUME NEW u \in Versions, NEW g \in Gens, OfFlight(u, g)', u \notin invalidated'
               PROVE  Sound(u, g)'
    BY DEF FlightSound
  <2>1. \A h \in Finders : job'[h] = (IF h = f THEN v ELSE job[h])
                           /\ jobGen'[h] = (IF h = f THEN gen[v] ELSE jobGen[h])
    BY <1>1, <1>3 DEF TypeOK
  <2>2. OfFlight(u, g) \/ (u = v /\ g = gen[v]) BY <1>3, <2>1 DEF OfFlight, FoundAt
  <2>3. CASE OfFlight(u, g) BY <1>3, <1>6, <2>3 DEF LedgerInv, FlightSound
  <2>4. CASE u = v /\ g = gen[v]
    <3>1. gen[v] \in Nat /\ asked[v] \in Nat BY <1>1, <1>3 DEF TypeOK, Gens
    <3>2. asked[v] <= gen[v] /\ (stored[v] # None => stored[v] <= gen[v])
      BY <1>3 DEF LedgerInv, StoredSound
    <3>3. Sound(u, g) BY <2>4, <3>1, <3>2 DEF Sound
    <3> QED BY <1>6, <3>3
  <2> QED BY <2>2, <2>3, <2>4
<1> QED BY <1>4, <1>5, <1>7, <1>8 DEF LedgerInv

(* A recache: what it calls for is not in memory afterwards, and what is in
   flight of it is invalidated. *)
LEMMA RecacheIsEntered ==
  ASSUME FlightInv, FlightInv', LedgerInv, NEW S \in SUBSET Versions, Recache(S),
         events # <<>>, events' = Tail(events), UNCHANGED <<gen, job, jobGen>>,
         \A v \in Versions : holder'[v] \in {holder[v], <<>>}
  PROVE  LedgerInv' /\ Entered
<1>1. TypeOK /\ TypeOK' /\ events \in Seq(Event) BY DEF FlightInv, TypeOK
<1>2. /\ queue' = queue \cup S
      /\ outdated' = outdated \cup {v \in S : stored[v] # None}
      /\ asked' = [v \in Versions |-> IF v \in S THEN gen[v] ELSE asked[v]]
      /\ UNCHANGED <<gen, stored, beingLoaded>>
      /\ invalidated' = invalidated \cup (S \cap beingLoaded)
      /\ loaded' = [v \in Versions |-> IF v \in S \ beingLoaded THEN None ELSE loaded[v]]
      /\ readyToLoad' = readyToLoad \cup S
  BY DEF Recache, MarkReadyToLoad
<1>3. Ledger!Ask(S) BY <1>2 DEF Ledger!Ask
<1>4. Entered BY <1>3 DEF Entered, Ledger!Next
<1>5. OffersAreSmall' BY DEF LedgerInv, OffersAreSmall
<1>6. ASSUME NEW v \in Versions, NEW g \in Gens, Sound(v, g), v \notin S
      PROVE  Sound(v, g)'
  BY <1>2, <1>6 DEF Sound
<1>7. StoredSound'
  <2> SUFFICES ASSUME NEW v \in Versions
               PROVE  asked'[v] <= gen[v] /\ (stored[v] # None => stored[v] <= gen[v])
    BY <1>2 DEF StoredSound
  <2>1. gen[v] \in Nat BY <1>1 DEF TypeOK, Gens
  <2>2. asked[v] <= gen[v] /\ (stored[v] # None => stored[v] <= gen[v])
    BY DEF LedgerInv, StoredSound
  <2>3. asked'[v] = IF v \in S THEN gen[v] ELSE asked[v] BY <1>2
  <2> QED BY <2>1, <2>2, <2>3
<1>8. LoadedSound'
  <2> SUFFICES ASSUME NEW v \in Versions, loaded'[v] # None
               PROVE  Sound(v, loaded[v])' /\ v \notin beingLoaded' /\ v \notin readyToLoad'
    BY DEF LoadedSound
  <2>1. loaded'[v] = loaded[v] /\ loaded[v] # None /\ v \notin S \ beingLoaded BY <1>2
  <2>2. Sound(v, loaded[v]) /\ v \notin beingLoaded /\ v \notin readyToLoad
    BY <2>1 DEF LedgerInv, LoadedSound
  <2>3. v \notin S BY <2>1, <2>2
  <2>4. PICK g \in Gens : g = loaded[v] BY <1>1, <2>1 DEF TypeOK
  <2>5. Sound(v, g)' BY <1>6, <2>2, <2>3, <2>4
  <2> QED BY <1>2, <2>1, <2>2, <2>3, <2>4, <2>5 DEF Sound
<1>9. FlightSound'
  <2> SUFFICES ASSUME NEW v \in Versions, NEW g \in Gens, OfFlight(v, g)', v \notin invalidated'
               PROVE  Sound(v, g)'
    BY DEF FlightSound
  <2>1. OfFlight(v, g) BY <1>1, TakeStartsNone
  <2>2. v \in beingLoaded BY <2>1 DEF OfFlight, InFlight, FlightInv, SingleFlight
  <2>3. v \notin invalidated /\ v \notin S BY <1>2, <2>2
  <2>4. Sound(v, g) BY <2>1, <2>3 DEF LedgerInv, FlightSound
  <2> QED BY <1>6, <2>3, <2>4
<1> QED BY <1>4, <1>5, <1>7, <1>8, <1>9 DEF LedgerInv

(* Storing what is in memory is a store of the ledger, and what is in flight
   stays worth storing. *)
LEMMA StoreIsEntered ==
  ASSUME TypeOK, StoredSound, NEW ld \in Image, StoreLoaded(ld), UNCHANGED <<gen, asked>>,
         \A v \in Versions : ld[v] # None => Sound(v, ld[v])
  PROVE  /\ StoredSound' /\ Entered
         /\ \A v \in Versions : \A g : Sound(v, g) /\ ld[v] = None => Sound(v, g)'
<1>1. /\ stored' = [v \in Versions |-> IF ld[v] # None THEN ld[v] ELSE stored[v]]
      /\ outdated' = outdated \ Loaded(ld) /\ queue' = queue \ Loaded(ld)
  BY DEF StoreLoaded
<1>2. \A v \in Versions : v \in Loaded(ld) <=> ld[v] # None BY DEF Loaded
<1>3. stored' = [v \in Versions |-> IF v \in Loaded(ld) THEN stored'[v] ELSE stored[v]]
  BY <1>1, <1>2
<1>4. ASSUME NEW v \in Loaded(ld)
      PROVE  stored'[v] \in asked[v]..gen[v] /\ (stored[v] # None => stored'[v] >= stored[v])
  <2>1. v \in Versions /\ ld[v] # None /\ stored'[v] = ld[v] BY <1>1 DEF Loaded
  <2>2. Sound(v, ld[v]) BY <2>1
  <2>3. ld[v] \in Nat /\ (stored[v] # None => stored[v] \in Nat) BY <2>1 DEF Image, TypeOK, Gens
  <2> QED BY <2>1, <2>2, <2>3 DEF Sound
<1>5. Ledger!Store(Loaded(ld)) BY <1>1, <1>3, <1>4 DEF Ledger!Store
<1>6. Entered BY <1>5 DEF Entered, Ledger!Next, Loaded
<1>7. StoredSound'
  <2> SUFFICES ASSUME NEW v \in Versions
               PROVE  asked[v] <= gen[v] /\ (stored'[v] # None => stored'[v] <= gen[v])
    BY DEF StoredSound
  <2>1. gen[v] \in Nat /\ asked[v] \in Nat BY DEF TypeOK, Gens
  <2>2. CASE ld[v] # None BY <1>2, <1>4, <2>1, <2>2 DEF StoredSound
  <2>3. CASE ld[v] = None BY <1>1, <2>3 DEF StoredSound
  <2> QED BY <2>2, <2>3
<1>8. ASSUME NEW v \in Versions, NEW g, Sound(v, g), ld[v] = None
      PROVE  Sound(v, g)'
  BY <1>1, <1>8 DEF Sound
<1> QED BY <1>6, <1>7, <1>8

(* processLoaded stores all that is in memory, or nothing. *)
LEMMA StoresAllOrNone ==
  ASSUME NEW being, NEW inv, NEW ld, ProcessLoaded(being, inv, ld)
  PROVE  \/ StoreLoaded(ld) /\ loaded' = Nothing
         \/ UNCHANGED <<queue, stored, outdated, readyToLoad>> /\ loaded' = ld
<1> DEFINE done == Loaded(ld) # {} /\ readyToLoad = {} /\ being = {}
<1>1. CASE done
  <2>1. StoreLoaded(ld) BY <1>1 DEF ProcessLoaded
  <2>2. PICK S \in Refill(queue') : MarkReadyToLoad(S, being, inv, Nothing)
    BY <1>1 DEF ProcessLoaded
  <2>3. loaded' = [v \in Versions |-> IF v \in S \ being THEN None ELSE Nothing[v]]
    BY <2>2 DEF MarkReadyToLoad
  <2>4. loaded' = Nothing BY <2>3 DEF Nothing
  <2> QED BY <2>1, <2>4
<1>2. CASE ~done BY <1>2 DEF ProcessLoaded
<1> QED BY <1>1, <1>2

(* A found image ends its flight.  If it is kept it is worth storing, for it
   was not invalidated. *)
LEMMA FoundIsEntered ==
  ASSUME FlightInv, FlightInv', LedgerInv, HandleFound
  PROVE  LedgerInv' /\ Entered
<1> DEFINE v == Head(events).v
           img == Head(events).img
           being == beingLoaded \ {v}
           ld == IF Keeps(v) THEN [loaded EXCEPT ![v] = img] ELSE loaded
<1>1. /\ TypeOK /\ TypeOK' /\ SingleFlight /\ SingleFlight' /\ ReadyAgainIsInvalidated
      /\ events \in Seq(Event) /\ events # <<>> /\ Head(events).type = "found"
      /\ events' = Tail(events)
  BY DEF HandleFound, Take, FlightInv, TypeOK
<1>2. /\ beingLoaded' = being /\ ProcessLoaded(being, invalidated \ {v}, ld)
      /\ job' = job /\ jobGen' = jobGen /\ gen' = gen /\ holder' = holder
  BY DEF HandleFound, bankVars
<1>3. Head(events) \in Event /\ events[1] = Head(events) /\ 1 \in DOMAIN events
  BY <1>1
<1>4. v \in Versions /\ img \in Gens BY <1>1, <1>3 DEF Event
<1>5. OfFlight(v, img) /\ InFlight(v) BY <1>1, <1>3 DEF OfFlight, InFlight, FoundAt
<1>6. v \in beingLoaded BY <1>1, <1>4, <1>5 DEF SingleFlight
<1>7. ld \in Image /\ being \in SUBSET Versions /\ invalidated \ {v} \in SUBSET Versions
  BY <1>1, <1>4 DEF TypeOK, Image
<1>8. asked' = asked /\ invalidated' = invalidated \ {v} BY <1>1, <1>2, <1>7, ProcessType
<1>9. ASSUME NEW u \in Versions, ld[u] # None
      PROVE  Sound(u, ld[u]) /\ u \notin being /\ u \notin readyToLoad
  <2>1. CASE Keeps(v) /\ u = v
    <3>1. v \notin invalidated /\ ld[u] = img BY <1>1, <2>1 DEF Keeps, TypeOK
    <3>2. Sound(v, img) BY <1>4, <1>5, <3>1 DEF LedgerInv, FlightSound
    <3>3. v \notin readyToLoad BY <1>1, <1>6, <3>1 DEF ReadyAgainIsInvalidated
    <3> QED BY <2>1, <3>1, <3>2, <3>3
  <2>2. CASE ~(Keeps(v) /\ u = v)
    <3>1. ld[u] = loaded[u] BY <1>1, <2>2 DEF TypeOK
    <3> QED BY <1>9, <3>1 DEF LedgerInv, LoadedSound
  <2> QED BY <2>1, <2>2
<1>10. \A u \in Versions, g \in Gens : OfFlight(u, g)' => OfFlight(u, g) /\ u \in being
  <2>1. \A u \in Versions, g \in Gens : OfFlight(u, g)' => OfFlight(u, g)
    BY <1>1, <1>2, TakeStartsNone
  <2>2. \A u \in Versions, g \in Gens : OfFlight(u, g)' => u \in beingLoaded'
    BY <1>1 DEF OfFlight, InFlight, SingleFlight
  <2> QED BY <1>2, <2>1, <2>2
<1> HIDE DEF v, img, being, ld
<1>11. OffersAreSmall' BY <1>2 DEF LedgerInv, OffersAreSmall
<1>12. CASE StoreLoaded(ld) /\ loaded' = Nothing
  <2>1. /\ StoredSound' /\ Entered
        /\ \A u \in Versions : \A g : Sound(u, g) /\ ld[u] = None => Sound(u, g)'
    BY <1>1, <1>2, <1>7, <1>8, <1>9, <1>12, StoreIsEntered DEF LedgerInv
  <2>2. LoadedSound' BY <1>12 DEF LoadedSound, Nothing
  <2>3. FlightSound'
    <3> SUFFICES ASSUME NEW u \in Versions, NEW g \in Gens, OfFlight(u, g)', u \notin invalidated'
                 PROVE  Sound(u, g)'
      BY DEF FlightSound
    <3>1. OfFlight(u, g) /\ u \in being BY <1>10
    <3>2. u \notin invalidated BY <1>8, <3>1 DEF being
    <3>3. Sound(u, g) BY <3>1, <3>2 DEF LedgerInv, FlightSound
    <3>4. ld[u] = None BY <1>9, <3>1
    <3> QED BY <2>1, <3>3, <3>4
  <2> QED BY <1>11, <2>1, <2>2, <2>3 DEF LedgerInv
<1>13. CASE UNCHANGED <<queue, stored, outdated, readyToLoad>> /\ loaded' = ld
  <2>1. Entered BY <1>2, <1>8, <1>13 DEF Entered, Ledger!ledger
  <2>2. \A u, g : Sound(u, g)' <=> Sound(u, g) BY <1>2, <1>8, <1>13 DEF Sound
  <2>3. StoredSound' BY <1>2, <1>8, <1>13 DEF LedgerInv, StoredSound
  <2>4. LoadedSound' BY <1>2, <1>8, <1>9, <1>13 DEF LoadedSound, Sound
  <2>5. FlightSound'
    <3> SUFFICES ASSUME NEW u \in Versions, NEW g \in Gens, OfFlight(u, g)', u \notin invalidated'
                 PROVE  Sound(u, g)
      BY <2>2 DEF FlightSound
    <3>1. OfFlight(u, g) /\ u \in being BY <1>10
    <3>2. u \notin invalidated BY <1>8, <3>1 DEF being
    <3> QED BY <3>1, <3>2 DEF LedgerInv, FlightSound
  <2> QED BY <1>11, <2>1, <2>3, <2>4, <2>5 DEF LedgerInv
<1>14. \/ StoreLoaded(ld) /\ loaded' = Nothing
       \/ UNCHANGED <<queue, stored, outdated, readyToLoad>> /\ loaded' = ld
  BY <1>2, StoresAllOrNone
<1> QED BY <1>12, <1>13, <1>14

(* Each step keeps the invariant and is a step of the ledger or none. *)
LEMMA StepIsEntered ==
  ASSUME Restricted, FlightInv, FlightInv', LedgerInv, [Next]_vars
  PROVE  LedgerInv' /\ Entered
<1>1. TypeOK BY DEF FlightInv
<1>2. CASE HandleRecache
  <2>1. PICK S : S = Head(events).vs OBVIOUS
  <2>2. /\ events \in Seq(Event) /\ events # <<>> /\ Head(events).type = "recache"
        /\ events' = Tail(events) /\ Recache(S) /\ UNCHANGED <<gen, holder, job, jobGen>>
    BY <1>1, <1>2, <2>1 DEF HandleRecache, Take, TypeOK, bankVars, mainVars
  <2>3. Head(events) \in Event BY <2>2
  <2>4. S \in SUBSET Versions BY <2>1, <2>2, <2>3 DEF Event
  <2> QED BY <2>2, <2>4, RecacheIsEntered
<1>3. CASE HandleModified
  <2>1. PICK v : v = Head(events).v OBVIOUS
  <2>2. /\ events \in Seq(Event) /\ events # <<>> /\ Head(events).type = "modified"
        /\ events' = Tail(events) /\ UNCHANGED <<gen, job, jobGen>>
        /\ holder' = [holder EXCEPT ![v] = <<>>]
    BY <1>1, <1>3, <2>1 DEF HandleModified, Take, TypeOK, bankVars
  <2>3. Head(events) \in Event BY <2>2
  <2>4. v \in Versions BY <2>1, <2>2, <2>3 DEF Event
  <2>5. \A u \in Versions : holder'[u] \in {holder[u], <<>>} BY <1>1, <2>2 DEF TypeOK
  <2>6. UNCHANGED <<dbVars, setVars, outVars>> \/ Recache({v})
    BY <1>3, <2>1, <2>4 DEF HandleModified, LedgerInv, OffersAreSmall
  <2>7. CASE Recache({v}) BY <2>2, <2>4, <2>5, <2>7, RecacheIsEntered
  <2>8. CASE UNCHANGED <<dbVars, setVars, outVars>>
    <3>1. \A u \in Versions : gen[u] <= gen'[u] BY <1>1, <2>2 DEF TypeOK, Gens
    <3>2. \A u \in Versions, g \in Gens : OfFlight(u, g)' => OfFlight(u, g) BY <2>2, TakeStartsNone
    <3>3. OffersAreSmall' BY <2>5 DEF LedgerInv, OffersAreSmall
    <3>4. TypeOK' BY DEF FlightInv
    <3>5. LedgerInv'
      BY <1>1, <2>8, <3>1, <3>2, <3>3, <3>4, WeakerIsSound DEF dbVars, setVars, outVars
    <3>6. Entered BY <2>2, <2>8 DEF Entered, dbVars, Ledger!ledger
    <3> QED BY <3>5, <3>6
  <2> QED BY <2>6, <2>7, <2>8
<1>4. CASE MainStep BY <1>4, MainIsEntered
<1>5. CASE HandleRequest BY <1>5, RequestIsEntered
<1>6. CASE HandleFound BY <1>6, FoundIsEntered
<1>7. ASSUME NEW f \in Finders, SendToBank(f) PROVE LedgerInv' /\ Entered BY <1>7, SendIsEntered
<1> QED BY <1>2, <1>3, <1>4, <1>5, <1>6, <1>7, QuietIsEntered DEF Next, WorkerStep, HandlerStep

LEMMA InitIsEntered == Init => LedgerInv /\ Ledger!Init
<1> SUFFICES ASSUME Init PROVE LedgerInv /\ Ledger!Init OBVIOUS
<1>1. /\ gen = [v \in Versions |-> 0] /\ asked = [v \in Versions |-> 0]
      /\ stored \in [Versions -> {0, None}] /\ loaded = [v \in Versions |-> None]
      /\ events = <<>> /\ job = [f \in Finders |-> None] /\ holder = [v \in Versions |-> <<>>]
  BY DEF Init, FreshProcess, Nothing
<1>2. StoredSound /\ LoadedSound /\ OffersAreSmall
  BY <1>1 DEF StoredSound, LoadedSound, OffersAreSmall
<1>3. FlightSound BY <1>1, ConstantsAssumption DEF FlightSound, OfFlight, FoundAt
<1>4. Ledger!Init BY DEF Init, Ledger!Init
<1> QED BY <1>2, <1>3, <1>4 DEF LedgerInv

(* Whatever the worker, the finder threads, the user and a crash do, the cache
   database changes as the ledger allows: a version leaves the queue only when
   an image no older than its last recache is stored, and no image is replaced
   by an older one. *)
THEOREM WorkerKeepsTheLedger == ASSUME Restricted PROVE Spec => ImplementsLedger
<1>1. Restricted /\ FlightInv /\ FlightInv' /\ LedgerInv /\ [Next]_vars => LedgerInv' /\ Entered
  BY StepIsEntered
<1>2. Restricted /\ FlightInv /\ FlightInv' /\ LedgerInv /\ [Next]_vars
        => LedgerInv' /\ [Ledger!Next]_(Ledger!ledger)
  BY <1>1 DEF Entered
<1> QED BY <1>2, InitIsEntered, FlightsInvariant, PTL DEF Spec, ImplementsLedger, Ledger!Spec

-----------------------------------------------------------------------------
(***************************************************************************)
(* No image that is out of date passes for fresh while the process runs,   *)
(* for any versions, finders and bounds, again without large offers and    *)
(* small files.                                                            *)
(***************************************************************************)

\* The worker is yet to hear of the settings that v has now.
Owing(v) ==
  \/ v \in owed
  \/ RecachePosted(v)
  \/ Posted("modified", v) /\ holder[v] # <<>> /\ holder[v][1] = gen[v]

Fresh(v, g) == g = gen[v] \/ Owing(v)

\* The image in the cache database, unless it is outdated, the one in memory and
\* the one in flight, unless it is invalidated, are fresh or the worker is yet
\* to hear of it.
FreshAt(v) ==
  /\ stored[v] # None /\ v \notin outdated => Fresh(v, stored[v])
  /\ loaded[v] # None => Fresh(v, loaded[v])
  /\ \A g \in Gens : OfFlight(v, g) /\ v \notin invalidated => Fresh(v, g)

FreshInv == \A v \in Versions \ deleted : FreshAt(v)

\* Nothing ends the process, with which what the worker is yet to hear of is lost.
Lasting == "quit" \notin Ops /\ "kill" \notin Ops

(* The worker is still to hear of what it was, unless its event was taken. *)
LEMMA OwingKept ==
  ASSUME NEW v, v \in owed => v \in owed', gen'[v] = gen[v], holder'[v] = holder[v],
         \A i \in DOMAIN events :
           \/ events[i].type = "recache" /\ v \in events[i].vs
           \/ events[i].type = "modified" /\ events[i].v = v
           => \E j \in DOMAIN events' : events'[j] = events[i]
  PROVE  /\ Owing(v) => Owing(v)'
         /\ \A g : Fresh(v, g) => Fresh(v, g)'
<1>1. RecachePosted(v) => RecachePosted(v)' BY DEF RecachePosted
<1>2. Posted("modified", v) => Posted("modified", v)' BY DEF Posted
<1>3. Owing(v) => Owing(v)' BY <1>1, <1>2 DEF Owing
<1> QED BY <1>3 DEF Fresh

LEMMA PostKeepsEvents ==
  ASSUME events \in Seq(Event), NEW e, events' = Append(events, e)
  PROVE  /\ \A i \in DOMAIN events : \E j \in DOMAIN events' : events'[j] = events[i]
         /\ \E j \in DOMAIN events' : events'[j] = e
<1>1. /\ DOMAIN events' = 1..(Len(events) + 1) /\ DOMAIN events = 1..Len(events)
      /\ \A i \in DOMAIN events : events'[i] = events[i]
      /\ events'[Len(events) + 1] = e /\ Len(events) \in Nat
  OBVIOUS
<1> QED BY <1>1

LEMMA TakeKeepsEvents ==
  ASSUME events \in Seq(Event), events # <<>>, NEW more,
         events' = Tail(events) \/ events' = Append(Tail(events), more)
  PROVE  \A i \in DOMAIN events :
           events[i] = Head(events) \/ \E j \in DOMAIN events' : events'[j] = events[i]
<1>1. /\ Len(events) \in Nat \ {0} /\ DOMAIN events = 1..Len(events) /\ Head(events) = events[1]
      /\ Tail(events) \in Seq(Event) /\ Len(Tail(events)) = Len(events) - 1
      /\ \A i \in 1..(Len(events) - 1) : Tail(events)[i] = events[i + 1]
  OBVIOUS
<1>2. \A i \in 1..(Len(events) - 1) : i \in DOMAIN events' /\ events'[i] = events[i + 1]
  BY <1>1
<1>3. ASSUME NEW i \in DOMAIN events, i # 1
      PROVE  i - 1 \in 1..(Len(events) - 1) /\ (i - 1) + 1 = i
  BY <1>1, <1>3
<1> QED BY <1>1, <1>2, <1>3

(* Nothing becomes stale by images and flights that go, or are invalidated. *)
LEMMA WeakerIsFresh ==
  ASSUME NEW v, FreshAt(v), \A g : Fresh(v, g) => Fresh(v, g)',
         stored'[v] # None /\ v \notin outdated' => stored'[v] = stored[v] /\ v \notin outdated,
         loaded'[v] # None => loaded'[v] = loaded[v],
         \A g \in Gens : OfFlight(v, g)' /\ v \notin invalidated' => OfFlight(v, g) /\ v \notin invalidated
  PROVE  FreshAt(v)'
<1>1. (stored[v] # None /\ v \notin outdated => Fresh(v, stored[v]))' BY DEF FreshAt, Fresh
<1>2. (loaded[v] # None => Fresh(v, loaded[v]))' BY DEF FreshAt, Fresh
<1>3. (\A g \in Gens : OfFlight(v, g) /\ v \notin invalidated => Fresh(v, g))' BY DEF FreshAt
<1> QED BY <1>1, <1>2, <1>3 DEF FreshAt

(* A recache leaves nothing of what it calls for that passes for fresh. *)
LEMMA RecacheIsFresh ==
  ASSUME FlightInv, FlightInv', LedgerInv, FreshInv, NEW S \in SUBSET Versions, Recache(S),
         events # <<>>, events' = Tail(events),
         Head(events).type = "recache" => Head(events).vs \subseteq S,
         Head(events).type = "modified" => Head(events).v \in S,
         UNCHANGED <<gen, owed, deleted, job, jobGen>>,
         \A v \in Versions \ S : holder'[v] = holder[v]
  PROVE  FreshInv'
<1>1. TypeOK /\ events \in Seq(Event) BY DEF FlightInv, TypeOK
<1>2. /\ outdated' = outdated \cup {v \in S : stored[v] # None}
      /\ stored' = stored /\ beingLoaded' = beingLoaded
      /\ invalidated' = invalidated \cup (S \cap beingLoaded)
      /\ loaded' = [v \in Versions |-> IF v \in S \ beingLoaded THEN None ELSE loaded[v]]
  BY DEF Recache, MarkReadyToLoad
<1>3. \A v \in Versions, g \in Gens : OfFlight(v, g)' => OfFlight(v, g)
  BY <1>1, TakeStartsNone
<1> SUFFICES ASSUME NEW v \in Versions \ deleted PROVE FreshAt(v)'
  BY DEF FreshInv
<1>4. CASE v \in S
  <2>1. stored'[v] # None => v \in outdated' BY <1>2, <1>4
  <2>2. loaded'[v] = None
    <3>1. v \in beingLoaded => loaded[v] = None BY DEF LedgerInv, LoadedSound
    <3> QED BY <1>2, <1>4, <3>1
  <2>3. \A g \in Gens : OfFlight(v, g)' => v \in invalidated'
    <3>1. \A g \in Gens : OfFlight(v, g)' => v \in beingLoaded'
      BY DEF OfFlight, InFlight, FlightInv, SingleFlight
    <3> QED BY <1>2, <1>4, <3>1
  <2> QED BY <2>1, <2>2, <2>3 DEF FreshAt
<1>5. CASE v \notin S
  <2>1. \A g : Fresh(v, g) => Fresh(v, g)'
    <3>1. \A i \in DOMAIN events :
            events[i] = Head(events) \/ \E j \in DOMAIN events' : events'[j] = events[i]
      BY <1>1, TakeKeepsEvents
    <3> QED BY <1>5, <3>1, OwingKept
  <2>2. loaded'[v] = loaded[v] BY <1>2, <1>5
  <2>3. v \notin outdated' => v \notin outdated BY <1>2
  <2>4. v \notin invalidated' => v \notin invalidated BY <1>2
  <2> QED BY <1>2, <1>3, <2>1, <2>2, <2>3, <2>4, WeakerIsFresh DEF FreshInv
<1> QED BY <1>4, <1>5

(* The main thread: whoever edits is yet to say so. *)
LEMMA MainIsFresh ==
  ASSUME Lasting, FlightInv, FlightInv', FreshInv, MainStep
  PROVE  FreshInv'
<1>1. TypeOK /\ TypeOK' /\ events \in Seq(Event) BY DEF FlightInv, TypeOK
<1>2. ~Quit /\ ~Kill BY DEF Quit, Kill, May, Lasting
<1>3. ASSUME NEW S \in SUBSET Versions, EditAndRecache(S) PROVE FreshInv'
  <2>1. PICK e : e = [type |-> "recache", vs |-> S] OBVIOUS
  <2>2. /\ gen' = [v \in Versions |-> IF v \in S THEN gen[v] + 1 ELSE gen[v]]
        /\ holder' = [v \in Versions |-> IF v \in S THEN <<>> ELSE holder[v]]
        /\ events' = Append(events, e)
        /\ UNCHANGED <<owed, deleted, stored, outdated, loaded, invalidated, job, jobGen>>
    BY <1>3, <2>1 DEF EditAndRecache, Post, workerVars, dbVars, setVars, outVars, bankVars
  <2>3. /\ \A i \in DOMAIN events : \E j \in DOMAIN events' : events'[j] = events[i]
        /\ \E j \in DOMAIN events' : events'[j] = e
    BY <1>1, <2>2, PostKeepsEvents
  <2>4. \A v \in Versions, g \in Gens : OfFlight(v, g)' => OfFlight(v, g)
    BY <1>1, <2>1, <2>2, PostStartsNone
  <2> SUFFICES ASSUME NEW v \in Versions \ deleted PROVE FreshAt(v)'
    BY <2>2 DEF FreshInv
  <2>5. \A g : Fresh(v, g) => Fresh(v, g)'
    <3>1. CASE v \in S
      <4>1. RecachePosted(v)' BY <2>1, <2>3, <3>1 DEF RecachePosted
      <4> QED BY <4>1 DEF Fresh, Owing
    <3>2. CASE v \notin S BY <2>2, <2>3, <3>2, OwingKept
    <3> QED BY <3>1, <3>2
  <2> QED BY <2>2, <2>4, <2>5, WeakerIsFresh DEF FreshInv
<1>4. ASSUME NEW u \in Versions, EditLive(u) PROVE FreshInv'
  <2>1. /\ gen' = [gen EXCEPT ![u] = gen[u] + 1] /\ owed' = owed \cup {u}
        /\ UNCHANGED <<holder, deleted, events, stored, outdated, loaded, invalidated, job, jobGen>>
    BY <1>4 DEF EditLive, workerVars, dbVars, setVars, outVars, bankVars
  <2>2. \A v \in Versions, g \in Gens : OfFlight(v, g)' => OfFlight(v, g) BY <2>1, FrameStartsNone
  <2> SUFFICES ASSUME NEW v \in Versions \ deleted PROVE FreshAt(v)'
    BY <2>1 DEF FreshInv
  <2>3. \A g : Fresh(v, g) => Fresh(v, g)'
    <3>1. CASE v = u BY <2>1, <3>1 DEF Fresh, Owing
    <3>2. CASE v # u
      <4>1. gen'[v] = gen[v] BY <1>1, <2>1, <3>2 DEF TypeOK
      <4> QED BY <2>1, <4>1, OwingKept
    <3> QED BY <3>1, <3>2
  <2> QED BY <2>1, <2>2, <2>3, WeakerIsFresh DEF FreshInv
<1>5. ASSUME NEW u \in Versions, NEW big \in BOOLEAN, Offer(u, big) PROVE FreshInv'
  <2>1. PICK e : e = [type |-> "modified", v |-> u] OBVIOUS
  <2>2. /\ holder' = [holder EXCEPT ![u] = <<gen[u], big>>] /\ owed' = owed \ {u}
        /\ events' = Append(events, e)
        /\ UNCHANGED <<gen, deleted, stored, outdated, loaded, invalidated, job, jobGen>>
    BY <1>5, <2>1 DEF Offer, Post, workerVars, dbVars, setVars, outVars, bankVars
  <2>3. /\ \A i \in DOMAIN events : \E j \in DOMAIN events' : events'[j] = events[i]
        /\ \E j \in DOMAIN events' : events'[j] = e
    BY <1>1, <2>2, PostKeepsEvents
  <2>4. \A v \in Versions, g \in Gens : OfFlight(v, g)' => OfFlight(v, g)
    BY <1>1, <2>1, <2>2, PostStartsNone
  <2> SUFFICES ASSUME NEW v \in Versions \ deleted PROVE FreshAt(v)'
    BY <2>2 DEF FreshInv
  <2>5. \A g : Fresh(v, g) => Fresh(v, g)'
    <3>1. CASE v = u
      <4>1. Posted("modified", v)' BY <2>1, <2>3, <3>1 DEF Posted
      <4>2. holder'[v] = <<gen'[v], big>> BY <1>1, <2>2, <3>1 DEF TypeOK
      <4>3. holder'[v] # <<>> /\ holder'[v][1] = gen'[v] BY <4>2
      <4> QED BY <4>1, <4>3 DEF Fresh, Owing
    <3>2. CASE v # u
      <4>1. holder'[v] = holder[v] BY <1>1, <2>2, <3>2 DEF TypeOK
      <4> QED BY <2>2, <2>3, <3>2, <4>1, OwingKept
    <3> QED BY <3>1, <3>2
  <2> QED BY <2>2, <2>4, <2>5, WeakerIsFresh DEF FreshInv
<1>6. ASSUME NEW u \in Versions, Request(u) \/ RequestIfEasy(u) PROVE FreshInv'
  <2>1. PICK e : e.type # "found" /\ events' = Append(events, e)
    BY <1>6 DEF Request, RequestIfEasy, Post
  <2>2. UNCHANGED <<gen, owed, holder, deleted, stored, outdated, loaded, invalidated, job, jobGen>>
    BY <1>6 DEF Request, RequestIfEasy, mainVars, workerVars, dbVars, setVars, outVars, bankVars
  <2>3. \A i \in DOMAIN events : \E j \in DOMAIN events' : events'[j] = events[i]
    BY <1>1, <2>1, PostKeepsEvents
  <2>4. \A v \in Versions, g \in Gens : OfFlight(v, g)' => OfFlight(v, g)
    BY <1>1, <2>1, <2>2, PostStartsNone
  <2>5. ASSUME NEW v \in Versions \ deleted PROVE FreshAt(v)'
    <3>1. \A g : Fresh(v, g) => Fresh(v, g)' BY <2>2, <2>3, OwingKept
    <3> QED BY <2>2, <2>4, <3>1, WeakerIsFresh DEF FreshInv
  <2> QED BY <2>2, <2>5 DEF FreshInv
<1>7. ASSUME (\E u \in Versions : PurgeFromCache(u)) \/ DeleteVersion PROVE FreshInv'
  <2>1. /\ UNCHANGED <<gen, holder, events, loaded, invalidated, job, jobGen>>
        /\ deleted \subseteq deleted'
    BY <1>7 DEF PurgeFromCache, DeleteVersion, workerVars, dbVars, setVars, outVars, bankVars
  <2>2. \A v \in Versions \ deleted' : v \in owed => v \in owed'
    BY <1>7 DEF PurgeFromCache, DeleteVersion
  <2>3. \A v \in Versions : stored'[v] # None /\ v \notin outdated'
                              => stored'[v] = stored[v] /\ v \notin outdated
    <3>1. CASE DeleteVersion BY <3>1 DEF DeleteVersion, workerVars, dbVars
    <3>2. ASSUME NEW u \in Versions, PurgeFromCache(u)
          PROVE  \A v \in Versions : stored'[v] # None /\ v \notin outdated'
                                       => stored'[v] = stored[v] /\ v \notin outdated
      BY <3>2 DEF PurgeFromCache
    <3> QED BY <1>7, <3>1, <3>2
  <2>4. \A v \in Versions, g \in Gens : OfFlight(v, g)' => OfFlight(v, g) BY <2>1, FrameStartsNone
  <2>5. ASSUME NEW v \in Versions \ deleted' PROVE FreshAt(v)'
    <3>1. v \in Versions \ deleted BY <2>1
    <3>2. \A g : Fresh(v, g) => Fresh(v, g)' BY <2>1, <2>2, OwingKept
    <3> QED BY <2>1, <2>3, <2>4, <3>1, <3>2, WeakerIsFresh DEF FreshInv
  <2> QED BY <2>5 DEF FreshInv
<1> QED BY <1>2, <1>3, <1>4, <1>5, <1>6, <1>7 DEF MainStep

(* What is sent has the settings of the moment. *)
LEMMA SendIsFresh ==
  ASSUME FlightInv, FlightInv', FreshInv, NEW f \in Finders, SendToBank(f)
  PROVE  FreshInv'
<1>1. TypeOK /\ TypeOK' BY DEF FlightInv
<1>2. PICK u : u = Head(rtlOrder) OBVIOUS
<1>3. /\ u \in Versions
      /\ job' = [job EXCEPT ![f] = u] /\ jobGen' = [jobGen EXCEPT ![f] = gen[u]]
      /\ UNCHANGED <<gen, owed, holder, deleted, stored, outdated, loaded, events, invalidated>>
  BY <1>1, <1>2 DEF SendToBank, Sendable, TypeOK, mainVars, dbVars, outVars
<1>4. \A h \in Finders : job'[h] = (IF h = f THEN u ELSE job[h])
                         /\ jobGen'[h] = (IF h = f THEN gen[u] ELSE jobGen[h])
  BY <1>1, <1>3 DEF TypeOK
<1>5. \A v \in Versions, g \in Gens : OfFlight(v, g)' => OfFlight(v, g) \/ (v = u /\ g = gen[u])
  BY <1>3, <1>4 DEF OfFlight, FoundAt
<1> SUFFICES ASSUME NEW v \in Versions \ deleted PROVE FreshAt(v)'
  BY <1>3 DEF FreshInv
<1>6. \A g : Fresh(v, g) <=> Fresh(v, g)'
  BY <1>3 DEF Fresh, Owing, RecachePosted, Posted
<1>7. \A g \in Gens : OfFlight(v, g)' /\ v \notin invalidated' => Fresh(v, g)'
  <2> SUFFICES ASSUME NEW g \in Gens, OfFlight(v, g)', v \notin invalidated PROVE Fresh(v, g)'
    BY <1>3
  <2>1. CASE OfFlight(v, g) BY <1>6, <2>1 DEF FreshInv, FreshAt
  <2>2. CASE v = u /\ g = gen[u] BY <1>3, <2>2 DEF Fresh
  <2> QED BY <1>5, <2>1, <2>2
<1>8. FreshAt(v) BY DEF FreshInv
<1>9. (stored[v] # None /\ v \notin outdated => Fresh(v, stored[v]))' BY <1>3, <1>6, <1>8 DEF FreshAt, Fresh
<1>10. (loaded[v] # None => Fresh(v, loaded[v]))' BY <1>3, <1>6, <1>8 DEF FreshAt, Fresh
<1> QED BY <1>7, <1>9, <1>10 DEF FreshAt

(* Only an image that was not invalidated is kept and stored. *)
LEMMA FoundIsFresh ==
  ASSUME FlightInv, FlightInv', LedgerInv, FreshInv, HandleFound
  PROVE  FreshInv'
<1> DEFINE u == Head(events).v
           img == Head(events).img
           being == beingLoaded \ {u}
           ld == IF Keeps(u) THEN [loaded EXCEPT ![u] = img] ELSE loaded
<1>1. /\ TypeOK /\ SingleFlight /\ SingleFlight'
      /\ events \in Seq(Event) /\ events # <<>> /\ Head(events).type = "found"
      /\ events' = Tail(events)
  BY DEF HandleFound, Take, FlightInv, TypeOK
<1>2. /\ beingLoaded' = being /\ ProcessLoaded(being, invalidated \ {u}, ld)
      /\ UNCHANGED <<job, jobGen, gen, owed, holder, deleted>>
  BY DEF HandleFound, bankVars
<1>3. Head(events) \in Event /\ events[1] = Head(events) /\ 1 \in DOMAIN events
  BY <1>1
<1>4. u \in Versions /\ img \in Gens BY <1>1, <1>3 DEF Event
<1>5. OfFlight(u, img) BY <1>1, <1>3 DEF OfFlight, FoundAt
<1>6. ld \in Image /\ being \in SUBSET Versions /\ invalidated \ {u} \in SUBSET Versions
  BY <1>1, <1>4 DEF TypeOK, Image
<1>7. invalidated' = invalidated \ {u} BY <1>1, <1>2, <1>6, ProcessType
<1> SUFFICES ASSUME NEW v \in Versions \ deleted PROVE FreshAt(v)'
  BY <1>2 DEF FreshInv
<1>8. FreshAt(v) BY DEF FreshInv
<1>9. ld[v] # None => Fresh(v, ld[v])
  <2>1. CASE Keeps(u) /\ v = u
    <3>1. v \notin invalidated /\ ld[v] = img BY <1>1, <2>1 DEF Keeps, TypeOK
    <3> QED BY <1>4, <1>5, <1>8, <2>1, <3>1 DEF FreshAt
  <2>2. CASE ~(Keeps(u) /\ v = u)
    <3>1. ld[v] = loaded[v] BY <1>1, <2>2 DEF TypeOK
    <3> QED BY <1>8, <3>1 DEF FreshAt
  <2> QED BY <2>1, <2>2
<1>10. \A g \in Gens : OfFlight(v, g)' => OfFlight(v, g) /\ v # u
  <2>1. \A g \in Gens : OfFlight(v, g)' => OfFlight(v, g) BY <1>1, <1>2, TakeStartsNone
  <2>2. \A g \in Gens : OfFlight(v, g)' => v \in beingLoaded'
    BY <1>1 DEF OfFlight, InFlight, SingleFlight
  <2> QED BY <1>2, <2>1, <2>2
<1>11. \A g : Fresh(v, g) => Fresh(v, g)'
  <2>1. \A i \in DOMAIN events :
          events[i] = Head(events) \/ \E j \in DOMAIN events' : events'[j] = events[i]
    BY <1>1, TakeKeepsEvents
  <2> HIDE DEF u, img, being, ld
  <2> QED BY <1>1, <1>2, <2>1, OwingKept
<1> HIDE DEF u, img, being, ld
<1>12. \/ StoreLoaded(ld) /\ loaded' = Nothing
       \/ UNCHANGED <<queue, stored, outdated, readyToLoad>> /\ loaded' = ld
  BY <1>2, StoresAllOrNone
<1>13. (stored[v] # None /\ v \notin outdated => Fresh(v, stored[v]))'
  <2>1. CASE StoreLoaded(ld)
    <3>1. /\ stored'[v] = IF ld[v] # None THEN ld[v] ELSE stored[v]
          /\ v \notin outdated' => v \notin outdated \/ ld[v] # None
      BY <2>1 DEF StoreLoaded, Loaded
    <3> QED BY <1>8, <1>9, <1>11, <3>1 DEF FreshAt, Fresh
  <2>2. CASE UNCHANGED <<stored, outdated>> BY <1>8, <1>11, <2>2 DEF FreshAt, Fresh
  <2> QED BY <1>12, <2>1, <2>2
<1>14. (loaded[v] # None => Fresh(v, loaded[v]))'
  BY <1>9, <1>11, <1>12 DEF Nothing, Fresh
<1>15. (\A g \in Gens : OfFlight(v, g) /\ v \notin invalidated => Fresh(v, g))'
  BY <1>7, <1>8, <1>10, <1>11 DEF FreshAt
<1> QED BY <1>13, <1>14, <1>15 DEF FreshAt

(* The other steps of the worker and the finder threads. *)
LEMMA QuietIsFresh ==
  ASSUME FlightInv, FlightInv', FreshInv,
         \/ Boot \/ HandleFinder \/ HandleEasy \/ HandleRequest \/ FoundDeleted \/ SkipEntry
         \/ SendDeleted \/ ForgetReady \/ EndActivate \/ (\E v \in Versions : PutBack(v))
         \/ (\E f \in Finders : FindImage(f)) \/ UNCHANGED vars
  PROVE  FreshInv'
<1>1. TypeOK /\ events \in Seq(Event) BY DEF FlightInv, TypeOK
<1>2. UNCHANGED <<gen, owed, holder, deleted, stored, outdated>>
  BY DEF Boot, HandleFinder, HandleEasy, HandleRequest, FoundDeleted, SkipEntry, SendDeleted,
     ForgetReady, EndActivate, PutBack, FindImage, vars, mainVars, workerVars, dbVars
<1>3. \A v \in Versions : loaded'[v] \in {loaded[v], None} /\ (v \notin invalidated' => v \notin invalidated)
  <2>1. CASE Boot
    <3>1. PICK S : MarkReadyToLoad(S, beingLoaded, invalidated, loaded) BY <2>1 DEF Boot
    <3> QED BY <3>1 DEF MarkReadyToLoad
  <2>2. CASE UNCHANGED <<loaded, invalidated>> BY <2>2
  <2> QED
    BY <2>1, <2>2 DEF HandleFinder, HandleEasy, HandleRequest, FoundDeleted, SkipEntry, SendDeleted,
       ForgetReady, EndActivate, PutBack, FindImage, vars, workerVars, setVars, outVars
<1>4. /\ \A v \in Versions, g \in Gens : OfFlight(v, g)' => OfFlight(v, g)
      /\ \A i \in DOMAIN events :
           \/ events[i].type \notin {"recache", "modified"}
           \/ \E j \in DOMAIN events' : events'[j] = events[i]
  <2>1. CASE HandleFinder
    <3>1. /\ events # <<>> /\ Head(events).type = "finder"
          /\ \E e : events' = Append(Tail(events), e)
      BY <2>1 DEF HandleFinder
    <3> QED BY <1>1, <2>1, <3>1, FinderStartsNone, TakeKeepsEvents
  <2>2. CASE HandleEasy \/ HandleRequest
    <3>1. /\ events # <<>> /\ Head(events).type \in {"easy", "request"} /\ events' = Tail(events)
          /\ UNCHANGED <<job, jobGen>>
      BY <2>2 DEF HandleEasy, HandleRequest, Take, workerVars, bankVars
    <3> QED BY <1>1, <3>1, TakeStartsNone, TakeKeepsEvents
  <2>3. ASSUME NEW f \in Finders, FindImage(f)
        PROVE  /\ \A v \in Versions, g \in Gens : OfFlight(v, g)' => OfFlight(v, g)
               /\ \A i \in DOMAIN events : \E j \in DOMAIN events' : events'[j] = events[i]
    <3>1. PICK e : e.type # "found" /\ events' = Append(events, e) BY <2>3 DEF FindImage
    <3>2. UNCHANGED <<job, jobGen>> BY <2>3 DEF FindImage
    <3> QED BY <1>1, <3>1, <3>2, PostStartsNone, PostKeepsEvents
  <2>4. CASE UNCHANGED <<events, job, jobGen>> BY <2>4, FrameStartsNone
  <2> QED BY <2>1, <2>2, <2>3, <2>4
      DEF Boot, FoundDeleted, SkipEntry, SendDeleted, ForgetReady, EndActivate, PutBack, vars, bankVars
<1>5. ASSUME NEW v \in Versions \ deleted PROVE FreshAt(v)'
  <2>1. \A g : Fresh(v, g) => Fresh(v, g)' BY <1>2, <1>4, OwingKept
  <2> QED BY <1>2, <1>3, <1>4, <2>1, WeakerIsFresh DEF FreshInv
<1> QED BY <1>2, <1>5 DEF FreshInv

LEMMA StepIsFresh ==
  ASSUME Restricted, Lasting, FlightInv, FlightInv', LedgerInv, FreshInv, [Next]_vars
  PROVE  FreshInv'
<1>1. TypeOK /\ events \in Seq(Event) BY DEF FlightInv, TypeOK
<1>2. CASE HandleRecache
  <2>1. PICK S : S = Head(events).vs OBVIOUS
  <2>2. /\ events # <<>> /\ Head(events).type = "recache"
        /\ events' = Tail(events) /\ Recache(S) /\ UNCHANGED <<gen, owed, deleted, holder, job, jobGen>>
    BY <1>1, <1>2, <2>1 DEF HandleRecache, Take, bankVars, mainVars
  <2>3. Head(events) \in Event BY <1>1, <2>2
  <2>4. S \in SUBSET Versions BY <2>1, <2>2, <2>3 DEF Event
  <2> QED BY <2>1, <2>2, <2>4, RecacheIsFresh
<1>3. CASE HandleModified
  <2>1. PICK u : u = Head(events).v OBVIOUS
  <2>2. /\ events # <<>> /\ Head(events).type = "modified"
        /\ events' = Tail(events) /\ UNCHANGED <<gen, owed, deleted, job, jobGen>>
        /\ holder' = [holder EXCEPT ![u] = <<>>]
    BY <1>1, <1>3, <2>1 DEF HandleModified, Take, bankVars
  <2>3. Head(events) \in Event BY <1>1, <2>2
  <2>4. u \in Versions BY <2>1, <2>2, <2>3 DEF Event
  <2>5. \A v \in Versions : holder'[v] = IF v = u THEN <<>> ELSE holder[v]
    BY <1>1, <2>2 DEF TypeOK
  <2>6. (holder[u] = <<>> /\ UNCHANGED <<dbVars, setVars, outVars>>) \/ Recache({u})
    BY <1>3, <2>1, <2>4 DEF HandleModified, LedgerInv, OffersAreSmall
  <2>7. CASE Recache({u}) BY <2>1, <2>2, <2>4, <2>5, <2>7, RecacheIsFresh
  <2>8. CASE holder[u] = <<>> /\ UNCHANGED <<dbVars, setVars, outVars>>
    <3>1. \A v \in Versions, g \in Gens : OfFlight(v, g)' => OfFlight(v, g)
      BY <1>1, <2>2, TakeStartsNone
    <3>2. \A i \in DOMAIN events :
            events[i] = Head(events) \/ \E j \in DOMAIN events' : events'[j] = events[i]
      BY <1>1, <2>2, TakeKeepsEvents
    <3>3. ASSUME NEW v \in Versions \ deleted PROVE FreshAt(v)'
      <4>1. holder'[v] = holder[v] BY <2>5, <2>8
      <4>2. RecachePosted(v) => RecachePosted(v)' BY <2>2, <3>2 DEF RecachePosted
      <4>3. v # u /\ Posted("modified", v) => Posted("modified", v)' BY <2>1, <3>2 DEF Posted
      <4>4. Owing(v) => Owing(v)' BY <2>2, <2>8, <4>1, <4>2, <4>3 DEF Owing
      <4>5. \A g : Fresh(v, g) => Fresh(v, g)' BY <2>2, <4>4 DEF Fresh
      <4> QED BY <2>8, <3>1, <4>5, WeakerIsFresh DEF FreshInv, dbVars, setVars, outVars
    <3> QED BY <2>2, <3>3 DEF FreshInv
  <2> QED BY <2>6, <2>7, <2>8
<1>4. CASE MainStep BY <1>4, MainIsFresh
<1>5. CASE HandleFound BY <1>5, FoundIsFresh
<1>6. ASSUME NEW f \in Finders, SendToBank(f) PROVE FreshInv' BY <1>6, SendIsFresh
<1> QED BY <1>2, <1>3, <1>4, <1>5, <1>6, QuietIsFresh DEF Next, WorkerStep, HandlerStep

LEMMA InitIsFresh == Init => FreshInv
<1> SUFFICES ASSUME Init, NEW v \in Versions PROVE FreshAt(v)
  BY DEF FreshInv
<1>1. /\ gen = [u \in Versions |-> 0]
      /\ stored \in [Versions -> {0, None}] /\ loaded = [u \in Versions |-> None]
      /\ events = <<>> /\ job = [f \in Finders |-> None]
  BY DEF Init, FreshProcess, Nothing
<1>2. \A g : ~OfFlight(v, g) BY <1>1, ConstantsAssumption DEF OfFlight, FoundAt
<1> QED BY <1>1, <1>2 DEF FreshAt, Fresh

(* An image that passes for fresh and is not is about to be called for again, as long
   as the process runs: what is in flight when the settings change is invalidated, and
   what is in memory is discarded, before it is stored (AutoCache.cpp, AC_Worker.cpp). *)
THEOREM NothingStalePassesForFresh ==
  ASSUME Restricted, Lasting
  PROVE  Spec => []FreshOrPending
<1>1. Restricted /\ FlightInv /\ FlightInv' /\ LedgerInv /\ [Next]_vars => LedgerInv'
  BY StepIsEntered
<1>2. Restricted /\ Lasting /\ FlightInv /\ FlightInv' /\ LedgerInv /\ FreshInv /\ [Next]_vars => FreshInv'
  BY StepIsFresh
<1>3. Init => LedgerInv /\ FreshInv BY InitIsEntered, InitIsFresh
<1>4. ASSUME TypeOK, FreshInv PROVE FreshOrPending
  <2> SUFFICES ASSUME NEW v \in Versions \ deleted, stored[v] # None, v \notin outdated,
                      stored[v] < gen[v]
               PROVE  Owing(v)
    BY DEF FreshOrPending, Owing
  <2>1. Fresh(v, stored[v]) BY <1>4 DEF FreshInv, FreshAt
  <2>2. stored[v] \in Nat /\ gen[v] \in Nat BY <1>4 DEF TypeOK, Gens
  <2> QED BY <2>1, <2>2 DEF Fresh
<1>5. FlightInv /\ FreshInv => FreshOrPending BY <1>4 DEF FlightInv
<1> QED BY <1>1, <1>2, <1>3, <1>5, FlightsInvariant, PTL DEF Spec
=============================================================================
