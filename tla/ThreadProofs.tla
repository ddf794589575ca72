---------------------------- MODULE ThreadProofs ----------------------------
(***************************************************************************)
(* Two parts of the program in which threads meet, and which share nothing *)
(* here but this module.                                                   *)
(*                                                                         *)
(* Live adjustment: whatever the user does while the thread computes, a    *)
(* computation that was interrupted is not announced, and the slide shows  *)
(* the version it says, for any number of versions, sizes and edits.       *)
(*                                                                         *)
(* The database: no statement fails for any number of threads.             *)
(* StatementsSucceed is not inductive by itself: that the one who holds    *)
(* the mutex has not read what others have replaced depends on who may     *)
(* have something open, and on which connection may be in a transaction,   *)
(* when the mutex is free.                                                 *)
(***************************************************************************)
EXTENDS LiveAdjuster, Database, TLAPS

Signals == (Images \cup {None}) \X Versions

\* A signal names the version whose original its image was computed from.
Own(signal) == signal[1] # None => signal[1].v = signal[2]

\* While it computes, whatever interrupts the thread, and whatever gives it
\* another original, also makes it discard the result.
InterruptionIsNoticed(a) ==
  a.at = "compute" /\ (a.interrupted \/ a.newOriginal # None) => a.newreq \/ a.cancel

\* The adjuster's client knows it by the original it will use next.
KnownByOriginal(a) ==
  /\ a.newOriginal # None => a.newOriginal.v = a.oId
  /\ a.newOriginal = None /\ a.held # None => a.held.v = a.oId

Jobs == [order : Orders, can : BOOLEAN]

IsOrdered(a) == a.newreq => a.rq \in Orders

WorksOnOrder(a) == a.at = "compute" => a.job \in Jobs /\ (a.job.can => a.oId # None)

SignalIsDue(a) ==
  a.at = "emit" => a.sig \in Signals /\ Own(a.sig) /\ (a.sig[1] = None => a.held = None)

Good(a) ==
  /\ a \in AdjusterStates
  /\ InterruptionIsNoticed(a) /\ KnownByOriginal(a) /\ IsOrdered(a) /\ WorksOnOrder(a)
  /\ SignalIsDue(a)

GoodOutbox == outbox \in Seq(Signals) /\ \A i \in 1..Len(outbox) : Own(outbox[i])

LiveTyped ==
  /\ gen \in [Versions -> Gens]
  /\ live \in LiveStates /\ (live.version # None => live.target \in Sizes)
  /\ slide \in SlideStates
  /\ wanted \in Originals \cup {None}

LiveInv == Good(adj) /\ GoodOutbox /\ LiveTyped /\ SlideShowsOwn

-----------------------------------------------------------------------------
(* Calls of the client *)

LEMMA OrderedTyped ==
  ASSUME NEW a \in AdjusterStates, NEW order \in Orders
  PROVE  Ordered(a, order) \in AdjusterStates
<1>1. PICK at : at = IF a.at = "wait" THEN "woken" ELSE a.at OBVIOUS
<1>2. at \in {"woken", "wait", "compute", "emit"} BY <1>1 DEF AdjusterStates
<1>3. Ordered(a, order) = [a EXCEPT !.interrupted = TRUE, !.newreq = TRUE, !.cancel = FALSE,
                                    !.rq = order, !.at = at]
  BY <1>1 DEF Ordered
<1> QED BY <1>2, <1>3 DEF AdjusterStates

\* What the calls change: the flags and the order, and whether the thread wakes.
LEMMA OrderedGood ==
  ASSUME NEW a, Good(a), NEW order \in Orders
  PROVE  Good(Ordered(a, order))
<1>1. PICK t : t = Ordered(a, order) OBVIOUS
<1>2. a \in AdjusterStates BY DEF Good
<1>3. /\ t.newreq = TRUE /\ t.rq = order /\ t.newOriginal = a.newOriginal
      /\ t.oId = a.oId /\ t.held = a.held /\ t.job = a.job /\ t.sig = a.sig
  BY <1>1, <1>2 DEF Ordered, AdjusterStates
<1>4. t.at = IF a.at = "wait" THEN "woken" ELSE a.at BY <1>1, <1>2 DEF Ordered, AdjusterStates
<1>5. t \in AdjusterStates BY <1>1, <1>2, OrderedTyped
<1>6. InterruptionIsNoticed(t) BY <1>3 DEF InterruptionIsNoticed
<1>7. KnownByOriginal(t) BY <1>3 DEF KnownByOriginal, Good
<1>8. IsOrdered(t) /\ WorksOnOrder(t) BY <1>3, <1>4 DEF IsOrdered, WorksOnOrder, Good
<1>9. SignalIsDue(t) BY <1>3, <1>4 DEF SignalIsDue, Good
<1> QED BY <1>1, <1>5, <1>6, <1>7, <1>8, <1>9 DEF Good

LEMMA WithdrawnGood ==
  ASSUME NEW a, Good(a)
  PROVE  Good(Withdrawn(a)) /\ Good(Cleared(a))
<1>1. a \in AdjusterStates BY DEF Good
<1>2. ASSUME NEW t, t = Withdrawn(a) \/ t = Cleared(a)
      PROVE  Good(t)
  <2>1. /\ t.newreq = FALSE /\ t.cancel = TRUE /\ t.newOriginal = a.newOriginal
        /\ t.oId = a.oId /\ t.held = a.held /\ t.job = a.job /\ t.sig = a.sig /\ t.at = a.at
    BY <1>1, <1>2 DEF Withdrawn, Cleared, AdjusterStates
  <2>2. t \in AdjusterStates BY <1>1, <1>2 DEF Withdrawn, Cleared, AdjusterStates
  <2>3. InterruptionIsNoticed(t) BY <2>1 DEF InterruptionIsNoticed
  <2>4. KnownByOriginal(t) BY <2>1 DEF KnownByOriginal, Good
  <2>5. IsOrdered(t) /\ WorksOnOrder(t) BY <2>1 DEF IsOrdered, WorksOnOrder, Good
  <2>6. SignalIsDue(t) BY <2>1 DEF SignalIsDue, Good
  <2> QED BY <2>2, <2>3, <2>4, <2>5, <2>6 DEF Good
<1> QED BY <1>2

\* provideScaledOriginal supplies an original and orders an image at once.
LEMMA SuppliedGood ==
  ASSUME NEW a, Good(a), NEW original \in Originals, NEW order \in Orders
  PROVE  Good(Ordered(Supplied(a, original), order))
<1>1. PICK s : s = Supplied(a, original) OBVIOUS
<1>2. PICK t : t = Ordered(s, order) OBVIOUS
<1>3. original # None /\ original.v \in Versions /\ original.size \in Sizes /\ original.v # None
  BY AdjusterAssumption DEF Originals
<1>4. a \in AdjusterStates BY DEF Good
<1>5. s \in AdjusterStates BY <1>1, <1>3, <1>4 DEF Supplied, AdjusterStates
<1>6. /\ s.newOriginal = original /\ s.oId = original.v /\ s.held = a.held
      /\ s.job = a.job /\ s.sig = a.sig /\ s.at = a.at
  BY <1>1, <1>4 DEF Supplied, AdjusterStates
<1>7. /\ t.newreq = TRUE /\ t.rq = order /\ t.newOriginal = original
      /\ t.oId = original.v /\ t.held = a.held /\ t.job = a.job /\ t.sig = a.sig
  BY <1>2, <1>5, <1>6 DEF Ordered, AdjusterStates
<1>8. t.at = IF a.at = "wait" THEN "woken" ELSE a.at
  BY <1>2, <1>5, <1>6 DEF Ordered, AdjusterStates
<1>9. t \in AdjusterStates BY <1>2, <1>5, OrderedTyped
<1>10. InterruptionIsNoticed(t) BY <1>7 DEF InterruptionIsNoticed
<1>11. KnownByOriginal(t) BY <1>3, <1>7 DEF KnownByOriginal
<1>12. IsOrdered(t) /\ WorksOnOrder(t) BY <1>3, <1>7, <1>8 DEF IsOrdered, WorksOnOrder, Good
<1>13. SignalIsDue(t) BY <1>7, <1>8 DEF SignalIsDue, Good
<1> QED BY <1>1, <1>2, <1>9, <1>10, <1>11, <1>12, <1>13 DEF Good

-----------------------------------------------------------------------------
(* The thread *)

\* The thread takes over the original supplied, and then computes or waits.
LEMMA RunLoopGood ==
  ASSUME NEW a \in AdjusterStates, KnownByOriginal(a), IsOrdered(a)
  PROVE  Good(RunLoop(a))
<1> DEFINE held == IF a.newOriginal # None THEN a.newOriginal
                   ELSE IF a.clear THEN None ELSE a.held
<1>1. PICK b : b = TakeUp(a) OBVIOUS
<1>2. b = [a EXCEPT !.held = held, !.newOriginal = None, !.clear = FALSE, !.cancel = FALSE]
  BY <1>1 DEF TakeUp
<1>3. held \in Originals \cup {None} /\ (held # None => held.v = a.oId)
  BY DEF KnownByOriginal, AdjusterStates
<1> HIDE DEF held
<1>4. b \in AdjusterStates BY <1>2, <1>3 DEF AdjusterStates
<1>5. /\ b.newOriginal = None /\ b.held = held /\ b.oId = a.oId
      /\ b.newreq = a.newreq /\ b.rq = a.rq
  BY <1>2 DEF AdjusterStates
<1>6. PICK empty \in BOOLEAN : empty = (b.held = None) OBVIOUS
<1>e. PICK c : c = [b EXCEPT !.empty = empty] OBVIOUS
<1>7. c \in AdjusterStates BY <1>4, <1>e DEF AdjusterStates
<1>8. /\ c.newOriginal = None /\ c.held = held /\ c.oId = a.oId
      /\ c.newreq = a.newreq /\ c.rq = a.rq
  BY <1>4, <1>5, <1>e DEF AdjusterStates
<1>9. CASE c.newreq
  <2>1. PICK job : job = [order |-> c.rq, can |-> c.rq.id = c.oId] OBVIOUS
  <2>2. c.rq \in Orders BY <1>8, <1>9 DEF IsOrdered
  <2>3. job \in Jobs /\ (job.can => c.oId # None)
    BY <2>1, <2>2, AdjusterAssumption DEF Jobs, Orders
  <2>4. PICK d : d = [c EXCEPT !.newreq = FALSE, !.interrupted = FALSE, !.at = "compute",
                               !.job = job]
    OBVIOUS
  <2>5. d \in AdjusterStates BY <1>7, <2>3, <2>4 DEF AdjusterStates, Jobs
  <2>6. /\ d.newreq = FALSE /\ d.interrupted = FALSE /\ d.at = "compute" /\ d.job = job
        /\ d.newOriginal = None /\ d.held = held /\ d.oId = a.oId
    BY <1>7, <1>8, <2>4 DEF AdjusterStates
  <2>7. InterruptionIsNoticed(d) BY <2>6 DEF InterruptionIsNoticed
  <2>8. KnownByOriginal(d) BY <1>3, <2>6 DEF KnownByOriginal
  <2>9. IsOrdered(d) /\ WorksOnOrder(d) BY <1>8, <2>3, <2>6 DEF IsOrdered, WorksOnOrder
  <2>10. SignalIsDue(d) BY <2>6 DEF SignalIsDue
  <2>11. RunLoop(a) = d BY <1>1, <1>6, <1>e, <1>9, <2>1, <2>4 DEF RunLoop
  <2> QED BY <2>5, <2>7, <2>8, <2>9, <2>10, <2>11 DEF Good
<1>10. CASE ~c.newreq
  <2>1. PICK d : d = [c EXCEPT !.at = "wait"] OBVIOUS
  <2>2. d \in AdjusterStates BY <1>7, <2>1 DEF AdjusterStates
  <2>3. /\ d.newreq = c.newreq /\ d.at = "wait" /\ d.newOriginal = None
        /\ d.held = held /\ d.oId = a.oId
    BY <1>7, <1>8, <2>1 DEF AdjusterStates
  <2>4. InterruptionIsNoticed(d) BY <2>3 DEF InterruptionIsNoticed
  <2>5. KnownByOriginal(d) BY <1>3, <2>3 DEF KnownByOriginal
  <2>6. IsOrdered(d) /\ WorksOnOrder(d) BY <1>10, <2>3 DEF IsOrdered, WorksOnOrder
  <2>7. SignalIsDue(d) BY <2>3 DEF SignalIsDue
  <2>8. RunLoop(a) = d BY <1>1, <1>6, <1>e, <1>10, <2>1 DEF RunLoop
  <2> QED BY <2>2, <2>4, <2>5, <2>6, <2>7, <2>8 DEF Good
<1> QED BY <1>9, <1>10

\* A result is what was computed, or nothing if the thread was interrupted.
LEMMA CompletedGood ==
  ASSUME NEW a, Good(a), a.at = "compute", NEW img,
         img = Retrieved(a) \/ (a.interrupted /\ img = None)
  PROVE  Good(Completed(a, img))
<1>1. a \in AdjusterStates BY DEF Good
<1>2. PICK b : b = [a EXCEPT !.job = None] OBVIOUS
<1>3. b \in AdjusterStates BY <1>1, <1>2 DEF AdjusterStates
<1>4. /\ b.newreq = a.newreq /\ b.rq = a.rq /\ b.newOriginal = a.newOriginal /\ b.held = a.held
      /\ b.oId = a.oId /\ b.at = "compute"
  BY <1>1, <1>2 DEF AdjusterStates
<1>5. CASE ~a.job.can \/ Discards(a)
  <2>1. KnownByOriginal(b) /\ IsOrdered(b) BY <1>4 DEF KnownByOriginal, IsOrdered, Good
  <2>2. Good(RunLoop(b)) BY <1>3, <2>1, RunLoopGood
  <2> QED BY <1>2, <1>5, <2>2 DEF Completed
<1>6. CASE a.job.can /\ ~Discards(a)
  <2>1. ~a.interrupted /\ a.newOriginal = None
    BY <1>6, <1>1 DEF Discards, Good, InterruptionIsNoticed
  <2>2. a.held # None => a.held \in Originals /\ a.held.v = a.oId
    BY <1>1, <2>1 DEF Good, KnownByOriginal, AdjusterStates
  <2>3. a.job \in Jobs /\ a.oId \in Versions
    BY <1>1, <1>6 DEF Good, WorksOnOrder, AdjusterStates
  <2>4. img \in Images \cup {None} /\ (img # None => img.v = a.oId) /\ (img = None => a.held = None)
    <3>1. CASE a.held = None BY <2>1, <3>1 DEF Retrieved
    <3>2. CASE a.held # None
      <4>1. PICK size : size = IF a.job.order.size < a.held.size THEN a.job.order.size
                               ELSE a.held.size
        OBVIOUS
      <4>2. img = [v |-> a.held.v, gen |-> a.job.order.gen, size |-> size]
        BY <2>1, <3>2, <4>1 DEF Retrieved
      <4>3. size \in Sizes BY <2>2, <2>3, <3>2, <4>1 DEF Originals, Jobs, Orders
      <4>4. img \in Images BY <2>2, <2>3, <3>2, <4>2, <4>3 DEF Originals, Jobs, Orders, Images
      <4>5. img.v = a.oId BY <2>2, <3>2, <4>2
      <4> QED BY <4>4, <4>5, AdjusterAssumption
    <3> QED BY <3>1, <3>2
  <2>5. PICK sig : sig = <<img, a.oId>> OBVIOUS
  <2>6. sig \in Signals /\ Own(sig) /\ (sig[1] = None => a.held = None)
    BY <2>3, <2>4, <2>5 DEF Signals, Own
  <2>7. PICK d : d = [b EXCEPT !.sig = sig, !.at = "emit"] OBVIOUS
  <2>8. d \in AdjusterStates BY <1>3, <2>6, <2>7 DEF AdjusterStates, Signals
  <2>9. /\ d.newreq = a.newreq /\ d.rq = a.rq /\ d.newOriginal = a.newOriginal /\ d.held = a.held
        /\ d.oId = a.oId /\ d.at = "emit" /\ d.sig = sig
    BY <1>3, <1>4, <2>7 DEF AdjusterStates
  <2>10. InterruptionIsNoticed(d) BY <2>9 DEF InterruptionIsNoticed
  <2>11. KnownByOriginal(d) BY <2>9 DEF KnownByOriginal, Good
  <2>12. IsOrdered(d) /\ WorksOnOrder(d) BY <2>9 DEF IsOrdered, WorksOnOrder, Good
  <2>13. SignalIsDue(d) BY <2>6, <2>9 DEF SignalIsDue
  <2>14. Completed(a, img) = d BY <1>2, <1>6, <2>5, <2>7 DEF Completed
  <2> QED BY <2>8, <2>10, <2>11, <2>12, <2>13, <2>14 DEF Good
<1> QED BY <1>5, <1>6

\* After the signal the thread looks for work again.
LEMMA EmittedGood ==
  ASSUME NEW a, Good(a)
  PROVE  Good([a EXCEPT !.sig = <<>>, !.at = "woken"])
<1>1. PICK d : d = [a EXCEPT !.sig = <<>>, !.at = "woken"] OBVIOUS
<1>2. a \in AdjusterStates BY DEF Good
<1>3. d \in AdjusterStates BY <1>1, <1>2 DEF AdjusterStates
<1>4. /\ d.newreq = a.newreq /\ d.rq = a.rq /\ d.newOriginal = a.newOriginal /\ d.held = a.held
      /\ d.oId = a.oId /\ d.at = "woken"
  BY <1>1, <1>2 DEF AdjusterStates
<1>5. InterruptionIsNoticed(d) BY <1>4 DEF InterruptionIsNoticed
<1>6. KnownByOriginal(d) BY <1>4 DEF KnownByOriginal, Good
<1>7. IsOrdered(d) /\ WorksOnOrder(d) BY <1>4 DEF IsOrdered, WorksOnOrder, Good
<1>8. SignalIsDue(d) BY <1>4 DEF SignalIsDue
<1> QED BY <1>1, <1>3, <1>5, <1>6, <1>7, <1>8 DEF Good

LEMMA ThreadInv ==
  ASSUME LiveInv, ThreadStep
  PROVE  LiveInv'
<1>1. /\ Good(adj) /\ GoodOutbox /\ adj \in AdjusterStates
      /\ UNCHANGED <<gen, live, wanted, slide, offered>>
  BY DEF LiveInv, Good, ThreadStep, liveVars
<1>2. LiveTyped' /\ SlideShowsOwn' BY <1>1 DEF LiveInv, LiveTyped, SlideShowsOwn
<1>3. CASE Wakeup
  <2>1. KnownByOriginal(adj) /\ IsOrdered(adj) BY <1>1 DEF Good
  <2>2. Good(adj') BY <1>1, <1>3, <2>1, RunLoopGood DEF Wakeup
  <2> QED BY <1>1, <1>2, <1>3, <2>2 DEF LiveInv, GoodOutbox, Wakeup
<1>4. CASE Compute
  <2>1. Good(adj') BY <1>1, <1>4, CompletedGood DEF Compute
  <2> QED BY <1>1, <1>2, <1>4, <2>1 DEF LiveInv, GoodOutbox, Compute
<1>5. CASE Emit
  <2>1. Good(adj') BY <1>1, <1>5, EmittedGood DEF Emit
  <2>2. adj.sig \in Signals /\ Own(adj.sig) BY <1>1, <1>5 DEF Emit, Good, SignalIsDue
  <2>3. outbox' = Append(outbox, adj.sig) BY <1>5 DEF Emit
  <2>4. GoodOutbox' BY <1>1, <2>2, <2>3 DEF GoodOutbox
  <2> QED BY <1>2, <2>1, <2>4 DEF LiveInv
<1> QED BY <1>3, <1>4, <1>5 DEF ThreadStep, AdjusterStep

-----------------------------------------------------------------------------
(* The user and the event loop *)

\* Typing of the members of LiveAdjuster and of what it orders.
LEMMA OrderTyped ==
  ASSUME NEW l \in LiveStates, l.version # None, NEW size \in Sizes
  PROVE  Order(l, size) \in Orders
  BY DEF Order, Orders, LiveStates

LEMMA ShowVersionInv ==
  ASSUME LiveInv, NEW v \in Versions, ShowVersion(v)
  PROVE  LiveInv'
<1>1. /\ Good(adj) /\ GoodOutbox /\ gen \in [Versions -> Gens] /\ live \in LiveStates
      /\ slide \in SlideStates /\ wanted \in Originals \cup {None}
  BY DEF LiveInv, LiveTyped
<1>2. Good(adj') BY <1>1, WithdrawnGood DEF ShowVersion
<1>3. live' \in LiveStates /\ live'.target \in Sizes
  <2>1. Full \in Sizes /\ gen[v] \in Gens BY <1>1, AdjusterAssumption DEF Sizes
  <2>2. live' = [live EXCEPT !.version = v, !.target = Full, !.known = gen[v],
                             !.mustshow = TRUE, !.edited = FALSE]
    BY DEF ShowVersion
  <2> QED BY <1>1, <2>1, <2>2 DEF LiveStates
<1>4. slide' \in SlideStates /\ slide'.img = None
  <2>1. slide' = [slide EXCEPT !.vsn = v, !.img = None, !.lastSize = None] BY DEF ShowVersion
  <2> QED BY <1>1, <2>1 DEF SlideStates
<1>5. UNCHANGED <<outbox, gen, wanted>> BY DEF ShowVersion
<1> QED BY <1>1, <1>2, <1>3, <1>4, <1>5 DEF LiveInv, LiveTyped, GoodOutbox, SlideShowsOwn

LEMMA EditInv ==
  ASSUME LiveInv, Edit
  PROVE  LiveInv'
<1>1. /\ Good(adj) /\ GoodOutbox /\ gen \in [Versions -> Gens] /\ live \in LiveStates
      /\ (live.version # None => live.target \in Sizes)
      /\ slide \in SlideStates /\ wanted \in Originals \cup {None} /\ SlideShowsOwn
  BY DEF LiveInv, LiveTyped
<1>2. /\ slide.vsn \in Versions /\ gen[slide.vsn] < MaxGen /\ slide.vsn # None
      /\ gen' = [gen EXCEPT ![slide.vsn] = @ + 1] /\ UNCHANGED <<outbox, slide>>
  BY <1>1 DEF Edit, SlideStates
<1>3. gen' \in [Versions -> Gens] BY <1>1, <1>2, AdjusterAssumption DEF Gens
<1>4. CASE live.version = slide.vsn /\ ForcedUpdate([live EXCEPT !.known = gen'[slide.vsn]])
  <2>1. PICK l : l = [live EXCEPT !.known = gen'[slide.vsn]] OBVIOUS
  <2>2. /\ l \in LiveStates /\ l.version = live.version /\ l.target = live.target
    BY <1>1, <1>2, <1>3, <2>1 DEF LiveStates
  <2>3. l.version \in Versions /\ l.target \in Sizes BY <1>1, <1>2, <1>4, <2>2
  <2>4. ForcedUpdate(l) BY <1>4, <2>1
  <2>5. live' \in LiveStates /\ live'.target \in Sizes
    <3>1. live' = [l EXCEPT !.mustshow = TRUE, !.mustoffer = TRUE, !.edited = TRUE]
      BY <2>4 DEF ForcedUpdate
    <3> QED BY <2>2, <2>3, <3>1 DEF LiveStates
  <2>6. Good(adj') /\ wanted' \in Originals \cup {None}
    <3>1. CASE Want(l.version, l.target) /\ UNCHANGED adj
      BY <1>1, <2>3, <3>1 DEF Want, Originals
    <3>2. CASE adj' = Ordered(adj, Order(l, l.target)) /\ UNCHANGED wanted
      <4>1. Order(l, l.target) \in Orders BY <2>2, <2>3, <1>2, <1>4, OrderTyped
      <4> QED BY <1>1, <3>2, <4>1, OrderedGood
    <3> QED BY <2>4, <3>1, <3>2 DEF ForcedUpdate
  <2> QED BY <1>1, <1>2, <1>3, <2>5, <2>6 DEF LiveInv, LiveTyped, GoodOutbox, SlideShowsOwn
<1>5. CASE UNCHANGED <<live, adj, wanted, offered>>
  BY <1>1, <1>2, <1>3, <1>5 DEF LiveInv, LiveTyped, GoodOutbox, SlideShowsOwn
<1> QED BY <1>4, <1>5 DEF Edit

LEMMA ZoomInv ==
  ASSUME LiveInv, NEW size \in Sizes, Zoom(size)
  PROVE  LiveInv'
<1>1. /\ UNCHANGED <<adj, outbox, gen, live, wanted>>
      /\ slide' = [slide EXCEPT !.desired = size]
  BY DEF Zoom, adjVars
<1>2. slide' \in SlideStates /\ slide'.img = slide.img /\ slide'.vsn = slide.vsn
  BY <1>1 DEF LiveInv, LiveTyped, SlideStates
<1> QED BY <1>1, <1>2 DEF LiveInv, LiveTyped, GoodOutbox, SlideShowsOwn

LEMMA VisitGridInv ==
  ASSUME LiveInv, VisitGrid
  PROVE  LiveInv'
<1>1. /\ UNCHANGED <<outbox, gen, wanted>> /\ adj' = Cleared(adj)
      /\ live' = [live EXCEPT !.version = None] /\ slide' = [slide EXCEPT !.img = None]
  BY DEF VisitGrid
<1>2. live' \in LiveStates /\ live'.version = None BY <1>1 DEF LiveInv, LiveTyped, LiveStates
<1>3. slide' \in SlideStates /\ slide'.img = None BY <1>1 DEF LiveInv, LiveTyped, SlideStates
<1>4. Good(adj') BY <1>1, WithdrawnGood DEF LiveInv
<1> QED BY <1>1, <1>2, <1>3, <1>4 DEF LiveInv, LiveTyped, GoodOutbox, SlideShowsOwn

LEMMA PaintInv ==
  ASSUME LiveInv, Paint
  PROVE  LiveInv'
<1>1. /\ Good(adj) /\ GoodOutbox /\ gen \in [Versions -> Gens] /\ live \in LiveStates
      /\ slide \in SlideStates /\ wanted \in Originals \cup {None} /\ SlideShowsOwn
  BY DEF LiveInv, LiveTyped
<1>2. slide.vsn \in Versions /\ slide.vsn # None /\ slide.desired \in Sizes
  BY <1>1 DEF Paint, NeedsLarger, SlideStates
<1>3. slide' \in SlideStates /\ slide'.img = slide.img /\ slide'.vsn = slide.vsn
  <2>1. slide' = [slide EXCEPT !.lastSize = slide.desired] BY DEF Paint
  <2> QED BY <1>1, <1>2, <2>1 DEF SlideStates
<1>4. PICK known \in Gens : known = IF slide.vsn # live.version THEN gen[slide.vsn] ELSE live.known
  BY <1>1, <1>2 DEF LiveStates
<1>5. live' = [live EXCEPT !.version = slide.vsn, !.target = slide.desired, !.mustshow = TRUE,
                           !.known = known]
  BY <1>4 DEF Paint
<1>6. /\ live' \in LiveStates /\ live'.target \in Sizes /\ live'.version = slide.vsn
  BY <1>1, <1>2, <1>5 DEF LiveStates
<1>7. \/ adj' \in {Cleared(Cleared(adj)), Withdrawn(adj)} /\ Want(slide.vsn, slide.desired)
      \/ adj' = Ordered(adj, Order(live', slide.desired)) /\ UNCHANGED wanted
  BY DEF Paint
<1>8. Good(adj') /\ wanted' \in Originals \cup {None}
  <2>1. CASE adj' \in {Cleared(Cleared(adj)), Withdrawn(adj)} /\ Want(slide.vsn, slide.desired)
    <3>1. Good(adj') BY <1>1, <2>1, WithdrawnGood
    <3>2. wanted' \in Originals BY <1>2, <2>1 DEF Want, Originals
    <3> QED BY <3>1, <3>2
  <2>2. CASE adj' = Ordered(adj, Order(live', slide.desired)) /\ UNCHANGED wanted
    <3>1. Order(live', slide.desired) \in Orders BY <1>2, <1>6, OrderTyped
    <3> QED BY <1>1, <2>2, <3>1, OrderedGood
  <2> QED BY <1>7, <2>1, <2>2
<1>9. UNCHANGED <<outbox, gen>> BY DEF Paint
<1> QED BY <1>1, <1>3, <1>6, <1>8, <1>9 DEF LiveInv, LiveTyped, GoodOutbox, SlideShowsOwn

\* An original that comes for another version than the current one is dropped.
LEMMA ProvideScaledOriginalInv ==
  ASSUME LiveInv, NEW size \in Sizes, ProvideScaledOriginal(size)
  PROVE  LiveInv'
<1>1. /\ Good(adj) /\ live \in LiveStates /\ (live.version # None => live.target \in Sizes)
      /\ wanted \in Originals /\ wanted' = None /\ UNCHANGED <<outbox, gen, live, slide>>
  BY DEF LiveInv, LiveTyped, ProvideScaledOriginal
<1>2. CASE wanted.v = live.version
  <2>1. PICK original : original = [v |-> wanted.v, size |-> size] OBVIOUS
  <2>2. original \in Originals /\ live.version # None
    BY <1>1, <1>2, <2>1, AdjusterAssumption DEF Originals
  <2>3. Order(live, live.target) \in Orders BY <1>1, <2>2, OrderTyped
  <2>4. adj' = Ordered(Supplied(adj, original), Order(live, live.target))
    BY <1>2, <2>1 DEF ProvideScaledOriginal
  <2>5. Good(adj') BY <1>1, <2>2, <2>3, <2>4, SuppliedGood
  <2> QED BY <1>1, <2>5 DEF LiveInv, LiveTyped, GoodOutbox, SlideShowsOwn
<1>3. CASE wanted.v # live.version
  <2>1. adj' = adj BY <1>3 DEF ProvideScaledOriginal
  <2> QED BY <1>1, <2>1 DEF LiveInv, LiveTyped, GoodOutbox, SlideShowsOwn
<1> QED BY <1>2, <1>3

LEMMA TakesFirst ==
  ASSUME NEW s \in Seq(Signals), s # <<>>
  PROVE  /\ Head(s) = s[1] /\ Head(s) \in Signals /\ 1 \in 1..Len(s) /\ Tail(s) \in Seq(Signals)
         /\ \A i \in 1..Len(Tail(s)) : i + 1 \in 1..Len(s) /\ Tail(s)[i] = s[i + 1]
  OBVIOUS

LEMMA ProvideAdjustedInv ==
  ASSUME LiveInv, ProvideAdjusted
  PROVE  LiveInv'
<1>1. /\ live \in LiveStates /\ slide \in SlideStates /\ outbox \in Seq(Signals) /\ outbox # <<>>
      /\ \A i \in 1..Len(outbox) : Own(outbox[i])
      /\ outbox' = Tail(outbox) /\ UNCHANGED <<adj, gen, wanted>> /\ SlideShowsOwn
  BY DEF LiveInv, LiveTyped, GoodOutbox, ProvideAdjusted
<1>2. PICK signal : signal = Head(outbox) OBVIOUS
<1>3. signal \in Signals /\ Own(signal) BY <1>1, <1>2, TakesFirst
<1>4. GoodOutbox' BY <1>1, TakesFirst DEF GoodOutbox
<1>5. live' \in LiveStates /\ live'.version = live.version /\ live'.target = live.target
  <2>1. live' \in {live, [live EXCEPT !.mustoffer = FALSE, !.mustshow = FALSE]}
    BY DEF ProvideAdjusted
  <2> QED BY <1>1, <2>1 DEF LiveStates
<1>6. \/ slide' = slide
      \/ /\ signal[2] = live.version /\ slide.vsn = live.version
         /\ slide' = [slide EXCEPT !.img = signal[1]]
  BY <1>2 DEF ProvideAdjusted, IsCurrent, UpdateAdjusted
<1>7. slide' \in SlideStates /\ SlideShowsOwn'
  <2>1. CASE slide' = slide BY <1>1, <2>1 DEF SlideShowsOwn
  <2>2. CASE /\ signal[2] = live.version /\ slide.vsn = live.version
             /\ slide' = [slide EXCEPT !.img = signal[1]]
    <3>1. signal[1] \in Images \cup {None} /\ (signal[1] # None => signal[1].v = slide.vsn)
      BY <1>3, <2>2 DEF Signals, Own
    <3>2. slide' \in SlideStates /\ slide'.img = signal[1] /\ slide'.vsn = slide.vsn
      BY <1>1, <2>2, <3>1 DEF SlideStates
    <3> QED BY <3>1, <3>2 DEF SlideShowsOwn
  <2> QED BY <1>6, <2>1, <2>2
<1> QED BY <1>1, <1>4, <1>5, <1>7 DEF LiveInv, LiveTyped

-----------------------------------------------------------------------------

LEMMA LiveInitInv == LiveInit => LiveInv
<1> SUFFICES ASSUME LiveInit PROVE LiveInv OBVIOUS
<1>1. 0 \in Gens /\ 1 \in Sizes BY AdjusterAssumption DEF Gens, Sizes
<1>2. adj \in AdjusterStates BY DEF LiveInit, AdjusterInit, AdjusterStates
<1>3. /\ adj.newreq = FALSE /\ adj.newOriginal = None /\ adj.held = None /\ adj.at = "woken"
  BY DEF LiveInit, AdjusterInit
<1>4. Good(adj)
  BY <1>2, <1>3 DEF Good, InterruptionIsNoticed, KnownByOriginal, IsOrdered, WorksOnOrder, SignalIsDue
<1>5. GoodOutbox BY DEF LiveInit, AdjusterInit, GoodOutbox
<1>6. LiveTyped BY <1>1 DEF LiveInit, LiveTyped, LiveStates, SlideStates
<1> QED BY <1>4, <1>5, <1>6 DEF LiveInv, LiveInit, SlideShowsOwn

LEMMA NextInv == LiveInv /\ [LiveNext]_allVars => LiveInv'
<1> SUFFICES ASSUME LiveInv, [LiveNext]_allVars PROVE LiveInv' OBVIOUS
<1>1. CASE UNCHANGED allVars
  BY <1>1 DEF allVars, adjVars, liveVars, LiveInv, LiveTyped, GoodOutbox, SlideShowsOwn
<1> QED
  BY <1>1, ShowVersionInv, EditInv, ZoomInv, VisitGridInv, PaintInv, ProvideScaledOriginalInv,
     ProvideAdjustedInv, ThreadInv
     DEF LiveNext, EventStep

(* What the adjuster, its client and the slide take to be theirs agrees. *)
THEOREM LiveInvariant == LiveSpec => []LiveInv
<1> QED BY LiveInitInv, NextInv, PTL DEF LiveSpec

(* handleNewRequest never announces what AllAdjuster returns when it is
   interrupted: whoever interrupts it leaves a request or a cancel behind. *)
THEOREM NothingInterruptedIsShown == LiveSpec => []InterruptedIsDiscarded
<1>1. LiveInv => InterruptedIsDiscarded
  BY DEF LiveInv, Good, SignalIsDue, InterruptedIsDiscarded
<1> QED BY <1>1, LiveInvariant, PTL

(* The slide never shows a picture of another version than its own, though
   originals, orders and results of several versions are under way. *)
THEOREM EachSlideIsItsOwn == LiveSpec => []SlideShowsOwn
<1>1. LiveInv => SlideShowsOwn BY DEF LiveInv
<1> QED BY <1>1, LiveInvariant, PTL

-----------------------------------------------------------------------------
(* The database *)

USE ThreadsAssumption

\* Who holds the mutex is at work, or waits for it once more.
HolderInv ==
  /\ \A t \in Threads : task[t].at = "holds" => locked = t
  /\ locked # Nobody => task[locked].at # "rest"
  /\ \A t \in Threads : task[t].at # "rest" => task[t].conn \in Threads

\* A transaction is under way only on the connection for which the mutex is
\* held, and only there has something been written and not committed.
TransactionInv ==
  /\ \A c \in begun : locked # Nobody /\ task[locked].whole /\ task[locked].conn = c
  /\ writer # Nobody => writer \in begun

\* What a connection has read binds it while a select is open or during a
\* transaction, and who waits for the mutex has no select open.
ReadingInv ==
  /\ seen \subseteq open \cup begun
  /\ \A t \in Threads : task[t].at = "waits" => t \notin open \/ locked = t

\* The holder of the mutex sees the database as it is.
FreshInv == ~ meddled /\ locked # Nobody => locked \notin stale

IInv ==
  /\ TypeOK /\ HolderInv /\ TransactionInv /\ ReadingInv
  /\ FreshInv /\ StatementsSucceed

-----------------------------------------------------------------------------

LEMMA RestIsTask == Rest \in Tasks
  BY DEF Rest, Tasks

LEMMA InitInv == Init => IInv
  <1> SUFFICES ASSUME Init PROVE IInv
    OBVIOUS
  <1>1. TypeOK
    BY RestIsTask DEF Init, TypeOK
  <1>2. HolderInv
    BY DEF Init, HolderInv, Rest
  <1>3. TransactionInv /\ FreshInv /\ StatementsSucceed
    BY DEF Init, TransactionInv, FreshInv, StatementsSucceed
  <1>4. ReadingInv
    BY DEF Init, ReadingInv, Rest
  <1>. QED
    BY <1>1, <1>2, <1>3, <1>4 DEF IInv

\* What is known when the mutex is free: no transaction is under way, and who
\* has nothing open is bound by nothing.
LEMMA FreeMutex ==
  ASSUME IInv, locked = Nobody
  PROVE  /\ begun = {} /\ writer = Nobody
         /\ \A t \in Threads : t \notin open => t \notin seen /\ t \notin stale
  BY DEF IInv, TypeOK, TransactionInv, ReadingInv

LEMMA StepInv ==
  ASSUME IInv, [Next]_vars
  PROVE  IInv'
  <1> USE DEF IInv
  <1>1. ASSUME NEW t \in Threads, ConstQuery(t) PROVE IInv'
    BY <1>1 DEF ConstQuery, Runs, TypeOK, HolderInv, TransactionInv, ReadingInv, FreshInv, StatementsSucceed
  <1>2. ASSUME NEW t \in Threads, Finish(t) PROVE IInv'
    BY <1>2 DEF Finish, Runs, TypeOK, HolderInv, TransactionInv, ReadingInv, FreshInv, StatementsSucceed
  <1>3. ASSUME NEW t \in Threads, Query(t) PROVE IInv'
    BY <1>3 DEF Query, Fails, Writes, Holds, TypeOK, HolderInv, TransactionInv, ReadingInv, FreshInv, StatementsSucceed
  <1>4. CASE MarkAllSeen
    BY <1>4, FreeMutex DEF MarkAllSeen, Fails, Writes, Rests, TypeOK, HolderInv, TransactionInv, ReadingInv, FreshInv, StatementsSucceed
  <1>5. ASSUME NEW t \in Threads, NEW whole \in BOOLEAN, NEW c \in Threads, Ask(t, whole, c) PROVE IInv'
    BY <1>5 DEF Ask, Rests, Tasks, TypeOK, HolderInv, TransactionInv, ReadingInv, FreshInv, StatementsSucceed
  <1>6. CASE ApplyClipboard
    BY <1>6 DEF ApplyClipboard, Holds, Tasks, TypeOK, HolderInv, TransactionInv, ReadingInv, FreshInv, StatementsSucceed
  <1>7. ASSUME NEW t \in Threads, LockForWriting(t) PROVE IInv'
    <2>1. /\ begun = {} /\ writer = Nobody /\ t \notin open /\ t \notin stale
          /\ task[t].conn \in Threads /\ task[t] \in Tasks
      BY <1>7, FreeMutex DEF LockForWriting, TypeOK, HolderInv, ReadingInv
    <2>2. \A s \in Threads :
            task'[s] = IF s = t THEN [task[t] EXCEPT !.at = "holds"] ELSE task[s]
      BY <1>7 DEF LockForWriting, TypeOK
    <2>3. [task[t] EXCEPT !.at = "holds"] =
            [at |-> "holds", whole |-> task[t].whole, conn |-> task[t].conn]
      BY <2>1 DEF Tasks
    <2>4. /\ up' = up
          /\ begun' = IF task[t].whole THEN {task[t].conn} ELSE {}
      BY <1>7, <2>1 DEF LockForWriting, Begin
    <2>5. TypeOK'
      BY <1>7, <2>1, <2>3, <2>4 DEF LockForWriting, TypeOK, Tasks
    <2>6. HolderInv'
      BY <1>7, <2>1, <2>2, <2>3 DEF LockForWriting, HolderInv
    <2>7. TransactionInv'
      BY <1>7, <2>1, <2>2, <2>3, <2>4 DEF LockForWriting, TransactionInv
    <2>8. ReadingInv'
      BY <1>7, <2>1, <2>2, <2>3, <2>4 DEF LockForWriting, ReadingInv
    <2>9. FreshInv' /\ StatementsSucceed'
      BY <1>7, <2>1, <2>4 DEF LockForWriting, FreshInv, StatementsSucceed
    <2>. QED
      BY <2>5, <2>6, <2>7, <2>8, <2>9
  <1>8. ASSUME NEW t \in Threads, UnlockForWriting(t) PROVE IInv'
    BY <1>8, RestIsTask DEF UnlockForWriting, Holds, Rest, TypeOK, HolderInv, TransactionInv, ReadingInv, FreshInv, StatementsSucceed
  <1>9. ASSUME NEW t \in Threads, Commit(t) \/ Rollback(t) PROVE IInv'
    <2>1. /\ locked = t /\ task[t].whole
          /\ locked' = Nobody
          /\ task' = [task EXCEPT ![t] = Rest]
          /\ UNCHANGED <<up, open, meddled>>
      BY <1>9 DEF Commit, Rollback, Holds, HolderInv
    <2>2. PICK committed \in BOOLEAN : Ends(task[t].conn, committed)
      BY <1>9 DEF Commit, Rollback
    <2>3. \A s \in Threads : task'[s] = IF s = t THEN Rest ELSE task[s]
      BY <2>1 DEF TypeOK
    <2>4. begun' = {} /\ writer' = Nobody
      BY <2>1, <2>2 DEF Ends, TypeOK, TransactionInv
    <2>5. /\ stale' \subseteq seen' /\ seen' \subseteq seen /\ seen' \subseteq open
      BY <2>1, <2>2 DEF Ends, TypeOK, TransactionInv, ReadingInv
    <2>6. TypeOK'
      BY <2>1, <2>4, <2>5, RestIsTask DEF TypeOK
    <2>7. HolderInv'
      BY <2>1, <2>3 DEF HolderInv, Rest
    <2>8. TransactionInv' /\ FreshInv' /\ StatementsSucceed'
      BY <2>1, <2>4 DEF TransactionInv, FreshInv, StatementsSucceed
    <2>9. ReadingInv'
      BY <2>1, <2>3, <2>5 DEF ReadingInv, Rest
    <2>. QED
      BY <2>6, <2>7, <2>8, <2>9
  <1>10. CASE UNCHANGED vars
    BY <1>10 DEF vars, TypeOK, HolderInv, TransactionInv, ReadingInv, FreshInv, StatementsSucceed
  <1>. QED
    BY <1>1, <1>2, <1>3, <1>4, <1>5, <1>6, <1>7, <1>8, <1>9, <1>10
    DEF Next, DBWriteLock, Transaction, AddTree, Releases

\* No write fails because its connection is bound to what it has read, and no
\* transaction begins within another, for any number of threads that read as
\* they please; only a write without the mutex can bring that about.
THEOREM NoStatementFails == Spec => []StatementsSucceed
  <1>1. IInv /\ [Next]_vars => IInv'
    BY StepInv
  <1>2. IInv => StatementsSucceed
    BY DEF IInv
  <1>. QED
    BY InitInv, <1>1, <1>2, PTL DEF Spec
=============================================================================
