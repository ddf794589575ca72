------------------------ MODULE OriginalFinderProofs ------------------------
(***************************************************************************)
(* Only complete images of the right file are announced and provided, for  *)
(* any number of readers, files, versions and chunks, as long as the user  *)
(* does not quit while a reader is at work (the derived destructor deletes *)
(* the source that the thread uses).                                       *)
(***************************************************************************)
EXTENDS OriginalFinder, TLAPS

\* What a signal says.
Genuine(sig) == sig.type = "ready" => sig.img.rq.fn = sig.fn /\ ~sig.img.cut

\* A process is killed only when its output is no longer wanted, and the thread
\* is told so before it takes the output: at its next turn it drops what it has.
CutIsUnwanted(s) ==
  s.running /\ s.cut =>
    s.at \in {"open", "stopped"} /\ (s.newreq # None \/ s.canceling)

\* What the thread works on while it is running, and what it keeps afterwards.
WorksOnCurrent(s) ==
  /\ s.running => s.current # None /\ s.src = s.current
  /\ s.res # None => ~s.running /\ s.current # None /\ s.res = [rq |-> s.current, cut |-> FALSE]

\* Where the thread is tells whether it is running, and whether a signal is due.
PlaceOfThread(s) ==
  /\ s.at \in {"open", "read", "close", "decode"} => s.running
  /\ s.at \in {"woken", "wait", "emit"} => ~s.running
  /\ s.at = "emit" => s.sig \in Signals /\ Genuine(s.sig)
  /\ s.at # "emit" => s.sig = None

\* A reader that is deleted has nothing to do.
DeletedAtRest(s) == s.dying => ~s.running /\ s.newreq = None

Good(s) ==
  /\ s \in ReaderStates
  /\ CutIsUnwanted(s) /\ WorksOnCurrent(s) /\ PlaceOfThread(s) /\ DeletedAtRest(s)

GoodInbox ==
  /\ inbox \in Seq(Readers \X Signals)
  /\ \A i \in 1..Len(inbox) : Genuine(inbox[i][2])

ReaderInv == rd \in [Readers -> ReaderStates] /\ (\A r \in Readers : Good(rd[r])) /\ GoodInbox

-----------------------------------------------------------------------------
(* Calls *)

(* Killing the process leaves a reader good that has been told to drop the
   result. *)
LEMMA AbortGood ==
  ASSUME NEW r, NEW s \in ReaderStates,
         WorksOnCurrent(s), PlaceOfThread(s), DeletedAtRest(s),
         s.running /\ s.cut => s.at \in {"open", "stopped"},
         s.newreq # None \/ s.canceling
  PROVE  Good(Abort(r, s))
<1>1. PICK t : t = Abort(r, s) OBVIOUS
<1>2. t = [s EXCEPT !.cut = s.cut \/ (r \in Raw /\ s.at = "open")] BY <1>1 DEF Abort
<1>3. t \in ReaderStates BY <1>2 DEF ReaderStates
<1>4. CutIsUnwanted(t) BY <1>2 DEF ReaderStates, CutIsUnwanted
<1>5. WorksOnCurrent(t) BY <1>2 DEF ReaderStates, WorksOnCurrent
<1>6. PlaceOfThread(t) BY <1>2 DEF ReaderStates, PlaceOfThread
<1>7. DeletedAtRest(t) BY <1>2 DEF ReaderStates, DeletedAtRest
<1> QED BY <1>1, <1>3, <1>4, <1>5, <1>6, <1>7 DEF Good

(* So does waking it. *)
LEMMA WakeGood ==
  ASSUME NEW s, Good(s)
  PROVE  Good(Wake(s))
<1>1. CASE s.at # "wait" BY <1>1 DEF Wake
<1>2. CASE s.at = "wait"
  <2>1. PICK t : t = Wake(s) OBVIOUS
  <2>2. t = [s EXCEPT !.at = "woken"] BY <1>2, <2>1 DEF Wake
  <2>3. s \in ReaderStates BY DEF Good
  <2>4. t \in ReaderStates BY <2>2, <2>3 DEF ReaderStates
  <2>5. CutIsUnwanted(t) BY <1>2, <2>2, <2>3 DEF ReaderStates, CutIsUnwanted, Good, PlaceOfThread
  <2>6. WorksOnCurrent(t) BY <2>2, <2>3 DEF ReaderStates, WorksOnCurrent, Good
  <2>7. PlaceOfThread(t) BY <1>2, <2>2, <2>3 DEF ReaderStates, PlaceOfThread, Good
  <2>8. DeletedAtRest(t) BY <2>2, <2>3 DEF ReaderStates, DeletedAtRest, Good
  <2> QED BY <2>1, <2>4, <2>5, <2>6, <2>7, <2>8 DEF Good
<1> QED BY <1>1, <1>2

(* A request to a reader that is not being deleted. *)
LEMMA RequestedGood ==
  ASSUME NEW r, NEW s, Good(s), NEW rq \in Requests, ~s.dying
  PROVE  Good(Requested(r, s, rq))
<1>1. CASE AtHand(s, rq) \/ UnderWay(s, rq) BY <1>1 DEF Requested
<1>2. CASE ~(AtHand(s, rq) \/ UnderWay(s, rq)) /\ s.running
  <2>1. PICK t : t = [s EXCEPT !.newreq = rq] OBVIOUS
  <2>2. s \in ReaderStates BY DEF Good
  <2>3. rq # None BY ReaderAssumption
  <2>4. t \in ReaderStates BY <2>1, <2>2 DEF ReaderStates
  <2>5. WorksOnCurrent(t) BY <2>1, <2>2 DEF ReaderStates, WorksOnCurrent, Good
  <2>6. PlaceOfThread(t) BY <2>1, <2>2 DEF ReaderStates, PlaceOfThread, Good
  <2>7. DeletedAtRest(t) BY <2>1, <2>2 DEF ReaderStates, DeletedAtRest
  <2>8. t.running /\ t.cut => t.at \in {"open", "stopped"}
    BY <2>1, <2>2 DEF ReaderStates, Good, CutIsUnwanted
  <2>9. t.newreq # None BY <2>1, <2>2, <2>3 DEF ReaderStates
  <2>10. Good(Abort(r, t)) BY <2>4, <2>5, <2>6, <2>7, <2>8, <2>9, AbortGood
  <2> QED BY <1>2, <2>1, <2>10 DEF Requested
<1>3. CASE ~(AtHand(s, rq) \/ UnderWay(s, rq)) /\ ~s.running
  <2>1. PICK t : t = [s EXCEPT !.newreq = rq, !.res = None] OBVIOUS
  <2>2. s \in ReaderStates BY DEF Good
  <2>3. t \in ReaderStates BY <2>1, <2>2 DEF ReaderStates
  <2>4. CutIsUnwanted(t) BY <1>3, <2>1, <2>2 DEF ReaderStates, CutIsUnwanted
  <2>5. WorksOnCurrent(t) BY <1>3, <2>1, <2>2 DEF ReaderStates, WorksOnCurrent
  <2>6. PlaceOfThread(t) BY <2>1, <2>2 DEF ReaderStates, PlaceOfThread, Good
  <2>7. DeletedAtRest(t) BY <2>1, <2>2 DEF ReaderStates, DeletedAtRest
  <2>8. Good(Wake(t)) BY <2>3, <2>4, <2>5, <2>6, <2>7, WakeGood DEF Good
  <2> QED BY <1>3, <2>1, <2>8 DEF Requested
<1> QED BY <1>1, <1>2, <1>3

(* The other readers are canceled. *)
LEMMA CanceledGood ==
  ASSUME NEW r, NEW s, Good(s)
  PROVE  Good(CanceledAll(r, s))
<1>1. PICK u : u = [s EXCEPT !.newreq = None] OBVIOUS
<1>2. s \in ReaderStates BY DEF Good
<1>3. u \in ReaderStates BY <1>1, <1>2 DEF ReaderStates
<1>4. u.running = s.running BY <1>1, <1>2 DEF ReaderStates
<1>5. CASE s.running
  <2>1. PICK t : t = [u EXCEPT !.canceling = TRUE] OBVIOUS
  <2>2. t = [s EXCEPT !.newreq = None, !.canceling = TRUE] BY <1>1, <1>2, <2>1 DEF ReaderStates
  <2>3. t \in ReaderStates BY <1>2, <2>2 DEF ReaderStates
  <2>4. WorksOnCurrent(t) BY <2>2, <1>2 DEF ReaderStates, WorksOnCurrent, Good
  <2>5. PlaceOfThread(t) BY <2>2, <1>2 DEF ReaderStates, PlaceOfThread, Good
  <2>6. DeletedAtRest(t) BY <2>2, <1>2 DEF ReaderStates, DeletedAtRest, Good
  <2>7. t.running /\ t.cut => t.at \in {"open", "stopped"}
    BY <2>2, <1>2 DEF ReaderStates, Good, CutIsUnwanted
  <2>8. t.canceling BY <2>2, <1>2 DEF ReaderStates
  <2>9. Good(Abort(r, t)) BY <2>3, <2>4, <2>5, <2>6, <2>7, <2>8, AbortGood
  <2> QED BY <1>1, <1>4, <1>5, <2>1, <2>9 DEF CanceledAll, CancelCurrent
<1>6. CASE ~s.running
  <2>1. PICK t : t = [u EXCEPT !.res = None] OBVIOUS
  <2>2. t = [s EXCEPT !.newreq = None, !.res = None] BY <1>1, <1>2, <2>1 DEF ReaderStates
  <2>3. t \in ReaderStates BY <1>2, <2>2 DEF ReaderStates
  <2>4. CutIsUnwanted(t) BY <1>6, <2>2, <1>2 DEF ReaderStates, CutIsUnwanted
  <2>5. WorksOnCurrent(t) BY <1>6, <2>2, <1>2 DEF ReaderStates, WorksOnCurrent
  <2>6. PlaceOfThread(t) BY <2>2, <1>2 DEF ReaderStates, PlaceOfThread, Good
  <2>7. DeletedAtRest(t) BY <1>6, <2>2, <1>2 DEF ReaderStates, DeletedAtRest
  <2>8. Good(t) BY <2>3, <2>4, <2>5, <2>6, <2>7 DEF Good
  <2> QED BY <1>1, <1>4, <1>6, <2>1, <2>8 DEF CanceledAll, CancelCurrent
<1> QED BY <1>5, <1>6

(* The base class tells a reader to stop. *)
LEMMA StoppedGood ==
  ASSUME NEW s, Good(s)
  PROVE  Good(Stopped(s))
<1>1. PICK t : t = [s EXCEPT !.stopsoon = TRUE] OBVIOUS
<1>2. s \in ReaderStates BY DEF Good
<1>3. t \in ReaderStates BY <1>1, <1>2 DEF ReaderStates
<1>4. CutIsUnwanted(t) BY <1>1, <1>2 DEF ReaderStates, CutIsUnwanted, Good
<1>5. WorksOnCurrent(t) BY <1>1, <1>2 DEF ReaderStates, WorksOnCurrent, Good
<1>6. PlaceOfThread(t) BY <1>1, <1>2 DEF ReaderStates, PlaceOfThread, Good
<1>7. DeletedAtRest(t) BY <1>1, <1>2 DEF ReaderStates, DeletedAtRest, Good
<1> QED BY <1>1, <1>3, <1>4, <1>5, <1>6, <1>7, WakeGood DEF Good, Stopped

(* The derived class deletes the source of a reader that has nothing to do. *)
LEMMA DeletedGood ==
  ASSUME NEW s, Good(s), Idle(s)
  PROVE  Good([s EXCEPT !.dying = TRUE, !.src = None])
<1>1. PICK t : t = [s EXCEPT !.dying = TRUE, !.src = None] OBVIOUS
<1>2. s \in ReaderStates BY DEF Good
<1>3. t \in ReaderStates BY <1>1, <1>2 DEF ReaderStates
<1>4. CutIsUnwanted(t) BY <1>1, <1>2 DEF ReaderStates, CutIsUnwanted, Idle
<1>5. WorksOnCurrent(t) BY <1>1, <1>2 DEF ReaderStates, WorksOnCurrent, Good, Idle
<1>6. PlaceOfThread(t) BY <1>1, <1>2 DEF ReaderStates, PlaceOfThread, Good
<1>7. DeletedAtRest(t) BY <1>1, <1>2 DEF ReaderStates, DeletedAtRest, Idle
<1> QED BY <1>1, <1>3, <1>4, <1>5, <1>6, <1>7 DEF Good

-----------------------------------------------------------------------------
(* The thread *)

(* Whatever the thread has just done, its loop leaves the reader good: what a
   killed process produced is dropped, and a deleted reader takes up nothing. *)
LEMMA LoopGood ==
  ASSUME NEW s \in ReaderStates,
         WorksOnCurrent(s), DeletedAtRest(s), s.sig = None,
         s.running /\ s.cut => s.newreq # None \/ s.canceling
  PROVE  Good(Loop(s)) /\ Loop(s).sig = None
<1>1. CASE s.stopsoon
  <2>1. PICK t : t = [s EXCEPT !.at = "stopped"] OBVIOUS
  <2>2. t \in ReaderStates BY <2>1 DEF ReaderStates
  <2>3. CutIsUnwanted(t) BY <2>1 DEF ReaderStates, CutIsUnwanted
  <2>4. WorksOnCurrent(t) BY <2>1 DEF ReaderStates, WorksOnCurrent
  <2>5. PlaceOfThread(t) /\ t.sig = None BY <2>1 DEF ReaderStates, PlaceOfThread
  <2>6. DeletedAtRest(t) BY <2>1 DEF ReaderStates, DeletedAtRest
  <2> QED BY <1>1, <2>1, <2>2, <2>3, <2>4, <2>5, <2>6 DEF Good, Loop
<1>2. CASE ~s.stopsoon /\ s.newreq # None
  <2>1. PICK t : t = LNewReq(s) OBVIOUS
  <2>2. t = [s EXCEPT !.res = None, !.current = s.newreq, !.newreq = None,
                      !.canceling = FALSE, !.running = TRUE, !.src = s.newreq,
                      !.cut = FALSE, !.at = "open"]
    BY <2>1 DEF LNewReq
  <2>3. t \in ReaderStates BY <2>2 DEF ReaderStates
  <2>4. CutIsUnwanted(t) BY <2>2 DEF ReaderStates, CutIsUnwanted
  <2>5. WorksOnCurrent(t) BY <1>2, <2>2 DEF ReaderStates, WorksOnCurrent
  <2>6. PlaceOfThread(t) /\ t.sig = None BY <2>2 DEF ReaderStates, PlaceOfThread
  <2>7. DeletedAtRest(t) BY <1>2, <2>2 DEF ReaderStates, DeletedAtRest
  <2> QED BY <1>2, <2>1, <2>3, <2>4, <2>5, <2>6, <2>7 DEF Good, Loop
<1>3. CASE ~s.stopsoon /\ s.newreq = None /\ s.canceling
  <2>1. PICK t : t = LCancel(s) OBVIOUS
  <2>2. t = [s EXCEPT !.current = None, !.res = None, !.canceling = FALSE,
                      !.running = FALSE, !.src = None, !.at = "wait"]
    BY <2>1 DEF LCancel
  <2>3. t \in ReaderStates BY <2>2 DEF ReaderStates
  <2>4. CutIsUnwanted(t) BY <2>2 DEF ReaderStates, CutIsUnwanted
  <2>5. WorksOnCurrent(t) BY <2>2 DEF ReaderStates, WorksOnCurrent
  <2>6. PlaceOfThread(t) /\ t.sig = None BY <2>2 DEF ReaderStates, PlaceOfThread
  <2>7. DeletedAtRest(t) BY <1>3, <2>2 DEF ReaderStates, DeletedAtRest
  <2> QED BY <1>3, <2>1, <2>3, <2>4, <2>5, <2>6, <2>7 DEF Good, Loop
<1>4. CASE ~s.stopsoon /\ s.newreq = None /\ ~s.canceling
  <2>1. PICK t : t = [s EXCEPT !.at = IF s.running THEN "read" ELSE "wait"] OBVIOUS
  <2>2. t \in ReaderStates BY <2>1 DEF ReaderStates
  <2>3. CutIsUnwanted(t) BY <1>4, <2>1 DEF ReaderStates, CutIsUnwanted
  <2>4. WorksOnCurrent(t) BY <2>1 DEF ReaderStates, WorksOnCurrent
  <2>5. PlaceOfThread(t) /\ t.sig = None BY <2>1 DEF ReaderStates, PlaceOfThread
  <2>6. DeletedAtRest(t) BY <2>1 DEF ReaderStates, DeletedAtRest
  <2> QED BY <1>4, <2>1, <2>2, <2>3, <2>4, <2>5, <2>6 DEF Good, Loop
<1> QED BY <1>1, <1>2, <1>3, <1>4

(* Giving up on a canceled image. *)
LEMMA GiveUpGood ==
  ASSUME NEW s, Good(s), s.at \in {"close", "decode"}
  PROVE  Good(GiveUp(s)) /\ GiveUp(s).sig = None
<1>1. PICK t : t = LCancel(s) OBVIOUS
<1>2. t = [s EXCEPT !.current = None, !.res = None, !.canceling = FALSE,
                    !.running = FALSE, !.src = None, !.at = "wait"]
  BY <1>1 DEF LCancel
<1>3. s \in ReaderStates /\ s.sig = None BY DEF Good, PlaceOfThread
<1>4. t \in ReaderStates BY <1>2, <1>3 DEF ReaderStates
<1>5. WorksOnCurrent(t) BY <1>2, <1>3 DEF ReaderStates, WorksOnCurrent
<1>6. DeletedAtRest(t) BY <1>2, <1>3 DEF ReaderStates, DeletedAtRest, Good
<1>7. t.sig = None /\ ~t.running BY <1>2, <1>3 DEF ReaderStates
<1> QED BY <1>1, <1>4, <1>5, <1>6, <1>7, LoopGood DEF GiveUp

(* Opening or reading fails. *)
LEMMA FailGood ==
  ASSUME NEW s, Good(s), s.at \in {"open", "read"}
  PROVE  Good(Fail(s)) /\ Fail(s).sig.type = "failed"
<1>1. s \in ReaderStates /\ s.current \in Requests
  BY DEF Good, PlaceOfThread, WorksOnCurrent, ReaderStates
<1>2. PICK g : g = [type |-> "failed", fn |-> s.current.fn] OBVIOUS
<1>3. g \in Signals /\ Genuine(g) /\ g.type = "failed"
  BY <1>1, <1>2 DEF Signals, Genuine, Requests
<1>4. PICK t : t = Fail(s) OBVIOUS
<1>5. t = [s EXCEPT !.res = None, !.running = FALSE, !.src = None, !.at = "emit", !.sig = g]
  BY <1>2, <1>4 DEF Fail
<1>6. t \in ReaderStates BY <1>1, <1>3, <1>5 DEF ReaderStates
<1>7. CutIsUnwanted(t) BY <1>1, <1>5 DEF ReaderStates, CutIsUnwanted
<1>8. WorksOnCurrent(t) BY <1>1, <1>5 DEF ReaderStates, WorksOnCurrent
<1>9. PlaceOfThread(t) /\ t.sig = g BY <1>1, <1>3, <1>5 DEF ReaderStates, PlaceOfThread
<1>10. DeletedAtRest(t) BY <1>1, <1>5 DEF ReaderStates, DeletedAtRest, Good
<1> QED BY <1>3, <1>4, <1>6, <1>7, <1>8, <1>9, <1>10 DEF Good

(* Decoding comes to its end: what it yields is complete and is of the file
   that the thread works on. *)
LEMMA FinishGood ==
  ASSUME NEW s, Good(s), s.at = "decode"
  PROVE  Good(Finish(s)) /\ (s.canceling => Finish(s).sig = None)
<1>1. s \in ReaderStates /\ s.current \in Requests /\ s.src = s.current /\ s.cut = FALSE
  BY DEF Good, PlaceOfThread, WorksOnCurrent, CutIsUnwanted, ReaderStates
<1>2. CASE s.canceling BY <1>2, GiveUpGood DEF Finish
<1>3. CASE ~s.canceling
  <2>1. PICK img : img = [rq |-> s.current, cut |-> FALSE] OBVIOUS
  <2>2. PICK g : g = [type |-> "ready", fn |-> s.current.fn, img |-> img] OBVIOUS
  <2>3. img \in [rq : Requests, cut : BOOLEAN] BY <1>1, <2>1
  <2>4. s.current.fn \in Files BY <1>1 DEF Requests
  <2>5. g \in Signals BY <2>2, <2>3, <2>4 DEF Signals
  <2>6. Genuine(g) BY <2>1, <2>2 DEF Genuine
  <2>7. PICK t : t = Finish(s) OBVIOUS
  <2>8. t = [s EXCEPT !.res = img, !.running = FALSE, !.src = None, !.at = "emit", !.sig = g]
    BY <1>1, <1>3, <2>1, <2>2, <2>7 DEF Finish
  <2>9. t \in ReaderStates BY <1>1, <2>3, <2>5, <2>8 DEF ReaderStates
  <2>10. CutIsUnwanted(t) BY <1>1, <2>8 DEF ReaderStates, CutIsUnwanted
  <2>11. t.running = FALSE /\ t.res = img /\ t.current = s.current
    BY <1>1, <2>8 DEF ReaderStates
  <2>12. WorksOnCurrent(t) BY <1>1, <2>1, <2>11, ReaderAssumption DEF WorksOnCurrent
  <2>13. PlaceOfThread(t) BY <1>1, <2>5, <2>6, <2>8 DEF ReaderStates, PlaceOfThread
  <2>14. DeletedAtRest(t) BY <1>1, <2>8 DEF ReaderStates, DeletedAtRest, Good
  <2> QED BY <1>3, <2>7, <2>9, <2>10, <2>12, <2>13, <2>14 DEF Good
<1> QED BY <1>2, <1>3

(* Where the thread goes on without its loop. *)
LEMMA GoesOnGood ==
  ASSUME NEW s, Good(s), NEW at \in {"close", "decode"}, s.at \in {"read", "close"}
  PROVE  Good([s EXCEPT !.at = at]) /\ [s EXCEPT !.at = at].sig = None
<1>1. PICK t : t = [s EXCEPT !.at = at] OBVIOUS
<1>2. s \in ReaderStates BY DEF Good
<1>3. t \in ReaderStates BY <1>1, <1>2 DEF ReaderStates
<1>4. CutIsUnwanted(t) BY <1>1, <1>2 DEF ReaderStates, CutIsUnwanted, Good
<1>5. WorksOnCurrent(t) BY <1>1, <1>2 DEF ReaderStates, WorksOnCurrent, Good
<1>6. PlaceOfThread(t) /\ t.sig = None BY <1>1, <1>2 DEF ReaderStates, PlaceOfThread, Good
<1>7. DeletedAtRest(t) BY <1>1, <1>2 DEF ReaderStates, DeletedAtRest, Good
<1> QED BY <1>1, <1>3, <1>4, <1>5, <1>6, <1>7 DEF Good

(* The signal has been emitted. *)
LEMMA EmittedGood ==
  ASSUME NEW s, Good(s), s.at = "emit"
  PROVE  Good([s EXCEPT !.at = "woken", !.sig = None])
<1>1. PICK t : t = [s EXCEPT !.at = "woken", !.sig = None] OBVIOUS
<1>2. s \in ReaderStates BY DEF Good
<1>3. t \in ReaderStates BY <1>1, <1>2 DEF ReaderStates
<1>4. CutIsUnwanted(t) BY <1>1, <1>2 DEF ReaderStates, CutIsUnwanted, Good, PlaceOfThread
<1>5. WorksOnCurrent(t) BY <1>1, <1>2 DEF ReaderStates, WorksOnCurrent, Good
<1>6. PlaceOfThread(t) BY <1>1, <1>2 DEF ReaderStates, PlaceOfThread, Good
<1>7. DeletedAtRest(t) BY <1>1, <1>2 DEF ReaderStates, DeletedAtRest, Good
<1> QED BY <1>1, <1>3, <1>4, <1>5, <1>6, <1>7 DEF Good

(* A step of a thread between two releases of the mutex leaves its reader good;
   one that is being canceled has no image to announce. *)
LEMMA ThreadGood ==
  ASSUME rd \in [Readers -> ReaderStates], NEW r \in Readers, Good(rd[r]),
         Wakeup(r) \/ Open(r) \/ Read(r) \/ Close(r) \/ Decode(r)
  PROVE  \E t : /\ Step(r, t) /\ Good(t)
                /\ rd[r].canceling => t.sig = None \/ t.sig.type = "failed"
<1> DEFINE s == rd[r]
           Result(t) == /\ Good(t)
                        /\ s.canceling => t.sig = None \/ t.sig.type = "failed"
<1>1. s \in ReaderStates BY DEF Good
<1>2. SUFFICES \E t : Step(r, t) /\ Result(t) OBVIOUS
<1>3. ASSUME Wakeup(r) PROVE \E t : Step(r, t) /\ Result(t)
  <2>1. s.at = "woken" BY <1>3 DEF Wakeup
  <2>2. s.sig = None /\ ~s.running BY <2>1 DEF Good, PlaceOfThread
  <2>3. Result(Loop(s)) BY <1>1, <2>2, LoopGood DEF Good
  <2> QED BY <1>3, <2>3 DEF Wakeup
<1>4. ASSUME Open(r) PROVE \E t : Step(r, t) /\ Result(t)
  <2>1. s.at = "open" BY <1>4 DEF Open
  <2>2. ASSUME NEW n \in 0..Chunks PROVE Result(Loop([s EXCEPT !.left = n]))
    <3>1. PICK u : u = [s EXCEPT !.left = n] OBVIOUS
    <3>2. u \in ReaderStates BY <1>1, <3>1 DEF ReaderStates
    <3>3. WorksOnCurrent(u) BY <1>1, <3>1 DEF ReaderStates, WorksOnCurrent, Good
    <3>4. DeletedAtRest(u) BY <1>1, <3>1 DEF ReaderStates, DeletedAtRest, Good
    <3>5. u.sig = None BY <1>1, <2>1, <3>1 DEF ReaderStates, PlaceOfThread, Good
    <3>6. u.running /\ u.cut => u.newreq # None \/ u.canceling
      BY <1>1, <3>1 DEF ReaderStates, CutIsUnwanted, Good
    <3> QED BY <3>1, <3>2, <3>3, <3>4, <3>5, <3>6, LoopGood
  <2>3. Result(Fail(s)) BY <2>1, FailGood
  <2> QED BY <1>4, <2>2, <2>3 DEF Open
<1>5. ASSUME Read(r) PROVE \E t : Step(r, t) /\ Result(t)
  <2>1. s.at = "read" BY <1>5 DEF Read
  <2>2. ASSUME s.left > 0 PROVE Result(Loop([s EXCEPT !.left = @ - 1]))
    <3>1. PICK u : u = [s EXCEPT !.left = s.left - 1] OBVIOUS
    <3>2. s.left - 1 \in 0..Chunks BY <1>1, <2>2, ReaderAssumption DEF ReaderStates
    <3>3. u \in ReaderStates BY <1>1, <3>1, <3>2 DEF ReaderStates
    <3>4. WorksOnCurrent(u) BY <1>1, <3>1 DEF ReaderStates, WorksOnCurrent, Good
    <3>5. DeletedAtRest(u) BY <1>1, <3>1 DEF ReaderStates, DeletedAtRest, Good
    <3>6. u.sig = None BY <1>1, <2>1, <3>1 DEF ReaderStates, PlaceOfThread, Good
    <3>7. u.running /\ u.cut => u.newreq # None \/ u.canceling
      BY <1>1, <3>1 DEF ReaderStates, CutIsUnwanted, Good
    <3> QED BY <3>1, <3>3, <3>4, <3>5, <3>6, <3>7, LoopGood
  <2>3. Result([s EXCEPT !.at = "close"]) BY <2>1, GoesOnGood
  <2>4. Result(Fail(s)) BY <2>1, FailGood
  <2> QED BY <1>5, <2>2, <2>3, <2>4 DEF Read
<1>6. ASSUME Close(r) PROVE \E t : Step(r, t) /\ Result(t)
  <2>1. s.at = "close" BY <1>6 DEF Close
  <2>2. Result(GiveUp(s)) BY <2>1, GiveUpGood
  <2>3. Result([s EXCEPT !.at = "decode"]) BY <2>1, GoesOnGood
  <2> QED BY <1>6, <2>2, <2>3 DEF Close
<1>7. ASSUME Decode(r) PROVE \E t : Step(r, t) /\ Result(t)
  <2>1. s.at = "decode" BY <1>7 DEF Decode
  <2>2. Result(Finish(s)) BY <2>1, FinishGood
  <2> QED BY <1>7, <2>2 DEF Decode
<1> QED BY <1>3, <1>4, <1>5, <1>6, <1>7

-----------------------------------------------------------------------------
(* The finder *)

\* The finder looks for the file of the version it has been asked for, and what
\* it has provided is of that file.
FinderInv ==
  /\ ReaderInv
  /\ version = None \/ version \in Versions
  /\ filepath = IF version = None THEN None ELSE FileOf[version]
  /\ ProvidedIsOwn

(* A step of one reader leaves all of them good. *)
LEMMA OneReader ==
  ASSUME rd \in [Readers -> ReaderStates], \A q \in Readers : Good(rd[q]),
         NEW r \in Readers, NEW t, Good(t), rd' = [rd EXCEPT ![r] = t]
  PROVE  rd' \in [Readers -> ReaderStates] /\ \A q \in Readers : Good(rd'[q])
<1>1. t \in ReaderStates BY DEF Good
<1>2. \A q \in Readers : rd'[q] = IF q = r THEN t ELSE rd[q] OBVIOUS
<1> QED BY <1>1, <1>2

(* A good signal is queued. *)
LEMMA SignalQueued ==
  ASSUME GoodInbox, NEW e \in Readers \X Signals, Genuine(e[2]), inbox' = Append(inbox, e)
  PROVE  GoodInbox'
<1>1. inbox' \in Seq(Readers \X Signals) BY DEF GoodInbox
<1>2. ASSUME NEW i \in 1..Len(inbox') PROVE Genuine(inbox'[i][2])
  <2>1. Len(inbox') = Len(inbox) + 1 /\ Len(inbox) \in Nat BY DEF GoodInbox
  <2>2. CASE i \in 1..Len(inbox)
    <3>1. inbox'[i] = inbox[i] BY <2>2 DEF GoodInbox
    <3> QED BY <2>2, <3>1 DEF GoodInbox
  <2>3. CASE i = Len(inbox) + 1
    <3>1. inbox'[i] = e BY <2>3 DEF GoodInbox
    <3> QED BY <3>1
  <2> QED BY <2>1, <2>2, <2>3
<1> QED BY <1>1, <1>2 DEF GoodInbox, Genuine

(* A signal is taken from the queue. *)
LEMMA SignalTaken ==
  ASSUME GoodInbox, inbox # <<>>, inbox' = Tail(inbox)
  PROVE  GoodInbox' /\ Head(inbox) \in Readers \X Signals /\ Genuine(Head(inbox)[2])
<1>1. inbox' \in Seq(Readers \X Signals) /\ Len(inbox') = Len(inbox) - 1 /\ Len(inbox) \in Nat \ {0}
  BY DEF GoodInbox
<1>2. \A i \in 1..Len(inbox') : inbox'[i] = inbox[i + 1] BY <1>1 DEF GoodInbox
<1>3. \A i \in 1..Len(inbox') : Genuine(inbox'[i][2]) BY <1>1, <1>2 DEF GoodInbox
<1>4. Head(inbox) = inbox[1] BY <1>1 DEF GoodInbox
<1>5. Head(inbox) \in Readers \X Signals BY <1>1 DEF GoodInbox
<1>6. Genuine(Head(inbox)[2]) BY <1>1, <1>4 DEF GoodInbox
<1> QED BY <1>1, <1>3, <1>5, <1>6 DEF GoodInbox, Genuine

LEMMA InitInv == FinderInit => FinderInv
<1> SUFFICES ASSUME FinderInit PROVE FinderInv OBVIOUS
<1> USE DEF FinderInit, Init
<1>1. Fresh \in ReaderStates BY ReaderAssumption DEF Fresh, ReaderStates
<1>2. Good(Fresh)
  BY <1>1 DEF Fresh, Good, CutIsUnwanted, WorksOnCurrent, PlaceOfThread, DeletedAtRest
<1>3. rd \in [Readers -> ReaderStates] /\ \A r \in Readers : Good(rd[r]) BY <1>1, <1>2
<1>4. GoodInbox BY DEF GoodInbox
<1>5. ProvidedIsOwn BY DEF ProvidedIsOwn
<1> QED BY <1>3, <1>4, <1>5 DEF FinderInv, ReaderInv

(* What a step has to show: readers and inbox stay good, and what is provided
   is of the file that the finder looks for. *)
LEMMA Assembled ==
  ASSUME rd' \in [Readers -> ReaderStates], \A q \in Readers : Good(rd'[q]), GoodInbox',
         version' = None \/ version' \in Versions,
         filepath' = IF version' = None THEN None ELSE FileOf[version'],
         provided' # None =>
           provided'.img.rq.fn = FileOf[provided'.v] /\ ~provided'.img.cut
  PROVE  FinderInv'
<1>1. ReaderInv'
  BY DEF ReaderInv, Good, CutIsUnwanted, WorksOnCurrent, PlaceOfThread, DeletedAtRest, Genuine
<1>2. ProvidedIsOwn' BY DEF ProvidedIsOwn
<1> QED BY <1>1, <1>2 DEF FinderInv

(* A step of one reader that the finder has no part in. *)
LEMMA ReaderStep ==
  ASSUME FinderInv, NEW r \in Readers, NEW t, Good(t), rd' = [rd EXCEPT ![r] = t],
         GoodInbox', Quiet
  PROVE  FinderInv'
<1>1. rd' \in [Readers -> ReaderStates] /\ \A q \in Readers : Good(rd'[q])
  BY OneReader DEF FinderInv, ReaderInv
<1> QED BY <1>1, Assembled DEF FinderInv, Quiet

LEMMA InboxKept ==
  ASSUME GoodInbox, UNCHANGED inbox
  PROVE  GoodInbox'
BY DEF GoodInbox, Genuine

(* Each step of finder, readers and client keeps the invariant, if nothing is
   deleted while it is at work. *)
LEMMA StepInv ==
  ASSUME FinderInv, [FinderNext]_allVars, "quit" \notin Hasty
  PROVE  FinderInv'
<1> USE FinderAssumption, ReaderAssumption
<1>1. rd \in [Readers -> ReaderStates] /\ (\A r \in Readers : Good(rd[r])) /\ GoodInbox
  BY DEF FinderInv, ReaderInv
<1>2. ASSUME NEW v \in Versions, NEW size \in Sizes, RequestScaledOriginal(v, size)
      PROVE  FinderInv'
  <2>1. PICK fn : fn = FileOf[v] OBVIOUS
  <2>2. PICK rq : rq = [fn |-> fn, size |-> size] OBVIOUS
  <2>3. PICK o : o = ReaderOf[fn] OBVIOUS
  <2>4. fn \in Files /\ rq \in Requests /\ o \in Readers /\ v # None
    BY <2>1, <2>2, <2>3 DEF Requests
  <2>5. /\ \A q \in Readers : ~rd[q].dying
        /\ version' = v /\ filepath' = fn /\ provided' = None
        /\ rd' = [q \in Readers |-> IF q = o THEN Requested(q, rd[q], rq) ELSE CanceledAll(q, rd[q])]
        /\ inbox' = inbox \o AnswerAtOnce(o, rd[o], rq)
    BY <1>2, <2>1, <2>2, <2>3 DEF RequestScaledOriginal, MayRequest
  <2>6. ASSUME NEW q \in Readers PROVE rd'[q] \in ReaderStates /\ Good(rd'[q])
    <3>1. CASE q = o
      <4>1. rd'[q] = Requested(q, rd[q], rq) BY <2>5, <3>1
      <4>2. Good(Requested(q, rd[q], rq)) BY <1>1, <2>4, <2>5, RequestedGood
      <4> QED BY <4>1, <4>2 DEF Good
    <3>2. CASE q # o
      <4>1. rd'[q] = CanceledAll(q, rd[q]) BY <2>5, <3>2
      <4>2. Good(CanceledAll(q, rd[q])) BY <1>1, CanceledGood
      <4> QED BY <4>1, <4>2 DEF Good
    <3> QED BY <3>1, <3>2
  <2>7. rd' \in [Readers -> ReaderStates]
    <3>1. \A q \in Readers : rd'[q] \in ReaderStates BY <2>6
    <3>2. rd' = [q \in Readers |-> rd'[q]] BY <2>5
    <3> QED BY <3>1, <3>2
  <2>8. GoodInbox'
    <3>1. CASE AtHand(rd[o], rq)
      <4>1. PICK e : e = <<o, [type |-> "ready", fn |-> rq.fn, img |-> rd[o].res]>> OBVIOUS
      <4>2. rd[o].res = [rq |-> rq, cut |-> FALSE]
        BY <1>1, <2>4, <3>1 DEF Good, WorksOnCurrent, AtHand
      <4>3. rq.fn = fn BY <2>2
      <4>4. e[2] \in Signals BY <2>4, <4>1, <4>2, <4>3 DEF Signals
      <4>5. Genuine(e[2]) BY <4>1, <4>2 DEF Genuine
      <4>6. e \in Readers \X Signals BY <2>4, <4>1, <4>4
      <4>7. inbox' = inbox \o <<e>> BY <2>5, <3>1, <4>1 DEF AnswerAtOnce
      <4>8. inbox' = Append(inbox, e) BY <1>1, <4>6, <4>7 DEF GoodInbox
      <4> QED BY <1>1, <4>5, <4>6, <4>8, SignalQueued
    <3>2. CASE ~AtHand(rd[o], rq)
      <4>1. inbox' = inbox \o <<>> BY <2>5, <3>2 DEF AnswerAtOnce
      <4>2. inbox' = inbox BY <1>1, <4>1 DEF GoodInbox
      <4> QED BY <1>1, <4>2, InboxKept
    <3> QED BY <3>1, <3>2
  <2> QED BY <2>1, <2>4, <2>5, <2>6, <2>7, <2>8, Assembled
<1>3. ASSUME Provide PROVE FinderInv'
  <2>1. inbox # <<>> /\ inbox' = Tail(inbox) /\ rd' = rd /\ UNCHANGED <<version, filepath>>
    BY <1>3 DEF Provide, Deliver
  <2>2. GoodInbox' /\ Head(inbox) \in Readers \X Signals /\ Genuine(Head(inbox)[2])
    BY <1>1, <2>1, SignalTaken
  <2>3. PICK sig \in Signals : sig = Head(inbox)[2] BY <2>2
  <2>4. provided' = IF sig.type = "ready" /\ sig.fn = filepath
                    THEN [v |-> version, img |-> sig.img] ELSE None
    BY <1>3, <2>3 DEF Provide
  <2>5. ASSUME provided' # None
        PROVE  provided'.img.rq.fn = FileOf[provided'.v] /\ ~provided'.img.cut
    <3>1. sig.type = "ready" /\ sig.fn = filepath /\ sig.fn \in Files BY <2>4, <2>5 DEF Signals
    <3>2. filepath = FileOf[version] BY <3>1 DEF FinderInv
    <3>3. sig.img.rq.fn = sig.fn /\ ~sig.img.cut BY <2>2, <2>3, <3>1 DEF Genuine
    <3>4. provided' = [v |-> version, img |-> sig.img] BY <2>4, <3>1
    <3> QED BY <3>1, <3>2, <3>3, <3>4
  <2> QED BY <1>1, <2>1, <2>2, <2>5, Assembled DEF FinderInv
<1>4. ASSUME NEW r \in Readers, Destroy(r) PROVE FinderInv'
  <2>1. Idle(rd[r]) /\ Delete(r) /\ Quiet BY <1>4 DEF Destroy
  <2>2. rd' = [rd EXCEPT ![r] = [rd[r] EXCEPT !.dying = TRUE, !.src = None]] /\ UNCHANGED inbox
    BY <1>1, <2>1 DEF Delete, Good, ReaderStates
  <2>3. Good([rd[r] EXCEPT !.dying = TRUE, !.src = None]) BY <1>1, <2>1, DeletedGood
  <2> QED BY <1>1, <2>1, <2>2, <2>3, InboxKept, ReaderStep
<1>5. ASSUME NEW r \in Readers, StopReader(r) PROVE FinderInv'
  <2>1. rd' = [rd EXCEPT ![r] = Stopped(rd[r])] /\ UNCHANGED inbox /\ Quiet
    BY <1>5 DEF StopReader, Stop
  <2>2. Good(Stopped(rd[r])) BY <1>1, StoppedGood
  <2> QED BY <1>1, <2>1, <2>2, InboxKept, ReaderStep
<1>6. ASSUME NEW r \in Readers, RunReader(r), ~Emit(r) PROVE FinderInv'
  <2>1. PICK t : Step(r, t) /\ Good(t) BY <1>1, <1>6, ThreadGood DEF RunReader, ThreadStep
  <2> QED BY <1>1, <1>6, <2>1, InboxKept, ReaderStep DEF Step, RunReader
<1>7. ASSUME NEW r \in Readers, RunReader(r), Emit(r) PROVE FinderInv'
  <2>1. /\ rd[r].at = "emit" /\ inbox' = Append(inbox, <<r, rd[r].sig>>) /\ Quiet
        /\ rd' = [rd EXCEPT ![r].at = "woken", ![r].sig = None]
    BY <1>7 DEF Emit, RunReader
  <2>2. rd[r].sig \in Signals /\ Genuine(rd[r].sig) BY <1>1, <2>1 DEF Good, PlaceOfThread
  <2>3. PICK e : e = <<r, rd[r].sig>> OBVIOUS
  <2>4. GoodInbox' BY <1>1, <2>1, <2>2, <2>3, SignalQueued
  <2>5. rd' = [rd EXCEPT ![r] = [rd[r] EXCEPT !.at = "woken", !.sig = None]]
    BY <1>1, <2>1 DEF Good, ReaderStates
  <2>6. Good([rd[r] EXCEPT !.at = "woken", !.sig = None]) BY <1>1, <2>1, EmittedGood
  <2> QED BY <2>1, <2>4, <2>5, <2>6, ReaderStep
<1>8. CASE UNCHANGED allVars
  <2>1. UNCHANGED <<rd, inbox, version, filepath, provided>>
    BY <1>8 DEF allVars, readerVars, finderVars
  <2> QED BY <1>1, <2>1, InboxKept, Assembled DEF FinderInv, ProvidedIsOwn
<1> QED BY <1>2, <1>3, <1>4, <1>5, <1>6, <1>7, <1>8 DEF FinderNext

(* FinderInv holds of every behaviour. *)
LEMMA Invariant == ASSUME "quit" \notin Hasty PROVE FinderSpec => []FinderInv
<1>1. FinderInv /\ [FinderNext]_allVars => FinderInv' BY StepInv
<1> QED BY <1>1, InitInv, PTL DEF FinderSpec

(* Whatever the readers announce, and whatever a reader hands out again without
   reading (InterruptableReader::request), is complete and is of the file that
   it is announced for. *)
THEOREM OnlyGenuineIsReady == ASSUME "quit" \notin Hasty PROVE FinderSpec => []ReadyIsGenuine
<1>1. FinderInv => ReadyIsGenuine
  <2> SUFFICES ASSUME FinderInv PROVE ReadyIsGenuine OBVIOUS
  <2>1. DOMAIN inbox = 1..Len(inbox) BY DEF FinderInv, ReaderInv, GoodInbox
  <2>2. \A i \in DOMAIN inbox : Genuine(inbox[i][2])
    BY <2>1 DEF FinderInv, ReaderInv, GoodInbox
  <2>3. \A r \in Readers : WorksOnCurrent(rd[r]) BY DEF FinderInv, ReaderInv, Good
  <2> QED BY <2>2, <2>3 DEF ReadyIsGenuine, Genuine, WorksOnCurrent
<1> QED BY <1>1, Invariant, PTL

(* What OriginalFinder::provide passes on as a version's original is complete
   and is of the file of that version's photo. *)
THEOREM OnlyOwnIsProvided == ASSUME "quit" \notin Hasty PROVE FinderSpec => []ProvidedIsOwn
<1>1. FinderInv => ProvidedIsOwn BY DEF FinderInv
<1> QED BY <1>1, Invariant, PTL

(* While a reader is told to cancel, its thread announces no image; it can only
   report that the file could not be read. *)
THEOREM CanceledStaysSilent ==
  ASSUME "quit" \notin Hasty
  PROVE  FinderSpec => CanceledIsNotAnnounced
<1> DEFINE Silent(r) == rd[r].canceling /\ rd[r].sig = None =>
                          rd'[r].sig = None \/ rd'[r].sig.type = "failed"
<1>1. ASSUME FinderInv, [FinderNext]_allVars
      PROVE  [\A r \in Readers : Silent(r)]_readerVars
  <2>1. rd \in [Readers -> ReaderStates] /\ \A r \in Readers : Good(rd[r])
    BY <1>1 DEF FinderInv, ReaderInv
  <2> SUFFICES ASSUME ~ UNCHANGED readerVars, NEW r \in Readers,
                      rd[r].canceling, rd[r].sig = None
               PROVE  rd'[r].sig = None \/ rd'[r].sig.type = "failed"
    OBVIOUS
  <2>2. rd[r] \in ReaderStates BY <2>1
  <2>3. ASSUME rd'[r] = rd[r] PROVE rd'[r].sig = None BY <2>3
  <2>4. ASSUME NEW v \in Versions, NEW size \in Sizes, RequestScaledOriginal(v, size)
        PROVE  rd'[r].sig = None
    <3> DEFINE rq == [fn |-> FileOf[v], size |-> size]
    <3>1. rd'[r] = Requested(r, rd[r], rq) \/ rd'[r] = CanceledAll(r, rd[r])
      BY <2>4 DEF RequestScaledOriginal
    <3>2. Requested(r, rd[r], rq).sig = None
      BY <2>2 DEF Requested, Abort, Wake, ReaderStates
    <3>3. CanceledAll(r, rd[r]).sig = None
      BY <2>2 DEF CanceledAll, CancelCurrent, Abort, ReaderStates
    <3> QED BY <3>1, <3>2, <3>3
  <2>5. ASSUME Provide PROVE rd'[r] = rd[r] BY <2>5 DEF Provide, Deliver
  <2>6. ASSUME NEW q \in Readers, q # r, Destroy(q) \/ StopReader(q) \/ RunReader(q)
        PROVE  rd'[r] = rd[r]
    BY <2>1, <2>6 DEF Destroy, Delete, StopReader, Stop, RunReader, ThreadStep, Wakeup, Open, Read,
          Close, Decode, Emit, Step
  <2>7. ASSUME Destroy(r) PROVE rd'[r].sig = None
    <3>1. rd' = [rd EXCEPT ![r] = [rd[r] EXCEPT !.dying = TRUE, !.src = None]]
      BY <2>1, <2>2, <2>7 DEF Destroy, Delete, ReaderStates
    <3> QED BY <2>1, <2>2, <3>1 DEF ReaderStates
  <2>8. ASSUME StopReader(r) PROVE rd'[r].sig = None
    <3>1. rd'[r] = Stopped(rd[r]) BY <2>1, <2>8 DEF StopReader, Stop
    <3> QED BY <2>2, <3>1 DEF Stopped, Wake, ReaderStates
  <2>9. ASSUME RunReader(r), Emit(r) PROVE rd'[r].sig = None
    <3>1. rd[r].at = "emit" BY <2>9 DEF Emit
    <3>2. rd' = [rd EXCEPT ![r] = [rd[r] EXCEPT !.at = "woken", !.sig = None]]
      BY <2>1, <2>2, <2>9 DEF Emit, ReaderStates
    <3> QED BY <2>1, <2>2, <3>2 DEF ReaderStates
  <2>10. ASSUME RunReader(r), ~Emit(r)
         PROVE  rd'[r].sig = None \/ rd'[r].sig.type = "failed"
    <3>1. PICK t : Step(r, t) /\ (t.sig = None \/ t.sig.type = "failed")
      BY <2>1, <2>10, ThreadGood DEF RunReader, ThreadStep
    <3>2. rd'[r] = t BY <2>1, <3>1 DEF Step
    <3> QED BY <3>1, <3>2
  <2>11. CASE UNCHANGED allVars BY <2>11 DEF allVars, readerVars
  <2> QED BY <1>1, <2>3, <2>4, <2>5, <2>6, <2>7, <2>8, <2>9, <2>10, <2>11 DEF FinderNext
<1> QED BY <1>1, Invariant, PTL DEF FinderSpec, CanceledIsNotAnnounced
=============================================================================
