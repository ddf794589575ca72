------------------------ MODULE InterruptableReader ------------------------
(***************************************************************************)
(* InterruptableReader and its two kinds, InterruptableFileReader and      *)
(* InterruptableRawReader: a thread that reads one image file at a time    *)
(* for a client that may change its mind at any moment.                    *)
(*                                                                         *)
(* A step of the thread is what it does under the mutex between two        *)
(* releases of it; "at" names the place outside the mutex where it is.  The *)
(* calls are given as what they make of a reader: their only caller is     *)
(* OriginalFinder.                                                         *)
(* What was read is abstracted to the request it was read for and to       *)
(* whether the process that produces it was killed halfway.                *)
(***************************************************************************)
EXTENDS Naturals, Sequences

CONSTANTS
  Readers,     \* the reader objects
  Raw,         \* those of them that read through an external process
  Files, Sizes,
  None,        \* no request, no result
  Chunks,      \* bound on the chunks of a file
  MaxInbox     \* bound on the signals that wait for the client

Requests == [fn : Files, size : Sizes]

ASSUME ReaderAssumption ==
  /\ Raw \subseteq Readers /\ None \notin Requests /\ None \notin Files
  /\ Chunks \in Nat /\ MaxInbox \in Nat

VARIABLES
  rd,      \* rd[r]: the members of reader r, and the place of its thread
  inbox,   \* ready and failed signals queued for the client's thread
  open     \* history: open[r] is the request that is to be answered, or None

readerVars == <<rd, inbox, open>>

\* The signal names a file; a ready signal carries an image.
Signals == [type : {"ready"}, fn : Files, img : [rq : Requests, cut : BOOLEAN]]
           \cup [type : {"failed"}, fn : Files]

ReaderStates ==
  [newreq : Requests \cup {None}, current : Requests \cup {None},
   running : BOOLEAN, canceling : BOOLEAN, stopsoon : BOOLEAN,
   dying : BOOLEAN,
   res : [rq : Requests, cut : BOOLEAN] \cup {None},  \* None: not res.ok
   src : Requests \cup {None}, cut : BOOLEAN, left : 0..Chunks,
   sig : Signals \cup {None},
   at : {"woken", "wait", "open", "read", "close", "decode", "emit", "stopped"}]

TypeOK ==
  /\ rd \in [Readers -> ReaderStates]
  /\ inbox \in Seq(Readers \X Signals)
  /\ open \in [Readers -> Requests \cup {None}]

Fresh == [newreq |-> None, current |-> None, running |-> FALSE,
          canceling |-> FALSE, stopsoon |-> FALSE, dying |-> FALSE,
          res |-> None, src |-> None,
          cut |-> FALSE, left |-> 0, sig |-> None, at |-> "woken"]

Init ==
  /\ rd = [r \in Readers |-> Fresh]
  /\ inbox = <<>>
  /\ open = [r \in Readers |-> None]

-----------------------------------------------------------------------------
(* Calls of the client *)

\* Killing the process matters while its output is being awaited.
Abort(r, s) == [s EXCEPT !.cut = s.cut \/ (r \in Raw /\ s.at = "open")]

Wake(s) == IF s.at = "wait" THEN [s EXCEPT !.at = "woken"] ELSE s

AtHand(s, rq) == s.current = rq /\ ~s.running /\ s.res # None
UnderWay(s, rq) == s.current = rq /\ s.running

\* Mutant of Requested: the waiting thread is not woken.
RequestedNoWake(r, s, rq) ==
  IF AtHand(s, rq) \/ UnderWay(s, rq) THEN s
  ELSE IF s.running THEN Abort(r, [s EXCEPT !.newreq = rq])
  ELSE [s EXCEPT !.newreq = rq, !.res = None]

\* InterruptableReader::request
Requested(r, s, rq) ==
  IF AtHand(s, rq) \/ UnderWay(s, rq) THEN s
  ELSE IF s.running THEN Abort(r, [s EXCEPT !.newreq = rq])
  ELSE Wake([s EXCEPT !.newreq = rq, !.res = None])

\* The ready signal that request itself emits.
AnswerAtOnce(r, s, rq) ==
  IF AtHand(s, rq) THEN <<<<r, [type |-> "ready", fn |-> rq.fn, img |-> s.res]>>>>
  ELSE <<>>

\* Mutant of CancelCurrent: the process is killed, but the thread not told.
CancelCurrentKillsOnly(r, s) ==
  IF s.running THEN Abort(r, s) ELSE [s EXCEPT !.res = None]

CancelCurrent(r, s) ==
  IF s.running THEN Abort(r, [s EXCEPT !.canceling = TRUE])
  ELSE [s EXCEPT !.res = None]

\* cancel()
CanceledAll(r, s) == CancelCurrent(r, [s EXCEPT !.newreq = None])

\* Mutant of Stopped: the waiting thread is not woken.
StoppedNoWake(s) == [s EXCEPT !.stopsoon = TRUE]

Stopped(s) == Wake([s EXCEPT !.stopsoon = TRUE])

\* A request that only asks again for what is being read, while that is
\* being canceled or about to be superseded.
Overlooked(s, rq) == UnderWay(s, rq) /\ (s.canceling \/ s.newreq # None)

Idle(s) == ~s.running /\ s.newreq = None

\* The destructor of the derived class deletes the source, without the mutex;
\* the destructor of the base class then tells the thread to stop.
Delete(r) ==
  /\ ~rd[r].dying
  /\ rd' = [rd EXCEPT ![r].dying = TRUE, ![r].src = None]
  /\ UNCHANGED <<inbox, open>>

Stop(r) ==
  /\ rd[r].dying /\ ~rd[r].stopsoon
  /\ open' = [open EXCEPT ![r] = None]
  /\ rd' = [rd EXCEPT ![r] = Stopped(rd[r])]
  /\ UNCHANGED inbox

\* The client's event loop takes a signal from its queue.
Deliver ==
  /\ inbox # <<>>
  /\ inbox' = Tail(inbox)
  /\ UNCHANGED <<rd, open>>

-----------------------------------------------------------------------------
(* The thread *)

LNewReq(s) ==
  [s EXCEPT !.res = None, !.current = s.newreq, !.newreq = None,
            !.canceling = FALSE, !.running = TRUE, !.src = s.newreq,
            !.cut = FALSE, !.at = "open"]

LCancel(s) ==
  [s EXCEPT !.current = None, !.res = None, !.canceling = FALSE,
            !.running = FALSE, !.src = None, !.at = "wait"]

\* The loop of run(), from where it has the mutex to where it releases it.
Loop(s) ==
  IF s.stopsoon THEN [s EXCEPT !.at = "stopped"]
  ELSE IF s.newreq # None THEN LNewReq(s)
  ELSE IF s.canceling THEN LCancel(s)
  ELSE [s EXCEPT !.at = IF s.running THEN "read" ELSE "wait"]

Fail(s) ==
  [s EXCEPT !.res = None, !.running = FALSE, !.src = None, !.at = "emit",
            !.sig = [type |-> "failed", fn |-> s.current.fn]]

\* lComplete gives up at either of two places if it was told to cancel.
GiveUp(s) == Loop(LCancel(s))

\* Mutant of Finish: what was canceled during decoding is announced.
FinishAnyhow(s) ==
  LET img == [rq |-> s.src, cut |-> s.cut]
  IN  [s EXCEPT !.res = img, !.running = FALSE, !.src = None, !.at = "emit",
                !.sig = [type |-> "ready", fn |-> s.current.fn, img |-> img]]

Finish(s) ==
  LET img == [rq |-> s.src, cut |-> s.cut]
  IN  IF s.canceling THEN GiveUp(s)
      ELSE [s EXCEPT !.res = img, !.running = FALSE, !.src = None, !.at = "emit",
                     !.sig = [type |-> "ready", fn |-> s.current.fn, img |-> img]]

Step(r, s) == rd' = [rd EXCEPT ![r] = s] /\ UNCHANGED <<inbox, open>>

Wakeup(r) == rd[r].at = "woken" /\ Step(r, Loop(rd[r]))

\* The file opens and has some chunks, or it does not open.
Open(r) ==
  /\ rd[r].at = "open"
  /\ \/ \E n \in 0..Chunks : Step(r, Loop([rd[r] EXCEPT !.left = n]))
     \/ Step(r, Fail(rd[r]))

\* A chunk is read, the end is reached, or reading fails.
Read(r) ==
  /\ rd[r].at = "read"
  /\ \/ rd[r].left > 0 /\ Step(r, Loop([rd[r] EXCEPT !.left = @ - 1]))
     \/ rd[r].left = 0 /\ Step(r, [rd[r] EXCEPT !.at = "close"])
     \/ Step(r, Fail(rd[r]))

Close(r) ==
  /\ rd[r].at = "close"
  /\ Step(r, IF rd[r].canceling THEN GiveUp(rd[r]) ELSE [rd[r] EXCEPT !.at = "decode"])

Decode(r) == rd[r].at = "decode" /\ Step(r, Finish(rd[r]))

\* The signal is emitted with the mutex released.
Emit(r) ==
  /\ rd[r].at = "emit"
  /\ inbox' = Append(inbox, <<r, rd[r].sig>>)
  /\ open' = [open EXCEPT ![r] =
                IF open[r] # None /\ open[r].fn = rd[r].sig.fn THEN None ELSE open[r]]
  /\ rd' = [rd EXCEPT ![r].at = "woken", ![r].sig = None]

ThreadStep(r) == Wakeup(r) \/ Open(r) \/ Read(r) \/ Close(r) \/ Decode(r) \/ Emit(r)

-----------------------------------------------------------------------------
(* Properties *)

(* A ready signal on its way names the file that its image was read from, and
   the image is complete; so does the result that request() hands out again
   without reading. *)
ReadyIsGenuine ==
  /\ \A i \in DOMAIN inbox : LET sig == inbox[i][2] IN
       sig.type = "ready" => sig.img.rq.fn = sig.fn /\ ~sig.img.cut
  /\ \A r \in Readers :
       rd[r].res # None => ~rd[r].running /\ rd[r].res = [rq |-> rd[r].current, cut |-> FALSE]

(* Once cancel() has returned, the reader takes up no ready signal for what
   was canceled. *)
CanceledIsNotAnnounced ==
  [][\A r \in Readers :
       rd[r].canceling /\ rd[r].sig = None => 
         rd'[r].sig = None \/ rd'[r].sig.type = "failed"]_readerVars

(* InterruptableReader.h: each request results in either a ready or a failed
   signal, unless it gets canceled first. *)
EachRequestAnswered ==
  \A r \in Readers, rq \in Requests : (open[r] = rq) ~> (open[r] # rq)

(* The destructor need not kill the thread: told to stop, it stops. *)
StopsWhenTold == \A r \in Readers : rd[r].stopsoon ~> rd[r].at = "stopped"
=============================================================================
