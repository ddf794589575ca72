----------------------- MODULE InterruptableAdjuster -----------------------
(***************************************************************************)
(* InterruptableAdjuster: a thread around an AllAdjuster, which computes   *)
(* the adjusted image of one version at a time.  Its client, LiveAdjuster, *)
(* posts requests and originals under the mutex and may change its mind    *)
(* while the thread computes.                                              *)
(*                                                                         *)
(* An image is abstracted to the version whose original it was computed    *)
(* from, the generation of the settings used, and one of a few sizes.      *)
(***************************************************************************)
EXTENDS Naturals, Sequences

CONSTANTS
  Versions,
  None,      \* no version, no image: the null image
  Full,      \* the size of every original; sizes are 1..Full
  MaxGen     \* bound on edits per version

Sizes == 1..Full
Gens == 0..MaxGen
Originals == [v : Versions, size : Sizes]
Images == [v : Versions, gen : Gens, size : Sizes]
Orders == [id : Versions, gen : Gens, size : Sizes]

ASSUME AdjusterAssumption ==
  /\ None \notin Versions \cup Originals \cup Images
  /\ Full \in Nat \ {0} /\ MaxGen \in Nat

VARIABLES
  adj,       \* the members of the adjuster, and the place of its thread
  outbox     \* ready signals queued for the client's thread

adjVars == <<adj, outbox>>

\* interrupted is the flag that AllAdjuster::cancel sets; held is the original
\* that the AllAdjuster has; job is what the thread computes.
AdjusterStates ==
  [newreq : BOOLEAN, cancel : BOOLEAN, clear : BOOLEAN, empty : BOOLEAN,
   rq : Orders \cup {None},
   newOriginal : Originals \cup {None}, oId : Versions \cup {None},
   oSize : Sizes \cup {None},
   held : Originals \cup {None}, interrupted : BOOLEAN,
   job : [order : Orders, can : BOOLEAN] \cup {None},
   sig : ((Images \cup {None}) \X Versions) \cup {<<>>},
   at : {"woken", "wait", "compute", "emit"}]

AdjusterTypeOK ==
  /\ adj \in AdjusterStates
  /\ outbox \in Seq((Images \cup {None}) \X Versions)

AdjusterInit ==
  /\ adj = [newreq |-> FALSE, cancel |-> FALSE, clear |-> FALSE, empty |-> TRUE,
            rq |-> None, newOriginal |-> None, oId |-> None, oSize |-> None,
            held |-> None, interrupted |-> FALSE, job |-> None, sig |-> <<>>,
            at |-> "woken"]
  /\ outbox = <<>>

-----------------------------------------------------------------------------
(* Calls of the client: what each makes of the adjuster *)

\* Mutant of Ordered: the thread is not woken.
OrderedNoWake(a, order) ==
  [a EXCEPT !.interrupted = TRUE, !.newreq = TRUE, !.cancel = FALSE, !.rq = order]

\* requestReduced
Ordered(a, order) ==
  [a EXCEPT !.interrupted = TRUE, !.newreq = TRUE, !.cancel = FALSE, !.rq = order,
            !.at = IF @ = "wait" THEN "woken" ELSE @]

\* cancelRequest does not wake the thread.
Withdrawn(a) ==
  [a EXCEPT !.interrupted = TRUE, !.newreq = FALSE, !.cancel = TRUE]

\* clear
Cleared(a) == [Withdrawn(a) EXCEPT !.clear = TRUE]

\* setReduced
Supplied(a, original) ==
  [a EXCEPT !.newOriginal = original, !.oId = original.v, !.oSize = original.size]

\* maxAvailableSize, read without the mutex; 0 is the empty size.
MaxAvailable(a, v) == IF a.clear \/ a.oId # v THEN 0 ELSE a.oSize

-----------------------------------------------------------------------------
(* The thread.  A step is what it does between two releases of the mutex. *)

\* The iterations of run() that come before a new request is handled: clear,
\* drop a cancel, take over a new original.
TakeUp(a) ==
  [a EXCEPT !.held = IF a.newOriginal # None THEN a.newOriginal
                     ELSE IF a.clear THEN None ELSE @,
            !.newOriginal = None, !.clear = FALSE, !.cancel = FALSE]

\* The loop of run(), from where it has the mutex to where it releases it.
\* The AllAdjuster resets its flag when the computation begins.
RunLoop(a) ==
  LET b == TakeUp(a)
      c == [b EXCEPT !.empty = (b.held = None)]
  IN  IF c.newreq
      THEN [c EXCEPT !.newreq = FALSE, !.interrupted = FALSE, !.at = "compute",
                     !.job = [order |-> c.rq, can |-> c.rq.id = c.oId]]
      ELSE [c EXCEPT !.at = "wait"]

\* What retrieveReduced returns: at most the size it has, or nothing if it
\* has no original.
Retrieved(a) ==
  IF a.held = None THEN None
  ELSE LET order == a.job.order
       IN  [v |-> a.held.v, gen |-> order.gen,
            size |-> IF order.size < a.held.size THEN order.size ELSE a.held.size]

\* Mutant of Discards: a newer request does not supersede the result.
DiscardsIfCanceled(a) == a.cancel \/ a.clear

Discards(a) == a.cancel \/ a.newreq \/ a.clear

\* The end of handleNewRequest for the image computed.  A discard resets
\* cancel and clear just as the loop does.
Completed(a, img) ==
  LET b == [a EXCEPT !.job = None]
  IN  IF ~a.job.can \/ Discards(a) THEN RunLoop(b)
      ELSE [b EXCEPT !.sig = <<img, a.oId>>, !.at = "emit"]

Wakeup ==
  /\ adj.at = "woken"
  /\ adj' = RunLoop(adj)
  /\ UNCHANGED outbox

\* AllAdjuster returns nothing if it notices the flag in time.
Compute ==
  /\ adj.at = "compute"
  /\ \/ adj' = Completed(adj, Retrieved(adj))
     \/ adj.interrupted /\ adj' = Completed(adj, None)
  /\ UNCHANGED outbox

Emit ==
  /\ adj.at = "emit"
  /\ outbox' = Append(outbox, adj.sig)
  /\ adj' = [adj EXCEPT !.sig = <<>>, !.at = "woken"]

AdjusterStep == Wakeup \/ Compute \/ Emit

-----------------------------------------------------------------------------
(* Properties *)

(* A computation that was interrupted, and so yielded nothing, is not announced:
   a null image is announced only if there was no original to compute from. *)
InterruptedIsDiscarded ==
  adj.at = "emit" /\ adj.sig[1] = None => adj.held = None

=============================================================================
