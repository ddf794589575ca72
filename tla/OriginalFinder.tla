--------------------------- MODULE OriginalFinder ---------------------------
(***************************************************************************)
(* OriginalFinder: finds the original of the version that was asked for    *)
(* last, through one reader for ordinary files and one for raw files.      *)
(***************************************************************************)
EXTENDS InterruptableReader

CONSTANTS
  Versions,
  FileOf,      \* FileOf[v]: the file of v's photo
  ReaderOf,    \* ReaderOf[file]: the reader for files of its type
  Hasty        \* what else the user does: "back" to a version whose reading
               \* has been given up, "quit" while a reader is at work

ASSUME FinderAssumption ==
  /\ FileOf \in [Versions -> Files] /\ ReaderOf \in [Files -> Readers]
  /\ None \notin Versions /\ Hasty \subseteq {"back", "quit"}

VARIABLES
  version, desired, filepath,   \* the members of OriginalFinder
  provided                      \* the available signal of the last step: its
                                \* version and image, or None

finderVars == <<version, desired, filepath, provided>>
allVars == <<readerVars, finderVars>>

FinderInit ==
  /\ Init
  /\ version = None /\ desired = None /\ filepath = None /\ provided = None

\* Versions are requested as long as the finder lives.
MayRequest(rq) ==
  /\ \A r \in Readers : ~rd[r].dying
  /\ Len(inbox) < MaxInbox
  /\ "back" \in Hasty \/ ~Overlooked(rd[ReaderOf[rq.fn]], rq)

\* requestScaledOriginal: whatever the other reader does is canceled.
RequestScaledOriginal(v, size) ==
  LET fn == FileOf[v]
      rq == [fn |-> fn, size |-> size]
  IN  /\ MayRequest(rq)
      /\ version' = v /\ desired' = size /\ filepath' = fn
      /\ rd' = [r \in Readers |-> IF r = ReaderOf[fn] THEN Requested(r, rd[r], rq)
                                  ELSE CanceledAll(r, rd[r])]
      /\ inbox' = inbox \o AnswerAtOnce(ReaderOf[fn], rd[ReaderOf[fn]], rq)
      /\ open' = [r \in Readers |-> IF r = ReaderOf[fn] /\ ~AtHand(rd[r], rq)
                                    THEN rq ELSE None]
      /\ provided' = None

\* Mutant of Provide: an image of another file is taken for the version's.
ProvideAny ==
  /\ Deliver
  /\ LET sig == Head(inbox)[2]
     IN provided' = IF sig.type = "ready"
                    THEN [v |-> version, img |-> sig.img] ELSE None
  /\ UNCHANGED <<version, desired, filepath>>

\* provide: the slot for ready signals; failed ones are not connected.
Provide ==
  /\ Deliver
  /\ LET sig == Head(inbox)[2]
     IN provided' = IF sig.type = "ready" /\ sig.fn = filepath
                    THEN [v |-> version, img |-> sig.img] ELSE None
  /\ UNCHANGED <<version, desired, filepath>>

Quiet == provided' = None /\ UNCHANGED <<version, desired, filepath>>

\* ~OriginalFinder: its children are deleted one after the other.
Destroy(r) ==
  /\ \A q \in Readers : rd[q].dying => rd[q].stopsoon
  /\ "quit" \in Hasty \/ \A q \in Readers : Idle(rd[q]) /\ open[q] = None
  /\ Delete(r) /\ Quiet

StopReader(r) == Stop(r) /\ Quiet

RunReader(r) == ThreadStep(r) /\ Quiet

FinderNext ==
  \/ \E v \in Versions, size \in Sizes : RequestScaledOriginal(v, size)
  \/ Provide
  \/ \E r \in Readers : Destroy(r) \/ StopReader(r) \/ RunReader(r)

FinderSpec == FinderInit /\ [][FinderNext]_allVars

\* The threads run, files and processes come to their end, and the client's
\* event loop delivers what is queued and finishes a destructor; nothing obliges the user to request.
FinderFairness ==
  /\ WF_allVars(Provide)
  /\ \A r \in Readers : WF_allVars(RunReader(r)) /\ WF_allVars(StopReader(r))

FairFinderSpec == FinderSpec /\ FinderFairness

-----------------------------------------------------------------------------
(* Properties *)

(* What is shown as a version's original was read from the file of its photo,
   and completely, however quickly the user changes version. *)
ProvidedIsOwn ==
  provided # None =>
    provided.img.rq.fn = FileOf[provided.v] /\ ~provided.img.cut

=============================================================================
