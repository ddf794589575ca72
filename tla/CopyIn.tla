------------------------------- MODULE CopyIn -------------------------------
(***************************************************************************)
(* CopyIn: a thread that copies a list of files into a folder and then     *)
(* leaves the sources, moves them to a backup folder, or deletes them.     *)
(* Several may run at once over the same files.                            *)
(*                                                                         *)
(* A file's content is identified with the source file it comes from.      *)
(***************************************************************************)
EXTENDS Naturals, Sequences

CONSTANTS
  Sources,       \* the source files, images and movies
  Target,        \* Target[f]: where f is copied to; it has the file's name
                 \* in lower case, which two sources may share
  Old,           \* the content of a file that was there before
  None

Dispositions == {"leave", "backup", "delete"}
Targets == {Target[f] : f \in Sources}

ASSUME CopyAssumption == Old \notin Sources /\ None \notin Sources /\ Old # None

VARIABLES
  src,           \* the sources that are in place
  dst,           \* dst[t]: the content of the file at t
  backup,        \* the sources in the backup folder
  copiers        \* the threads, in the order they were started

copyVars == <<src, dst, backup, copiers>>

Copiers ==
  [list : Seq(Sources), next : Nat \ {0}, copied : SUBSET Sources,
   failed : SUBSET Sources, cancel : BOOLEAN, srcdisp : Dispositions,
   at : {"start", "copy", "dispose", "completed", "canceled"}]

CopyTypeOK ==
  /\ src \subseteq Sources
  /\ dst \in [Targets -> Sources \cup {None, Old}]
  /\ backup \subseteq Sources
  /\ copiers \in Seq(Copiers)

CopyInit ==
  /\ src = Sources
  /\ dst \in [Targets -> {None, Old}]
  /\ backup = {}
  /\ copiers = <<>>

-----------------------------------------------------------------------------
(* Calls *)

\* A thread that is started on a list of files.
Started(list, disp) ==
  [list |-> list, next |-> 1, copied |-> {}, failed |-> {}, cancel |-> FALSE,
   srcdisp |-> disp, at |-> "start"]

Running(c) == c.at \notin {"completed", "canceled"}

Canceled(c) == [c EXCEPT !.cancel = TRUE]

-----------------------------------------------------------------------------
(* The thread *)

Become(n, c) == copiers' = [copiers EXCEPT ![n] = c]

\* The folder is made, or everything fails.
MakePath(n) ==
  /\ copiers[n].at = "start"
  /\ \/ Become(n, [copiers[n] EXCEPT !.at = "copy"])
     \/ Become(n, [copiers[n] EXCEPT !.at = "completed",
                     !.failed = {copiers[n].list[i] : i \in 1..Len(copiers[n].list)}])
  /\ UNCHANGED <<src, dst, backup>>

\* QFile::copy does not overwrite a file.
CanCopy(f) == f \in src /\ dst[Target[f]] = None

\* Mutant of Disposable: all sources, once all have been tried.
DisposableAll(c) == {c.list[i] : i \in 1..Len(c.list)}

\* disposableSources
Disposable(c) == c.copied

\* One iteration of the loops over the images and the movies.
CopyNext(n) ==
  LET c == copiers[n]
      f == c.list[c.next]
  IN /\ c.at = "copy" /\ ~c.cancel /\ c.next <= Len(c.list)
     /\ \/ /\ CanCopy(f)
           /\ dst' = [dst EXCEPT ![Target[f]] = f]
           /\ Become(n, [c EXCEPT !.next = @ + 1, !.copied = @ \cup {f}])
        \/ /\ Become(n, [c EXCEPT !.next = @ + 1, !.failed = @ \cup {f}])
           /\ UNCHANGED dst
     /\ UNCHANGED <<src, backup>>

\* doCancel removes the files in copiedFiles as it was when the lambda was
\* made, which is none.
Cancel(n) ==
  /\ copiers[n].at = "copy" /\ copiers[n].cancel
  /\ copiers[n].next <= Len(copiers[n].list)
  /\ Become(n, [copiers[n] EXCEPT !.at = "canceled"])
  /\ UNCHANGED <<src, dst, backup>>

CopyEnds(n) ==
  /\ copiers[n].at = "copy" /\ copiers[n].next > Len(copiers[n].list)
  /\ Become(n, [copiers[n] EXCEPT !.at = "dispose"])
  /\ UNCHANGED <<src, dst, backup>>

\* disposeSources: any file may fail to be moved or removed.  A rename does not
\* overwrite a file either, but the sources have different names in the backup.
Dispose(n) ==
  /\ copiers[n].at = "dispose"
  /\ \E gone \in SUBSET (Disposable(copiers[n]) \cap src) :
       /\ copiers[n].srcdisp = "leave" => gone = {}
       /\ src' = src \ gone
       /\ backup' = IF copiers[n].srcdisp = "backup" THEN backup \cup gone ELSE backup
  /\ Become(n, [copiers[n] EXCEPT !.at = "completed"])
  /\ UNCHANGED dst

CopyStep(n) == MakePath(n) \/ CopyNext(n) \/ Cancel(n) \/ CopyEnds(n) \/ Dispose(n)

-----------------------------------------------------------------------------
(* Properties *)

(* A source that is no longer in place was copied, and its copy is there. *)
DisposedIsCopied == \A f \in Sources \ src : dst[Target[f]] = f
=============================================================================
