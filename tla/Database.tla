------------------------------ MODULE Database ------------------------------
(***************************************************************************)
(* How the threads of the program share one SQLite database.  Each thread  *)
(* has a connection of its own, named here after the thread; the clones of *)
(* a Database share one mutex, lock, which a thread holds while it writes, *)
(* in a Transaction or under a DBWriteLock.  Reading takes no lock.        *)
(*                                                                         *)
(* A statement that fails ends the program (CRASHQ).  SQLite, external and *)
(* in WAL mode, fails a write in one case that matters: the connection has *)
(* read something, in a transaction or by a select that is still open, and *)
(* another connection has committed since.  Trying again, as execWithRetry *)
(* does, cannot help, since the connection keeps what it has read.  Two    *)
(* connections that write at once wait for each other (SQLite's busy       *)
(* timeout, here without an end).                                          *)
(***************************************************************************)
CONSTANTS Threads,   \* the threads that have a connection
          Main,      \* the user interface's
          Scanner,   \* the scanner's, whose connection Main uses in addTree
          Nobody     \* no thread

ASSUME ThreadsAssumption ==
  /\ Main \in Threads /\ Scanner \in Threads /\ Main # Scanner
  /\ Nobody \notin Threads

VARIABLES
  up,       \* the program has not been aborted
  locked,   \* the thread that holds the mutex
  task,     \* task[t]: what thread t waits for the mutex for, or holds it for
  begun,    \* the connections in a transaction
  open,     \* the connections with a select that has not been finished
  seen,     \* the connections that have to go on seeing what they have read
  stale,    \* those of them to which something newer has been committed
  writer,   \* the connection that has written in a transaction
  meddled   \* something was written without the mutex while another held it

vars == <<up, locked, task, begun, open, seen, stale, writer, meddled>>

Rest == [at |-> "rest", whole |-> FALSE, conn |-> Nobody]

Tasks == [at : {"rest", "waits", "holds"}, whole : BOOLEAN, conn : Threads \cup {Nobody}]

TypeOK ==
  /\ up \in BOOLEAN /\ meddled \in BOOLEAN
  /\ locked \in Threads \cup {Nobody} /\ writer \in Threads \cup {Nobody}
  /\ task \in [Threads -> Tasks]
  /\ begun \subseteq Threads /\ open \subseteq Threads
  /\ seen \subseteq Threads /\ stale \subseteq seen

\* Clones share lock and locked.
Init ==
  /\ up = TRUE /\ meddled = FALSE
  /\ locked = Nobody /\ writer = Nobody
  /\ task = [t \in Threads |-> Rest]
  /\ begun = {} /\ open = {} /\ seen = {} /\ stale = {}

-----------------------------------------------------------------------------
(* Statements *)

\* A thread runs its code unless it waits for the mutex; it asks for it at rest,
\* and writes while it holds it.
Runs(t) == up /\ task[t].at # "waits"
Rests(t) == up /\ task[t].at = "rest"
Holds(t) == up /\ task[t].at = "holds"

\* constQuery: a select, which shows what was committed when the connection
\* first read.
ConstQuery(t) ==
  /\ Runs(t)
  /\ open' = open \cup {t} /\ seen' = seen \cup {t}
  /\ UNCHANGED <<up, locked, task, begun, stale, writer, meddled>>

\* The QSqlQuery is destroyed: in simpleQuery and defaultQuery on return,
\* elsewhere at the end of its scope.
Finish(t) ==
  /\ Runs(t) /\ t \in open
  /\ open' = open \ {t}
  /\ seen' = IF t \in begun THEN seen ELSE seen \ {t}
  /\ stale' = stale \cap seen'
  /\ UNCHANGED <<up, locked, task, begun, writer, meddled>>

\* An insertion, update or deletion on connection c.
Fails(c) ==
  /\ c \in stale
  /\ up' = FALSE
  /\ UNCHANGED <<seen, stale, writer>>

Writes(c) ==
  /\ c \notin stale /\ writer \in {Nobody, c}
  /\ IF c \in begun
     THEN seen' = seen \cup {c} /\ writer' = c /\ stale' = stale
     ELSE seen' = seen /\ writer' = writer /\ stale' = seen \ {c}
  /\ up' = up

Query(t) ==
  /\ Holds(t)
  /\ Fails(t) \/ Writes(t)
  /\ UNCHANGED <<locked, task, begun, open, meddled>>

\* PhotoDB::markAllSeen, which takes no lock.
MarkAllSeen ==
  /\ Rests(Main) /\ Main \notin open
  /\ Fails(Main) \/ Writes(Main)
  /\ meddled' = (meddled \/ locked # Nobody)
  /\ UNCHANGED <<locked, task, begun, open>>

-----------------------------------------------------------------------------
(* The mutex *)

\* Mutant of Ask: what was read before may still be open.
AskWhileReading(t, whole, c) ==
  /\ Rests(t)
  /\ task' = [task EXCEPT ![t] = [at |-> "waits", whole |-> whole, conn |-> c]]
  /\ UNCHANGED <<up, locked, begun, open, seen, stale, writer, meddled>>

\* lockForWriting is called, by a DBWriteLock or for a whole transaction on
\* connection c.  What was read before has gone out of scope.
Ask(t, whole, c) ==
  /\ Rests(t) /\ t \notin open
  /\ task' = [task EXCEPT ![t] = [at |-> "waits", whole |-> whole, conn |-> c]]
  /\ UNCHANGED <<up, locked, begun, open, seen, stale, writer, meddled>>

DBWriteLock(t) == Ask(t, FALSE, t)

Transaction(t) == Ask(t, TRUE, t)

\* Scanner::addTree: Main opens the transaction on the scanner's connection,
\* and writes on its own.
AddTree == Ask(Main, TRUE, Scanner)

\* SliderClipboard::apply holds a transaction and calls writeToDB without
\* telling it so, which asks again.
ApplyClipboard ==
  /\ Holds(Main) /\ task[Main].whole /\ task[Main].conn = Main
  /\ task' = [task EXCEPT ![Main].at = "waits"]
  /\ UNCHANGED <<up, locked, begun, open, seen, stale, writer, meddled>>

\* Database::begin fails if the connection is in a transaction.
Begin(c) ==
  /\ up' = (c \notin begun)
  /\ begun' = begun \cup {c}

LockForWriting(t) ==
  /\ up /\ task[t].at = "waits" /\ locked = Nobody
  /\ locked' = t
  /\ task' = [task EXCEPT ![t].at = "holds"]
  /\ IF task[t].whole THEN Begin(task[t].conn) ELSE UNCHANGED <<up, begun>>
  /\ UNCHANGED <<open, seen, stale, writer, meddled>>

\* ~DBWriteLock.
UnlockForWriting(t) ==
  /\ Holds(t) /\ ~ task[t].whole
  /\ locked' = Nobody
  /\ task' = [task EXCEPT ![t] = Rest]
  /\ UNCHANGED <<up, begun, open, seen, stale, writer, meddled>>

\* The transaction on connection c ends; if it is committed, others that have
\* read something see it no more as it is.
Ends(c, committed) ==
  /\ begun' = begun \ {c}
  /\ seen' = IF c \in open THEN seen ELSE seen \ {c}
  /\ writer' = IF writer = c THEN Nobody ELSE writer
  /\ stale' = IF writer = c /\ committed THEN seen \ {c} ELSE stale \cap seen'

\* Transaction::commit.
Commit(t) ==
  /\ Holds(t) /\ task[t].whole
  /\ Ends(task[t].conn, TRUE)
  /\ locked' = Nobody
  /\ task' = [task EXCEPT ![t] = Rest]
  /\ UNCHANGED <<up, open, meddled>>

\* ~Transaction of one that was not committed.
Rollback(t) ==
  /\ Holds(t) /\ task[t].whole /\ t \notin open
  /\ Ends(task[t].conn, FALSE)
  /\ locked' = Nobody
  /\ task' = [task EXCEPT ![t] = Rest]
  /\ UNCHANGED <<up, open, meddled>>

Releases(t) == UnlockForWriting(t) \/ Commit(t) \/ Rollback(t)

Next ==
  \/ MarkAllSeen
  \/ AddTree
  \/ ApplyClipboard
  \/ \E t \in Threads :
       \/ ConstQuery(t) \/ Finish(t) \/ Query(t)
       \/ DBWriteLock(t) \/ Transaction(t)
       \/ LockForWriting(t) \/ Releases(t)

Spec == Init /\ [][Next]_vars

-----------------------------------------------------------------------------
(* Properties *)

\* No statement fails, whatever is read without the lock and committed by others
\* in the meantime, and no transaction is begun within another on the same
\* connection, unless markAllSeen wrote while another thread held the mutex.
StatementsSucceed == up \/ meddled
=============================================================================
