------------------------------ MODULE Workers ------------------------------
(***************************************************************************)
(* Starting and running the worker processes of a Python backend: the key  *)
(* file (crypto_utils.py), and of db.py the start (init_db), the           *)
(* connection (get_conn) and the writer thread (ensure_writer_started),    *)
(* each a global of its process, over one SQLite file.                     *)
(*                                                                         *)
(* A worker either imports the application itself or is forked from a      *)
(* master that has.  A fork copies the globals but no thread except the    *)
(* one that forks.  The steps within one message are those of BackendStore;*)
(* here a message is accepted in one step.                                 *)
(*                                                                         *)
(* Names that Sealing has too differ from its: the proofs extend both.     *)
(***************************************************************************)
EXTENDS Naturals, Sequences, FiniteSets, Functions

CONSTANTS
    Workers,
    Master,        \* the process that forks workers, when the application is preloaded
    Requests,      \* messages that clients send, each to any worker
    Ids, IdOf,     \* the message id of each
    Nothing,       \* no file, no key, no connection
    Torn,          \* the contents of a key file opened for writing
    QueueCap,      \* maxsize of _write_queue
    MaxCrashes     \* bound: crashes in a behaviour

Procs == Workers \union {Master}

ASSUME WorkersConstants ==
    /\ Master \notin Workers /\ Nothing \notin Procs
    /\ Nothing # Torn /\ Nothing \notin Nat /\ Torn \notin Nat
    /\ IdOf \in [Requests -> Ids]
    /\ QueueCap \in Nat \ {0} /\ MaxCrashes \in Nat

VARIABLES
    preload,       \* whether the master imports the application and forks
    \* shared
    file,          \* secret.key
    table,         \* the messages table
    \* of each process
    pc, key,       \* its control point while it starts, its Fernet key
    seen, queue,
    started,       \* _writer_started
    writer,        \* whether it has a writer thread
    conn,          \* _conn, as the process that opened it (_conn_pid)
    \* of each message
    worker,        \* who accepted it
    \* history and bounds
    generated,     \* keys generated so far
    overlap,       \* two processes were creating the key file at a time
    lost,          \* messages in the queue of a process that died
    crashes

keyfile == <<file, generated, overlap>>
memory == <<seen, queue, started, writer, conn>>
workersVars == <<preload, keyfile, table, pc, key, memory, worker, lost, crashes>>

Creating == {p \in Procs : pc[p] \in {"create", "opened"}}
Serving == {w \in Workers : pc[w] = "serving"}
RowIds == {IdOf[row.post] : row \in Range(table)}

WorkersInit ==
    /\ preload \in BOOLEAN
    /\ file = Nothing /\ table = <<>>
    /\ pc = [p \in Procs |-> "down"] /\ key = [p \in Procs |-> Nothing]
    /\ seen = [p \in Procs |-> {}] /\ queue = [p \in Procs |-> <<>>]
    /\ started = [p \in Procs |-> FALSE] /\ writer = [p \in Procs |-> FALSE]
    /\ conn = [p \in Procs |-> Nothing]
    /\ worker = [m \in Requests |-> Nothing]
    /\ generated = 0 /\ overlap = FALSE /\ lost = {} /\ crashes = 0

Move(p, l) == pc' = [pc EXCEPT ![p] = l]
Imports(p) == IF preload THEN p = Master ELSE p \in Workers

-----------------------------------------------------------------------------
(***************************************************************************)
(* _load_or_create_key.  CHAT_SECRET_KEY is not set.                       *)
(***************************************************************************)
Create(p) ==
    /\ generated' = generated + 1
    /\ key' = [key EXCEPT ![p] = generated + 1]
    /\ overlap' = (overlap \/ Creating # {})
    /\ Move(p, "create")

\* Fault: a key is generated by each start.
CheckKeyNever(p) ==
    /\ Imports(p) /\ pc[p] = "down"
    /\ Create(p)
    /\ UNCHANGED <<preload, file, table, memory, worker, lost, crashes>>

CheckKey(p) ==
    /\ Imports(p) /\ pc[p] = "down"
    /\ IF file = Nothing THEN Create(p) ELSE Move(p, "read") /\ UNCHANGED <<key, generated, overlap>>
    /\ UNCHANGED <<preload, file, table, memory, worker, lost, crashes>>

\* open(.., "wb") empties the file or makes an empty one.
OpenKey(p) ==
    /\ pc[p] = "create"
    /\ file' = Torn
    /\ Move(p, "opened")
    /\ UNCHANGED <<preload, generated, overlap, table, key, memory, worker, lost, crashes>>

WriteKey(p) ==
    /\ pc[p] = "opened"
    /\ file' = key[p]
    /\ Move(p, "db")
    /\ UNCHANGED <<preload, generated, overlap, table, key, memory, worker, lost, crashes>>

\* Fault: the error is swallowed, and the process stays without serving.
ReadKeyHangs(p) ==
    /\ pc[p] = "read"
    /\ IF file = Torn
       THEN Move(p, "hung") /\ UNCHANGED key
       ELSE Move(p, "db") /\ key' = [key EXCEPT ![p] = file]
    /\ UNCHANGED <<preload, keyfile, table, memory, worker, lost, crashes>>

\* Fernet raises for an empty key: the import fails, and the process with it.
ReadKey(p) ==
    /\ pc[p] = "read"
    /\ IF file = Torn
       THEN Move(p, "down") /\ UNCHANGED key
       ELSE Move(p, "db") /\ key' = [key EXCEPT ![p] = file]
    /\ UNCHANGED <<preload, keyfile, table, memory, worker, lost, crashes>>

-----------------------------------------------------------------------------
(***************************************************************************)
(* init_db, which ends with ensure_writer_started; then get_last_hash of   *)
(* app.py opens the connection.                                            *)
(***************************************************************************)
\* Fault: the flag is set and no thread started.
InitDbFlagOnly(p) ==
    /\ pc[p] = "db"
    /\ seen' = [seen EXCEPT ![p] = RowIds]
    /\ started' = [started EXCEPT ![p] = TRUE]
    /\ conn' = [conn EXCEPT ![p] = p]
    /\ Move(p, "serving")
    /\ UNCHANGED <<preload, keyfile, table, key, queue, writer, worker, lost, crashes>>

InitDb(p) ==
    /\ pc[p] = "db"
    /\ seen' = [seen EXCEPT ![p] = RowIds]
    /\ started' = [started EXCEPT ![p] = TRUE] /\ writer' = [writer EXCEPT ![p] = TRUE]
    /\ conn' = [conn EXCEPT ![p] = p]
    /\ Move(p, "serving")
    /\ UNCHANGED <<preload, keyfile, table, key, queue, worker, lost, crashes>>

Fork(w) ==
    /\ preload /\ w \in Workers
    /\ pc[Master] = "serving" /\ pc[w] = "down"
    /\ key' = [key EXCEPT ![w] = key[Master]]
    /\ seen' = [seen EXCEPT ![w] = seen[Master]]
    /\ started' = [started EXCEPT ![w] = started[Master]] /\ conn' = [conn EXCEPT ![w] = conn[Master]]
    /\ Move(w, "serving")
    /\ UNCHANGED <<preload, keyfile, table, queue, writer, worker, lost, crashes>>

-----------------------------------------------------------------------------
\* Fault: the connection is kept over a fork.
GetConnKept(p) == IF conn[p] = Nothing THEN p ELSE conn[p]

\* get_conn
GetConn(p) == IF conn[p] = p THEN conn[p] ELSE p

InsertOrIgnore(p, m) ==
    /\ conn' = [conn EXCEPT ![p] = GetConn(p)]
    /\ table' = IF IdOf[m] \in RowIds THEN table
               ELSE Append(table, [post |-> m, by |-> p, key |-> key[p], conn |-> conn'[p]])

\* POST /message; ensure_writer_started trusts the flag.
Accept(w, m) ==
    /\ w \in Serving
    /\ worker[m] = Nothing
    /\ worker' = [worker EXCEPT ![m] = w]
    /\ started' = [started EXCEPT ![w] = TRUE]
    /\ writer' = [writer EXCEPT ![w] = @ \/ ~started[w]]
    /\ IF IdOf[m] \in seen[w] THEN UNCHANGED <<seen, queue, conn, table>>
       ELSE /\ seen' = [seen EXCEPT ![w] = @ \union {IdOf[m]}]
            /\ IF Len(queue[w]) < QueueCap
               THEN queue' = [queue EXCEPT ![w] = Append(@, m)] /\ UNCHANGED <<conn, table>>
               ELSE InsertOrIgnore(w, m) /\ UNCHANGED queue
    /\ UNCHANGED <<preload, keyfile, pc, key, lost, crashes>>

\* _background_writer
Write(w) ==
    /\ writer[w] /\ queue[w] # <<>>
    /\ queue' = [queue EXCEPT ![w] = Tail(@)]
    /\ InsertOrIgnore(w, Head(queue[w]))
    /\ UNCHANGED <<preload, keyfile, pc, key, seen, started, writer, worker, lost, crashes>>

-----------------------------------------------------------------------------
\* A process dies, to be started again; a master not while it has workers.
Crash(p) ==
    /\ crashes < MaxCrashes
    /\ pc[p] # "down"
    /\ p = Master => \A w \in Workers : pc[w] = "down"
    /\ crashes' = crashes + 1
    /\ Move(p, "down")
    /\ key' = [key EXCEPT ![p] = Nothing]
    /\ seen' = [seen EXCEPT ![p] = {}]
    /\ queue' = [queue EXCEPT ![p] = <<>>] /\ lost' = lost \union Range(queue[p])
    /\ started' = [started EXCEPT ![p] = FALSE] /\ writer' = [writer EXCEPT ![p] = FALSE]
    /\ conn' = [conn EXCEPT ![p] = Nothing]
    /\ UNCHANGED <<preload, keyfile, table, worker>>

-----------------------------------------------------------------------------
Starting(p) == CheckKey(p) \/ OpenKey(p) \/ WriteKey(p) \/ ReadKey(p) \/ InitDb(p) \/ Fork(p)

WorkersNext ==
    \/ \E p \in Procs : Starting(p) \/ Crash(p)
    \/ \E w \in Workers : Write(w) \/ \E m \in Requests : Accept(w, m)

WorkersSpec == WorkersInit /\ [][WorkersNext]_workersVars

\* Gunicorn and the supervisor start what is down; processes and threads run.
Fairness ==
    /\ \A p \in Procs : WF_workersVars(Starting(p))
    /\ \A w \in Workers : WF_workersVars(Write(w))

FairSpec == WorkersSpec /\ Fairness

-----------------------------------------------------------------------------
\* Unless two processes once were between "no file" and "file written" at a
\* time, everybody serves with the key that is in the file, restarts included,
\* so that every row decrypts with it; forked workers never disagree.
KeysAgree ==
    /\ ~overlap => /\ \A w \in Serving : key[w] = file
                   /\ \A i \in DOMAIN table : table[i].key = file
    /\ preload => ~overlap

\* No process, forked or not, writes through a connection that another opened.
OwnConnection == \A i \in DOMAIN table : table[i].conn = table[i].by

\* Every worker comes to serve, whoever is creating the key meanwhile, unless
\* a crash left the empty key file that nobody can start from.
Poisoned == file = Torn /\ \A p \in Procs : pc[p] # "opened"
EventuallyServing == \A w \in Workers : pc[w] = "down" ~> pc[w] = "serving" \/ Poisoned

\* A worker that imported the application stores what it accepts, unless it
\* dies first; a duplicate is lost with its original.  A forked one does not: it
\* has no writer, and the inherited flag keeps it from starting one.
EventuallyStored ==
    \A m \in Requests :
        ~preload /\ worker[m] # Nothing ~> IdOf[m] \in RowIds \/ \E n \in lost : IdOf[n] = IdOf[m]
=============================================================================
