-------------------------------- MODULE Streams --------------------------------
(***************************************************************************)
(* The calls of a DataSourceHandle that borrow one connection each from a  *)
(* PsycopgPool: single commands (query, execute, execute_many, view,       *)
(* function, procedure, copy_stream, and the probe of health), streams     *)
(* behind a server-side cursor, and listeners.  A stream or a listener is  *)
(* an async generator: between two rows its consumer has control, may make *)
(* other calls, and may drop it.  The event loop then closes the handle's  *)
(* generator, which gives the connection back, and, in a task of its own,  *)
(* the driver's, which still has a cursor in a transaction, or notifies()  *)
(* with the lock of the connection.                                        *)
(***************************************************************************)
EXTENDS FiniteSets, Naturals

CONSTANTS
    Calls,      \* calls of the handle; one that is over may be made again
    Conns,      \* max_size places for a connection in the pool
    Channels,   \* NOTIFY channels
    None

ASSUME StreamsAssumption == None \notin Calls \cup Conns \cup Channels

VARIABLES
    pool,       \* "new", "open" or "closed"
    idle,       \* the connections that the pool can hand out
    pc,         \* where each call is suspended
    kind,       \* which operation it is
    channel,    \* the channel it listens on
    inside,     \* the generator in whose loop body it is made, if it is
    conn,       \* the connection it has borrowed
    inner,      \* the connection on which its driver generator is still to be closed
    txn,        \* the transaction status of each session
    listening   \* the channels each session is subscribed to

vars == <<pool, idle, pc, kind, channel, inside, conn, inner, txn, listening>>

Kinds == {"command", "stream", "listen"}

TypeOK ==
    /\ pool \in {"new", "open", "closed"}
    /\ idle \subseteq Conns
    /\ pc \in [Calls -> {"over", "acquiring", "holding", "yielding", "dropped", "releasing"}]
    /\ kind \in [Calls -> Kinds]
    /\ channel \in [Calls -> Channels \cup {None}]
    /\ inside \in [Calls -> Calls \cup {None}]
    /\ conn \in [Calls -> Conns \cup {None}]
    /\ inner \in [Calls -> Conns \cup {None}]
    /\ txn \in [Conns -> {"idle", "open", "active", "broken"}]
    /\ listening \in [Conns -> SUBSET Channels]

Init ==
    /\ pool = "new"
    /\ idle = {}
    /\ pc = [k \in Calls |-> "over"]
    /\ kind = [k \in Calls |-> "command"]
    /\ channel = [k \in Calls |-> None]
    /\ inside = [k \in Calls |-> None]
    /\ conn = [k \in Calls |-> None]
    /\ inner = [k \in Calls |-> None]
    /\ txn = [c \in Conns |-> "idle"]
    /\ listening = [c \in Conns |-> {}]

Borrowed(c) == \E k \in Calls : conn[k] = c

\* The consumer of k is in its loop body, between two rows, and not in a call.
Between(k) == pc[k] = "yielding" /\ \A j \in Calls : inside[j] # k

\* notifies() of a listener that was dropped has the lock of the connection.
Locked(c) == \E k \in Calls : inner[k] = c /\ kind[k] = "listen"

Listens(k) == pc[k] = "yielding" /\ kind[k] = "listen"

Goto(k, label) == pc' = [pc EXCEPT ![k] = label]

call == <<kind, channel, inside>>
-------------------------------------------------------------------------------
\* Mutant: listen() does not pass the channel on.
StartMutant(k) ==
    /\ pc[k] = "over" /\ inner[k] = None
    /\ \E what \in Kinds : kind' = [kind EXCEPT ![k] = what]
    /\ channel' = [channel EXCEPT ![k] = None]
    /\ \E g \in {None} \cup {j \in Calls : Between(j)} : inside' = [inside EXCEPT ![k] = g]
    /\ Goto(k, "acquiring")
    /\ UNCHANGED <<pool, idle, conn, inner, txn, listening>>

\* A call of the handle comes to acquire(), or to its turn there, perhaps from the loop body of a stream
\* or of a listener.
Start(k) ==
    /\ pc[k] = "over" /\ inner[k] = None
    /\ \E what \in Kinds, ch \in Channels :
           /\ kind' = [kind EXCEPT ![k] = what]
           /\ channel' = [channel EXCEPT ![k] = IF what = "listen" THEN ch ELSE None]
    /\ \E g \in {None} \cup {j \in Calls : Between(j)} : inside' = [inside EXCEPT ![k] = g]
    /\ Goto(k, "acquiring")
    /\ UNCHANGED <<pool, idle, conn, inner, txn, listening>>

Acquire(k) ==
    /\ pc[k] = "acquiring"
    /\ \E c \in idle :
           /\ conn' = [conn EXCEPT ![k] = c]
           /\ idle' = idle \ {c}
    /\ Goto(k, "holding")
    /\ UNCHANGED <<pool, call, inner, txn, listening>>

\* Mutant: the acquire timeout is not passed to the pool.
GiveUpMutant(k) ==
    /\ pc[k] = "acquiring" /\ pool # "open"
    /\ inside' = [inside EXCEPT ![k] = None]
    /\ Goto(k, "over")
    /\ UNCHANGED <<pool, idle, kind, channel, conn, inner, txn, listening>>

\* acquire() raises: the timeout is over, the pool is not open, or the caller is
\* cancelled.
GiveUp(k) ==
    /\ pc[k] = "acquiring"
    /\ inside' = [inside EXCEPT ![k] = None]
    /\ Goto(k, "over")
    /\ UNCHANGED <<pool, idle, kind, channel, conn, inner, txn, listening>>

\* One command in autocommit: answered or refused.  Cancelled in its midst, it may
\* leave the session busy.
Command(k) ==
    /\ pc[k] = "holding" /\ kind[k] = "command" /\ ~Locked(conn[k])
    /\ \/ UNCHANGED txn
       \/ txn[conn[k]] = "idle" /\ txn' = [txn EXCEPT ![conn[k]] = "active"]
    /\ Goto(k, "releasing")
    /\ UNCHANGED <<pool, idle, call, conn, inner, listening>>

\* stream(): BEGIN, DECLARE and the first FETCH, up to the first row.
OpenCursor(k) ==
    /\ pc[k] = "holding" /\ kind[k] = "stream" /\ ~Locked(conn[k])
    /\ txn[conn[k]] = "idle"
    /\ txn' = [txn EXCEPT ![conn[k]] = "open"]
    /\ Goto(k, "yielding")
    /\ UNCHANGED <<pool, idle, call, conn, inner, listening>>

\* listen(): LISTEN, and from then on the events of every channel that the session is
\* subscribed to.
Subscribe(k) ==
    /\ pc[k] = "holding" /\ kind[k] = "listen" /\ ~Locked(conn[k])
    /\ txn[conn[k]] = "idle"
    /\ listening' = [listening EXCEPT ![conn[k]] = @ \cup {channel[k]}]
    /\ Goto(k, "yielding")
    /\ UNCHANGED <<pool, idle, call, conn, inner, txn>>

\* The first command of a generator raises, or is cancelled and perhaps in effect.
NotOpened(k) ==
    /\ pc[k] = "holding" /\ kind[k] # "command" /\ ~Locked(conn[k])
    /\ \/ UNCHANGED <<txn, listening>>
       \/ /\ txn[conn[k]] = "idle"
          /\ txn' = [txn EXCEPT ![conn[k]] = "active"]
          /\ listening' = IF kind[k] = "listen"
                          THEN [listening EXCEPT ![conn[k]] = @ \cup {channel[k]}]
                          ELSE listening
    /\ Goto(k, "releasing")
    /\ UNCHANGED <<pool, idle, call, conn, inner>>

\* A generator ends by itself, by an error or by cancellation, the driver's within
\* the handle's: COMMIT or ROLLBACK, and nothing for a listener.
End(k) ==
    /\ Between(k)
    /\ txn' = [txn EXCEPT ![conn[k]] = IF @ = "open" THEN "idle" ELSE @]
    /\ Goto(k, "releasing")
    /\ UNCHANGED <<pool, idle, call, conn, inner, listening>>

\* The consumer leaves its loop early and drops the generator.
Drop(k) ==
    /\ Between(k)
    /\ inside' = [inside EXCEPT ![k] = None]
    /\ Goto(k, "dropped")
    /\ UNCHANGED <<pool, idle, kind, channel, conn, inner, txn, listening>>

\* Mutant: stream() and listen() have no finally.
CloseOuterMutant(k) ==
    /\ pc[k] = "dropped"
    /\ Goto(k, "over")
    /\ inner' = [inner EXCEPT ![k] = conn[k]]
    /\ UNCHANGED <<pool, idle, call, conn, txn, listening>>

\* The event loop closes the handle's generator, which comes to its finally and
\* lets go of the driver's.
CloseOuter(k) ==
    /\ pc[k] = "dropped"
    /\ inner' = [inner EXCEPT ![k] = conn[k]]
    /\ Goto(k, "releasing")
    /\ UNCHANGED <<pool, idle, call, conn, txn, listening>>

\* The event loop closes the driver's generator: ROLLBACK, or the lock is free.
CloseInner(k) ==
    /\ inner[k] # None
    /\ inner' = [inner EXCEPT ![k] = None]
    /\ txn' = IF kind[k] = "stream" /\ txn[inner[k]] = "open"
              THEN [txn EXCEPT ![inner[k]] = "idle"] ELSE txn
    /\ UNCHANGED <<pool, idle, pc, call, conn, listening>>
-------------------------------------------------------------------------------
\* Mutant: an unfinished transaction is rolled back under an open cursor, too.
ReusableMutant(c) == pool = "open" /\ txn[c] \in {"idle", "open"}

\* putconn() keeps a session that is idle, or whose transaction it can roll back;
\* under a driver generator that is not closed, psycopg forbids the ROLLBACK.
Reusable(c) ==
    /\ pool = "open"
    /\ \/ txn[c] = "idle"
       \/ txn[c] = "open" /\ \A k \in Calls : inner[k] # c

\* The places of cs are empty: their connections are closed, whoever still refers
\* to them.
Vacated(cs) ==
    /\ txn' = [c \in Conns |-> IF c \in cs THEN "idle" ELSE txn[c]]
    /\ listening' = [c \in Conns |-> IF c \in cs THEN {} ELSE listening[c]]
    /\ inner' = [k \in Calls |-> IF inner[k] \in cs THEN None ELSE inner[k]]

\* Mutant: release() keeps every session, as it is.
ReleaseMutant(k) ==
    /\ pc[k] = "releasing"
    /\ idle' = idle \cup {conn[k]}
    /\ conn' = [conn EXCEPT ![k] = None]
    /\ inside' = [inside EXCEPT ![k] = None]
    /\ Goto(k, "over")
    /\ UNCHANGED <<pool, kind, channel, inner, txn, listening>>

\* release(): the pool keeps the session, subscriptions and all, or closes it.
Release(k) ==
    /\ pc[k] = "releasing"
    /\ LET c == conn[k] IN
           \/ /\ Reusable(c)
              /\ idle' = idle \cup {c}
              /\ txn' = [txn EXCEPT ![c] = "idle"]
              /\ UNCHANGED <<listening, inner>>
           \/ /\ ~Reusable(c)
              /\ Vacated({c})
              /\ UNCHANGED idle
    /\ conn' = [conn EXCEPT ![k] = None]
    /\ inside' = [inside EXCEPT ![k] = None]
    /\ Goto(k, "over")
    /\ UNCHANGED <<pool, kind, channel>>

\* open() of the pool; the rest is its workers'.
OpenPool ==
    /\ pool = "new" /\ pool' = "open"
    /\ UNCHANGED <<idle, pc, call, conn, inner, txn, listening>>

\* Mutant: close() leaves the idle connections to their age.
ClosePoolMutant ==
    /\ pool = "open" /\ pool' = "closed"
    /\ UNCHANGED <<idle, pc, call, conn, inner, txn, listening>>

\* close() closes what is idle and waits for nobody; a closed pool stays closed, and
\* a pool that was not opened has nothing to close.
ClosePool ==
    /\ pool = "open" /\ pool' = "closed"
    /\ Vacated(idle)
    /\ idle' = {}
    /\ UNCHANGED <<pc, call, conn>>

\* A worker of the pool connects, and _configure sets autocommit.
Connect(c) ==
    /\ pool = "open" /\ c \notin idle /\ ~Borrowed(c)
    /\ idle' = idle \cup {c}
    /\ UNCHANGED <<pool, pc, call, conn, inner, txn, listening>>

\* A worker closes a connection that is idle or alive too long.
Retire(c) ==
    /\ c \in idle
    /\ idle' = idle \ {c}
    /\ Vacated({c})
    /\ UNCHANGED <<pool, pc, call, conn>>

\* The server end of a connection is gone.
Break(c) ==
    /\ c \in idle \/ Borrowed(c)
    /\ txn[c] # "broken"
    /\ txn' = [txn EXCEPT ![c] = "broken"]
    /\ UNCHANGED <<pool, idle, pc, call, conn, inner, listening>>

Next ==
    \/ \E k \in Calls :
           \/ Start(k) \/ Acquire(k) \/ GiveUp(k)
           \/ Command(k) \/ OpenCursor(k) \/ Subscribe(k) \/ NotOpened(k)
           \/ End(k) \/ Drop(k) \/ CloseOuter(k) \/ CloseInner(k)
           \/ Release(k)
    \/ OpenPool \/ ClosePool
    \/ \E c \in Conns : Connect(c) \/ Retire(c) \/ Break(c)

Spec == Init /\ [][Next]_vars

\* The event loop runs every ready task and closes dropped generators; the pool hands
\* connections to those who wait, in the order they came, replaces what it closed, and
\* refuses at once when it is not open; and the consumer of a stream goes on or drops it
\* after finitely many calls in its loop body.  The acquire timeout is assumed of calls
\* in a loop body only.
FairSpec ==
    /\ Spec
    /\ \A k \in Calls :
           /\ SF_vars(Acquire(k))
           /\ WF_vars((pool # "open" \/ inside[k] # None) /\ GiveUp(k))
           /\ WF_vars(Command(k) \/ OpenCursor(k) \/ Subscribe(k) \/ NotOpened(k))
           /\ SF_vars(kind[k] = "stream" /\ (End(k) \/ Drop(k)))
           /\ WF_vars(CloseOuter(k))
           /\ WF_vars(CloseInner(k))
           /\ WF_vars(Release(k))
    /\ \A c \in Conns : WF_vars(Connect(c))
-------------------------------------------------------------------------------
\* Who may still send a command to session c: the call that borrowed it, and a
\* stream whose driver generator is not closed.
Uses(k, c) == conn[k] = c \/ (inner[k] = c /\ kind[k] = "stream")

\* No session has two users, and one that the pool can hand out has none: a stream
\* that is dropped early never rolls back the work of the next borrower (api/handle.py:
\* the finally of stream() runs before the driver's generator is closed).
OneUser ==
    /\ \A c \in Conns, j, k \in Calls : Uses(j, c) /\ Uses(k, c) => j = k
    /\ \A c \in idle, k \in Calls : ~Uses(k, c)

\* What the pool hands out is outside a transaction (or dead), and there is nothing
\* to hand out once close() began.
IdleIsReady ==
    /\ \A c \in idle : txn[c] \in {"idle", "broken"}
    /\ pool # "open" => idle = {}

\* A listener gets the events of its own channel and of no other: the sessions that
\* listen() borrows carry no subscription of an earlier listener (drivers/psycopg_driver.py:
\* listen() never sends UNLISTEN).
OwnEventsOnly ==
    \A k \in Calls : Listens(k) => listening[conn[k]] \subseteq {channel[k]}

\* The calls that a listener pins: its own, and those in whose loop bodies it runs.
Pinned ==
    LET around[n \in 0..Cardinality(Calls)] ==
            IF n = 0 THEN {k \in Calls : Listens(k)}
            ELSE around[n - 1] \cup {k \in Calls : \E j \in around[n - 1] : inside[j] = k}
    IN  around[Cardinality(Calls)]

\* Every borrowed connection comes back, however the consumer leaves its stream, or
\* it is pinned by a listener that goes on.
ComesBack == \A c \in Conns : []<>(~Borrowed(c) \/ \E k \in Pinned : conn[k] = c)

\* Who waits for a connection gets one, or an error, without the help of a timeout, unless
\* listeners pin all connections: a pool that is exhausted is so for a while only, one that
\* is closed lets nobody wait, and the one deadlock there is, of streams whose loop bodies
\* all wait for another connection, ends with the timeouts of these calls (api/handle.py).
WaitsEnd ==
    \A k \in Calls :
        pc[k] = "acquiring" ~>
            \/ pc[k] # "acquiring"
            \/ \A c \in Conns : \E j \in Pinned : conn[j] = c

User(c) == IF \E k \in Calls : Uses(k, c) THEN CHOOSE k \in Calls : Uses(k, c) ELSE None

\* The pool keeps the promise of Borrowing: who may work on a session is its only
\* borrower, and it comes back outside a transaction.
Promise == INSTANCE Borrowing
               WITH Borrowers <- Calls, Sessions <- Conns, Nobody <- None,
                    borrower <- [c \in Conns |-> User(c)],
                    inTxn <- [c \in Conns |-> txn[c] \in {"open", "active"}]
KeepsPromise == Promise!Spec
===============================================================================
