----------------------------- MODULE StreamsProofs -----------------------------
(***************************************************************************)
(* For any number of calls, connections and channels: the types, one user  *)
(* per session, and the refinement of Borrowing.  The invariant that makes *)
(* it inductive says who has a connection, and that an open cursor's       *)
(* transaction is never over before its driver generator is closed: that   *)
(* is why putconn() cannot keep the session.                               *)
(***************************************************************************)
EXTENDS Streams, TLAPS

Having == {"holding", "yielding", "dropped", "releasing"}

\* Whoever is past acquire() has a connection of its own that the pool cannot hand out.
Distinct ==
    /\ \A k \in Calls : conn[k] # None <=> pc[k] \in Having
    /\ \A j, k \in Calls : conn[j] = conn[k] /\ conn[j] # None => j = k
    /\ \A k \in Calls : conn[k] \notin idle

\* A place without a borrower holds no transaction.
Settled == \A c \in Conns : ~Borrowed(c) => txn[c] \in {"idle", "broken"}

\* The transaction of a cursor lasts until its generators are closed, and until then
\* the call has its connection.
CursorOpen ==
    \A k \in Calls : kind[k] = "stream" =>
        /\ pc[k] \in {"yielding", "dropped"} =>
               txn[conn[k]] \in {"open", "broken"} /\ inner[k] = None
        /\ inner[k] # None =>
               /\ pc[k] = "releasing" /\ inner[k] = conn[k]
               /\ txn[conn[k]] \in {"open", "broken"}

IInv ==
    /\ TypeOK /\ Distinct /\ Settled /\ CursorOpen
    /\ pool # "open" => idle = {}
    /\ \A k \in Calls : kind[k] = "listen" => channel[k] \in Channels
-------------------------------------------------------------------------------
\* The initial state satisfies the invariant.
LEMMA InitInv == Init => IInv
BY StreamsAssumption DEF Init, IInv, TypeOK, Distinct, Settled, CursorOpen, Borrowed, Having, Kinds

\* Start preserves the invariant.
LEMMA StartInv ==
    ASSUME IInv, NEW k \in Calls, Start(k)
    PROVE  IInv'
<1>1. TypeOK'
    BY StreamsAssumption DEF IInv, TypeOK, Kinds, Start, Goto, call, Between
<1>2. Distinct'
    BY StreamsAssumption DEF IInv, TypeOK, Distinct, Having, Start, Goto, call, Between
<1>3. Settled'
    BY StreamsAssumption DEF IInv, TypeOK, Distinct, Settled, Borrowed, Having, Start, Goto, call, Between
<1>4. CursorOpen'
    BY StreamsAssumption DEF IInv, TypeOK, Distinct, CursorOpen, Having, Kinds, Start, Goto, call, Between
<1>5. (pool # "open" => idle = {})'
    BY StreamsAssumption DEF IInv, Start, Goto, call, Between
<1>6. (\A j \in Calls : kind[j] = "listen" => channel[j] \in Channels)'
    BY StreamsAssumption DEF IInv, TypeOK, Start, Goto, call, Between
<1> QED BY <1>1, <1>2, <1>3, <1>4, <1>5, <1>6 DEF IInv

\* Acquire preserves the invariant.
LEMMA AcquireInv ==
    ASSUME IInv, NEW k \in Calls, Acquire(k)
    PROVE  IInv'
<1>1. TypeOK'
    BY StreamsAssumption DEF IInv, TypeOK, Kinds, Acquire, Goto, call
<1>2. Distinct'
    BY StreamsAssumption DEF IInv, TypeOK, Distinct, Having, Acquire, Goto, call
<1>3. Settled'
    BY StreamsAssumption DEF IInv, TypeOK, Distinct, Settled, Borrowed, Having, Acquire, Goto, call
<1>4. CursorOpen'
    BY StreamsAssumption DEF IInv, TypeOK, Distinct, CursorOpen, Having, Kinds, Acquire, Goto, call
<1>5. (pool # "open" => idle = {})'
    BY StreamsAssumption DEF IInv, Acquire, Goto, call
<1>6. (\A j \in Calls : kind[j] = "listen" => channel[j] \in Channels)'
    BY StreamsAssumption DEF IInv, TypeOK, Acquire, Goto, call
<1> QED BY <1>1, <1>2, <1>3, <1>4, <1>5, <1>6 DEF IInv

\* GiveUp preserves the invariant.
LEMMA GiveUpInv ==
    ASSUME IInv, NEW k \in Calls, GiveUp(k)
    PROVE  IInv'
<1>1. TypeOK'
    BY StreamsAssumption DEF IInv, TypeOK, Kinds, GiveUp, Goto, call
<1>2. Distinct'
    BY StreamsAssumption DEF IInv, TypeOK, Distinct, Having, GiveUp, Goto, call
<1>3. Settled'
    BY StreamsAssumption DEF IInv, TypeOK, Distinct, Settled, Borrowed, Having, GiveUp, Goto, call
<1>4. CursorOpen'
    BY StreamsAssumption DEF IInv, TypeOK, Distinct, CursorOpen, Having, Kinds, GiveUp, Goto, call
<1>5. (pool # "open" => idle = {})'
    BY StreamsAssumption DEF IInv, GiveUp, Goto, call
<1>6. (\A j \in Calls : kind[j] = "listen" => channel[j] \in Channels)'
    BY StreamsAssumption DEF IInv, TypeOK, GiveUp, Goto, call
<1> QED BY <1>1, <1>2, <1>3, <1>4, <1>5, <1>6 DEF IInv

\* Command preserves the invariant.
LEMMA CommandInv ==
    ASSUME IInv, NEW k \in Calls, Command(k)
    PROVE  IInv'
<1>1. TypeOK'
    BY StreamsAssumption DEF IInv, TypeOK, Kinds, Command, Goto, call, Locked
<1>2. Distinct'
    BY StreamsAssumption DEF IInv, TypeOK, Distinct, Having, Command, Goto, call, Locked
<1>3. Settled'
    BY StreamsAssumption DEF IInv, TypeOK, Distinct, Settled, Borrowed, Having, Command, Goto, call, Locked
<1>4. CursorOpen'
    BY StreamsAssumption DEF IInv, TypeOK, Distinct, CursorOpen, Having, Kinds, Command, Goto, call, Locked
<1>5. (pool # "open" => idle = {})'
    BY StreamsAssumption DEF IInv, Command, Goto, call, Locked
<1>6. (\A j \in Calls : kind[j] = "listen" => channel[j] \in Channels)'
    BY StreamsAssumption DEF IInv, TypeOK, Command, Goto, call, Locked
<1> QED BY <1>1, <1>2, <1>3, <1>4, <1>5, <1>6 DEF IInv

\* OpenCursor preserves the invariant.
LEMMA OpenCursorInv ==
    ASSUME IInv, NEW k \in Calls, OpenCursor(k)
    PROVE  IInv'
<1>1. TypeOK'
    BY StreamsAssumption DEF IInv, TypeOK, Kinds, OpenCursor, Goto, call, Locked
<1>2. Distinct'
    BY StreamsAssumption DEF IInv, TypeOK, Distinct, Having, OpenCursor, Goto, call, Locked
<1>3. Settled'
    BY StreamsAssumption DEF IInv, TypeOK, Distinct, Settled, Borrowed, Having, OpenCursor, Goto, call, Locked
<1>4. CursorOpen'
    BY StreamsAssumption DEF IInv, TypeOK, Distinct, CursorOpen, Having, Kinds, OpenCursor, Goto, call, Locked
<1>5. (pool # "open" => idle = {})'
    BY StreamsAssumption DEF IInv, OpenCursor, Goto, call, Locked
<1>6. (\A j \in Calls : kind[j] = "listen" => channel[j] \in Channels)'
    BY StreamsAssumption DEF IInv, TypeOK, OpenCursor, Goto, call, Locked
<1> QED BY <1>1, <1>2, <1>3, <1>4, <1>5, <1>6 DEF IInv

\* Subscribe preserves the invariant.
LEMMA SubscribeInv ==
    ASSUME IInv, NEW k \in Calls, Subscribe(k)
    PROVE  IInv'
<1>1. TypeOK'
    BY StreamsAssumption DEF IInv, TypeOK, Kinds, Subscribe, Goto, call, Locked
<1>2. Distinct'
    BY StreamsAssumption DEF IInv, TypeOK, Distinct, Having, Subscribe, Goto, call, Locked
<1>3. Settled'
    BY StreamsAssumption DEF IInv, TypeOK, Distinct, Settled, Borrowed, Having, Subscribe, Goto, call, Locked
<1>4. CursorOpen'
    BY StreamsAssumption DEF IInv, TypeOK, Distinct, CursorOpen, Having, Kinds, Subscribe, Goto, call, Locked
<1>5. (pool # "open" => idle = {})'
    BY StreamsAssumption DEF IInv, Subscribe, Goto, call, Locked
<1>6. (\A j \in Calls : kind[j] = "listen" => channel[j] \in Channels)'
    BY StreamsAssumption DEF IInv, TypeOK, Subscribe, Goto, call, Locked
<1> QED BY <1>1, <1>2, <1>3, <1>4, <1>5, <1>6 DEF IInv

\* NotOpened preserves the invariant.
LEMMA NotOpenedInv ==
    ASSUME IInv, NEW k \in Calls, NotOpened(k)
    PROVE  IInv'
<1>1. TypeOK'
    BY StreamsAssumption DEF IInv, TypeOK, Kinds, NotOpened, Goto, call, Locked
<1>2. Distinct'
    BY StreamsAssumption DEF IInv, TypeOK, Distinct, Having, NotOpened, Goto, call, Locked
<1>3. Settled'
    BY StreamsAssumption DEF IInv, TypeOK, Distinct, Settled, Borrowed, Having, NotOpened, Goto, call, Locked
<1>4. CursorOpen'
    BY StreamsAssumption DEF IInv, TypeOK, Distinct, CursorOpen, Having, Kinds, NotOpened, Goto, call, Locked
<1>5. (pool # "open" => idle = {})'
    BY StreamsAssumption DEF IInv, NotOpened, Goto, call, Locked
<1>6. (\A j \in Calls : kind[j] = "listen" => channel[j] \in Channels)'
    BY StreamsAssumption DEF IInv, TypeOK, NotOpened, Goto, call, Locked
<1> QED BY <1>1, <1>2, <1>3, <1>4, <1>5, <1>6 DEF IInv

\* End preserves the invariant.
LEMMA EndInv ==
    ASSUME IInv, NEW k \in Calls, End(k)
    PROVE  IInv'
<1>1. TypeOK'
    BY StreamsAssumption DEF IInv, TypeOK, Kinds, End, Goto, call, Between
<1>2. Distinct'
    BY StreamsAssumption DEF IInv, TypeOK, Distinct, Having, End, Goto, call, Between
<1>3. Settled'
    BY StreamsAssumption DEF IInv, TypeOK, Distinct, Settled, Borrowed, Having, End, Goto, call, Between
<1>4. CursorOpen'
    BY StreamsAssumption DEF IInv, TypeOK, Distinct, CursorOpen, Having, Kinds, End, Goto, call, Between
<1>5. (pool # "open" => idle = {})'
    BY StreamsAssumption DEF IInv, End, Goto, call, Between
<1>6. (\A j \in Calls : kind[j] = "listen" => channel[j] \in Channels)'
    BY StreamsAssumption DEF IInv, TypeOK, End, Goto, call, Between
<1> QED BY <1>1, <1>2, <1>3, <1>4, <1>5, <1>6 DEF IInv

\* Drop preserves the invariant.
LEMMA DropInv ==
    ASSUME IInv, NEW k \in Calls, Drop(k)
    PROVE  IInv'
<1>1. TypeOK'
    BY StreamsAssumption DEF IInv, TypeOK, Kinds, Drop, Goto, call, Between
<1>2. Distinct'
    BY StreamsAssumption DEF IInv, TypeOK, Distinct, Having, Drop, Goto, call, Between
<1>3. Settled'
    BY StreamsAssumption DEF IInv, TypeOK, Distinct, Settled, Borrowed, Having, Drop, Goto, call, Between
<1>4. CursorOpen'
    BY StreamsAssumption DEF IInv, TypeOK, Distinct, CursorOpen, Having, Kinds, Drop, Goto, call, Between
<1>5. (pool # "open" => idle = {})'
    BY StreamsAssumption DEF IInv, Drop, Goto, call, Between
<1>6. (\A j \in Calls : kind[j] = "listen" => channel[j] \in Channels)'
    BY StreamsAssumption DEF IInv, TypeOK, Drop, Goto, call, Between
<1> QED BY <1>1, <1>2, <1>3, <1>4, <1>5, <1>6 DEF IInv

\* CloseOuter preserves the invariant.
LEMMA CloseOuterInv ==
    ASSUME IInv, NEW k \in Calls, CloseOuter(k)
    PROVE  IInv'
<1>1. TypeOK'
    BY StreamsAssumption DEF IInv, TypeOK, Kinds, CloseOuter, Goto, call
<1>2. Distinct'
    BY StreamsAssumption DEF IInv, TypeOK, Distinct, Having, CloseOuter, Goto, call
<1>3. Settled'
    BY StreamsAssumption DEF IInv, TypeOK, Distinct, Settled, Borrowed, Having, CloseOuter, Goto, call
<1>4. CursorOpen'
    BY StreamsAssumption DEF IInv, TypeOK, Distinct, CursorOpen, Having, Kinds, CloseOuter, Goto, call
<1>5. (pool # "open" => idle = {})'
    BY StreamsAssumption DEF IInv, CloseOuter, Goto, call
<1>6. (\A j \in Calls : kind[j] = "listen" => channel[j] \in Channels)'
    BY StreamsAssumption DEF IInv, TypeOK, CloseOuter, Goto, call
<1> QED BY <1>1, <1>2, <1>3, <1>4, <1>5, <1>6 DEF IInv

\* CloseInner preserves the invariant.
LEMMA CloseInnerInv ==
    ASSUME IInv, NEW k \in Calls, CloseInner(k)
    PROVE  IInv'
<1>1. TypeOK'
    BY StreamsAssumption DEF IInv, TypeOK, Kinds, CloseInner, Goto, call
<1>2. Distinct'
    BY StreamsAssumption DEF IInv, TypeOK, Distinct, Having, CloseInner, Goto, call
<1>3. Settled'
    BY StreamsAssumption DEF IInv, TypeOK, Distinct, Settled, Borrowed, Having, CloseInner, Goto, call
<1>4. CursorOpen'
    BY StreamsAssumption DEF IInv, TypeOK, Distinct, CursorOpen, Having, Kinds, CloseInner, Goto, call
<1>5. (pool # "open" => idle = {})'
    BY StreamsAssumption DEF IInv, CloseInner, Goto, call
<1>6. (\A j \in Calls : kind[j] = "listen" => channel[j] \in Channels)'
    BY StreamsAssumption DEF IInv, TypeOK, CloseInner, Goto, call
<1> QED BY <1>1, <1>2, <1>3, <1>4, <1>5, <1>6 DEF IInv

\* Release preserves the invariant.
LEMMA ReleaseInv ==
    ASSUME IInv, NEW k \in Calls, Release(k)
    PROVE  IInv'
<1>0. conn[k] \in Conns
    BY StreamsAssumption DEF IInv, TypeOK, Distinct, Having, Release
<1>1. TypeOK'
    <2>1. txn' \in [Conns -> {"idle", "open", "active", "broken"}]
        BY <1>0 DEF IInv, TypeOK, Release, Vacated
    <2>2. listening' \in [Conns -> SUBSET Channels]
        BY <1>0 DEF IInv, TypeOK, Release, Vacated
    <2>3. inner' \in [Calls -> Conns \cup {None}]
        BY <1>0 DEF IInv, TypeOK, Release, Vacated
    <2>4. idle' \subseteq Conns
        BY <1>0 DEF IInv, TypeOK, Release
    <2>5. /\ pc' \in [Calls -> {"over", "acquiring", "holding", "yielding", "dropped", "releasing"}]
          /\ conn' \in [Calls -> Conns \cup {None}]
          /\ inside' \in [Calls -> Calls \cup {None}]
        BY DEF IInv, TypeOK, Release, Goto
    <2> QED BY <2>1, <2>2, <2>3, <2>4, <2>5 DEF IInv, TypeOK, Release
<1>2. Distinct'
    BY StreamsAssumption DEF IInv, TypeOK, Distinct, Having, Release, Goto, call, Reusable, Vacated
<1>3. Settled'
    BY StreamsAssumption DEF IInv, TypeOK, Distinct, Settled, Borrowed, Having, Release, Goto, call, Reusable, Vacated
<1>4. CursorOpen'
    BY StreamsAssumption DEF IInv, TypeOK, Distinct, CursorOpen, Having, Kinds, Release, Goto, call, Reusable, Vacated
<1>5. (pool # "open" => idle = {})'
    BY StreamsAssumption DEF IInv, Release, Goto, call, Reusable, Vacated
<1>6. (\A j \in Calls : kind[j] = "listen" => channel[j] \in Channels)'
    BY StreamsAssumption DEF IInv, TypeOK, Release, Goto, call, Reusable, Vacated
<1> QED BY <1>1, <1>2, <1>3, <1>4, <1>5, <1>6 DEF IInv

\* OpenPool preserves the invariant.
LEMMA OpenPoolInv ==
    ASSUME IInv, OpenPool
    PROVE  IInv'
<1>1. TypeOK'
    BY StreamsAssumption DEF IInv, TypeOK, Kinds, OpenPool, Goto, call
<1>2. Distinct'
    BY StreamsAssumption DEF IInv, TypeOK, Distinct, Having, OpenPool, Goto, call
<1>3. Settled'
    BY StreamsAssumption DEF IInv, TypeOK, Distinct, Settled, Borrowed, Having, OpenPool, Goto, call
<1>4. CursorOpen'
    BY StreamsAssumption DEF IInv, TypeOK, Distinct, CursorOpen, Having, Kinds, OpenPool, Goto, call
<1>5. (pool # "open" => idle = {})'
    BY StreamsAssumption DEF IInv, OpenPool, Goto, call
<1>6. (\A j \in Calls : kind[j] = "listen" => channel[j] \in Channels)'
    BY StreamsAssumption DEF IInv, TypeOK, OpenPool, Goto, call
<1> QED BY <1>1, <1>2, <1>3, <1>4, <1>5, <1>6 DEF IInv

\* ClosePool preserves the invariant.
LEMMA ClosePoolInv ==
    ASSUME IInv, ClosePool
    PROVE  IInv'
<1>1. TypeOK'
    BY StreamsAssumption DEF IInv, TypeOK, Kinds, ClosePool, Goto, call, Vacated
<1>2. Distinct'
    BY StreamsAssumption DEF IInv, TypeOK, Distinct, Having, ClosePool, Goto, call, Vacated
<1>3. Settled'
    BY StreamsAssumption DEF IInv, TypeOK, Distinct, Settled, Borrowed, Having, ClosePool, Goto, call, Vacated
<1>4. CursorOpen'
    BY StreamsAssumption DEF IInv, TypeOK, Distinct, CursorOpen, Having, Kinds, ClosePool, Goto, call, Vacated
<1>5. (pool # "open" => idle = {})'
    BY StreamsAssumption DEF IInv, ClosePool, Goto, call, Vacated
<1>6. (\A j \in Calls : kind[j] = "listen" => channel[j] \in Channels)'
    BY StreamsAssumption DEF IInv, TypeOK, ClosePool, Goto, call, Vacated
<1> QED BY <1>1, <1>2, <1>3, <1>4, <1>5, <1>6 DEF IInv

\* Connect preserves the invariant.
LEMMA ConnectInv ==
    ASSUME IInv, NEW c \in Conns, Connect(c)
    PROVE  IInv'
<1>1. TypeOK'
    BY StreamsAssumption DEF IInv, TypeOK, Kinds, Connect, Goto, call
<1>2. Distinct'
    BY StreamsAssumption DEF IInv, TypeOK, Distinct, Borrowed, Having, Connect, Goto, call
<1>3. Settled'
    BY StreamsAssumption DEF IInv, TypeOK, Distinct, Settled, Borrowed, Having, Connect, Goto, call
<1>4. CursorOpen'
    BY StreamsAssumption DEF IInv, TypeOK, Distinct, CursorOpen, Having, Kinds, Connect, Goto, call
<1>5. (pool # "open" => idle = {})'
    BY StreamsAssumption DEF IInv, Connect, Goto, call
<1>6. (\A j \in Calls : kind[j] = "listen" => channel[j] \in Channels)'
    BY StreamsAssumption DEF IInv, TypeOK, Connect, Goto, call
<1> QED BY <1>1, <1>2, <1>3, <1>4, <1>5, <1>6 DEF IInv

\* Retire preserves the invariant.
LEMMA RetireInv ==
    ASSUME IInv, NEW c \in Conns, Retire(c)
    PROVE  IInv'
<1>1. TypeOK'
    BY StreamsAssumption DEF IInv, TypeOK, Kinds, Retire, Goto, call, Vacated
<1>2. Distinct'
    BY StreamsAssumption DEF IInv, TypeOK, Distinct, Having, Retire, Goto, call, Vacated
<1>3. Settled'
    BY StreamsAssumption DEF IInv, TypeOK, Distinct, Settled, Borrowed, Having, Retire, Goto, call, Vacated
<1>4. CursorOpen'
    BY StreamsAssumption DEF IInv, TypeOK, Distinct, CursorOpen, Having, Kinds, Retire, Goto, call, Vacated
<1>5. (pool # "open" => idle = {})'
    BY StreamsAssumption DEF IInv, Retire, Goto, call, Vacated
<1>6. (\A j \in Calls : kind[j] = "listen" => channel[j] \in Channels)'
    BY StreamsAssumption DEF IInv, TypeOK, Retire, Goto, call, Vacated
<1> QED BY <1>1, <1>2, <1>3, <1>4, <1>5, <1>6 DEF IInv

\* Break preserves the invariant.
LEMMA BreakInv ==
    ASSUME IInv, NEW c \in Conns, Break(c)
    PROVE  IInv'
<1>1. TypeOK'
    BY StreamsAssumption DEF IInv, TypeOK, Kinds, Break, Goto, call
<1>2. Distinct'
    BY StreamsAssumption DEF IInv, TypeOK, Distinct, Having, Break, Goto, call
<1>3. Settled'
    BY StreamsAssumption DEF IInv, TypeOK, Distinct, Settled, Borrowed, Having, Break, Goto, call
<1>4. CursorOpen'
    BY StreamsAssumption DEF IInv, TypeOK, Distinct, CursorOpen, Having, Kinds, Break, Goto, call
<1>5. (pool # "open" => idle = {})'
    BY StreamsAssumption DEF IInv, Break, Goto, call
<1>6. (\A j \in Calls : kind[j] = "listen" => channel[j] \in Channels)'
    BY StreamsAssumption DEF IInv, TypeOK, Break, Goto, call
<1> QED BY <1>1, <1>2, <1>3, <1>4, <1>5, <1>6 DEF IInv

\* Every step preserves the invariant.
LEMMA StepInv == IInv /\ [Next]_vars => IInv'
<1> SUFFICES ASSUME IInv, [Next]_vars PROVE IInv'
    OBVIOUS
<1>1. CASE Next
    BY <1>1, StartInv, AcquireInv, GiveUpInv, CommandInv, OpenCursorInv, SubscribeInv, NotOpenedInv, EndInv, DropInv, CloseOuterInv, CloseInnerInv, ReleaseInv, OpenPoolInv, ClosePoolInv, ConnectInv, RetireInv, BreakInv DEF Next
<1>2. CASE UNCHANGED vars
    BY <1>2 DEF vars, IInv, TypeOK, Distinct, Settled, CursorOpen, Borrowed
<1> QED BY <1>1, <1>2

\* The invariant holds in every reachable state.
LEMMA Invariance == Spec => []IInv
BY InitInv, StepInv, PTL DEF Spec

\* Every variable keeps its type, for every number of calls, connections and channels.
THEOREM TypeCorrect == Spec => []TypeOK
<1>1. IInv => TypeOK
    BY DEF IInv
<1> QED BY <1>1, Invariance, PTL

\* No session has two users: neither two borrowers nor, after an early exit from a
\* stream, the old driver generator and the next borrower (api/handle.py: stream()).
THEOREM OneUserAlways == Spec => []OneUser
<1>1. IInv => OneUser
    BY StreamsAssumption DEF IInv, TypeOK, Distinct, CursorOpen, OneUser, Uses
<1> QED BY <1>1, Invariance, PTL

\* What the pool can hand out is outside a transaction, and nothing after close().
THEOREM IdleIsReadyAlways == Spec => []IdleIsReady
<1>1. IInv => IdleIsReady
    BY StreamsAssumption DEF IInv, TypeOK, Distinct, Settled, Borrowed, IdleIsReady
<1> QED BY <1>1, Invariance, PTL
-------------------------------------------------------------------------------
\* A generator stays at its yield for as long as a call that its loop body makes is not
\* over, and there is one such call at a time: a connection that is borrowed for a loop
\* body never outlives the one of the generator around it, and no call waits for itself
\* (api/handle.py: stream() and listen() are async generators).
Nested ==
    \A j \in Calls : inside[j] # None =>
        /\ inside[j] \in Calls \ {j}
        /\ pc[inside[j]] = "yielding" /\ pc[j] # "over"
        /\ \A k \in Calls : inside[k] = inside[j] => k = j

\* Calls of the loop bodies are nested, however deep, for any number of calls.
THEOREM LoopBodiesNest == Spec => []Nested
<1>1. Init => Nested
    BY DEF Init, Nested
<1>2. ASSUME TypeOK, Nested, [Next]_vars
      PROVE  Nested'
  <2> USE StreamsAssumption DEF TypeOK, Nested
  <2>0. TypeOK /\ Nested
    BY <1>2
  <2>1. ASSUME NEW k \in Calls, Start(k)
        PROVE  Nested'
    BY <2>0, <2>1 DEF Start, Between, Goto
  <2>2. ASSUME NEW k \in Calls, Acquire(k) \/ Command(k)
        PROVE  Nested'
    BY <2>0, <2>2 DEF Acquire, Command, Goto, call
  <2>3. ASSUME NEW k \in Calls, GiveUp(k)
        PROVE  Nested'
    BY <2>0, <2>3 DEF GiveUp, Goto
  <2>4. ASSUME NEW k \in Calls, OpenCursor(k) \/ Subscribe(k) \/ NotOpened(k)
        PROVE  Nested'
    BY <2>0, <2>4 DEF OpenCursor, Subscribe, NotOpened, Goto, call
  <2>5. ASSUME NEW k \in Calls, End(k)
        PROVE  Nested'
    BY <2>0, <2>5 DEF End, Between, Goto, call
  <2>6. ASSUME NEW k \in Calls, Drop(k)
        PROVE  Nested'
    BY <2>0, <2>6 DEF Drop, Between, Goto
  <2>7. ASSUME NEW k \in Calls, CloseOuter(k) \/ CloseInner(k)
        PROVE  Nested'
    BY <2>0, <2>7 DEF CloseOuter, CloseInner, Goto, call
  <2>8. ASSUME NEW k \in Calls, Release(k)
        PROVE  Nested'
    BY <2>0, <2>8 DEF Release, Goto
  <2>9. CASE UNCHANGED <<pc, inside>>
    BY <2>0, <2>9
  <2>10. ASSUME \/ OpenPool \/ ClosePool \/ UNCHANGED vars
                \/ \E c \in Conns : Connect(c) \/ Retire(c) \/ Break(c)
         PROVE  UNCHANGED <<pc, inside>>
    BY <2>10 DEF OpenPool, ClosePool, Connect, Retire, Break, call, vars
  <2> QED BY <1>2, <2>1, <2>2, <2>3, <2>4, <2>5, <2>6, <2>7, <2>8, <2>9, <2>10 DEF Next
<1> QED BY <1>1, <1>2, TypeCorrect, PTL DEF Spec

\* A pool that is closed stays closed and hands out nothing; its connections only come
\* back, and each that does is closed then, with its subscriptions and whatever it left
\* unfinished: what Service takes for granted of a pool (PsycopgPool.close(), and
\* release() after it).
ClosedOnlyDrains ==
    [][pool = "closed" =>
         /\ pool' = "closed" /\ idle' = {}
         /\ \A c \in Conns :
               /\ Borrowed(c)' => Borrowed(c)
               /\ Borrowed(c) /\ ~Borrowed(c)' => txn'[c] = "idle" /\ listening'[c] = {}]_vars

\* Who borrows what changes in Acquire(k) and Release(k) only.
LEMMA LoansKept ==
    ASSUME [Next]_vars, \A k \in Calls : ~Acquire(k) /\ ~Release(k)
    PROVE  conn' = conn
BY DEF Next, Start, GiveUp, Command, OpenCursor, Subscribe, NotOpened, End, Drop, CloseOuter, CloseInner,
       OpenPool, ClosePool, Connect, Retire, Break, vars

\* After close() connections only come back, for any number of calls and connections.
THEOREM ClosedForGood == Spec => ClosedOnlyDrains
<1>1. ASSUME IInv, [Next]_vars, pool = "closed"
      PROVE  /\ pool' = "closed" /\ idle' = {}
             /\ \A c \in Conns :
                   /\ Borrowed(c)' => Borrowed(c)
                   /\ Borrowed(c) /\ ~Borrowed(c)' => txn'[c] = "idle" /\ listening'[c] = {}
  <2>1. idle = {} /\ conn \in [Calls -> Conns \cup {None}]
    BY <1>1 DEF IInv, TypeOK
  <2>2. \A k \in Calls : ~Acquire(k)
    BY <2>1 DEF Acquire
  <2>3. ASSUME NEW k \in Calls, Release(k)
        PROVE  /\ conn' = [conn EXCEPT ![k] = None] /\ conn[k] \in Conns
               /\ UNCHANGED <<pool, idle>> /\ Vacated({conn[k]})
    BY <1>1, <2>1, <2>3 DEF IInv, Distinct, Having, Release, Reusable
  <2>4. ASSUME NEW k \in Calls, Release(k), NEW c \in Conns
        PROVE  /\ Borrowed(c)' => Borrowed(c)
               /\ Borrowed(c) /\ ~Borrowed(c)' => txn'[c] = "idle" /\ listening'[c] = {}
    <3>1. Borrowed(c)' => Borrowed(c)
      BY <2>1, <2>3, <2>4, StreamsAssumption DEF Borrowed
    <3>2. Borrowed(c) /\ ~Borrowed(c)' => c = conn[k]
      BY <2>1, <2>3, <2>4 DEF Borrowed
    <3> QED BY <2>3, <2>4, <3>1, <3>2 DEF Vacated
  <2>5. ASSUME \A k \in Calls : ~Release(k)
        PROVE  conn' = conn /\ UNCHANGED <<pool, idle>>
    <3>1. conn' = conn
      BY <1>1, <2>2, <2>5, LoansKept
    <3>2. \A c \in Conns : ~Connect(c) /\ ~Retire(c)
      BY <1>1, <2>1 DEF Connect, Retire
    <3>3. ~OpenPool /\ ~ClosePool
      BY <1>1 DEF OpenPool, ClosePool
    <3> QED BY <1>1, <2>2, <2>5, <3>1, <3>2, <3>3
            DEF Next, Start, GiveUp, Command, OpenCursor, Subscribe, NotOpened, End, Drop,
                CloseOuter, CloseInner, Break, vars
  <2>6. CASE \E k \in Calls : Release(k)
    BY <1>1, <2>1, <2>3, <2>4, <2>6
  <2>7. CASE \A k \in Calls : ~Release(k)
    BY <1>1, <2>1, <2>5, <2>7 DEF Borrowed
  <2> QED BY <2>6, <2>7
<1>2. IInv /\ [Next]_vars =>
        [pool = "closed" =>
           /\ pool' = "closed" /\ idle' = {}
           /\ \A c \in Conns :
                 /\ Borrowed(c)' => Borrowed(c)
                 /\ Borrowed(c) /\ ~Borrowed(c)' => txn'[c] = "idle" /\ listening'[c] = {}]_vars
    BY <1>1
<1> QED BY <1>2, Invariance, PTL DEF Spec, ClosedOnlyDrains
-------------------------------------------------------------------------------
InTxn(c) == txn[c] \in {"open", "active"}

\* Under the invariant the user of a session is the call that borrowed it.
LEMMA UserIsBorrower ==
    ASSUME IInv, NEW c \in Conns
    PROVE  /\ \A k \in Calls : conn[k] = c => User(c) = k
           /\ ~Borrowed(c) => User(c) = None
<1>1. \A k \in Calls : Uses(k, c) <=> conn[k] = c
    BY StreamsAssumption DEF IInv, TypeOK, CursorOpen, Uses
<1>2. \A j, k \in Calls : conn[j] = c /\ conn[k] = c => j = k
    BY StreamsAssumption DEF IInv, Distinct
<1> QED BY <1>1, <1>2 DEF User, Borrowed

\* The same of the next state.
LEMMA NextUserIsBorrower ==
    ASSUME IInv', NEW c \in Conns
    PROVE  /\ \A k \in Calls : conn'[k] = c => User(c)' = k
           /\ (~Borrowed(c))' => User(c)' = None
<1>1. \A k \in Calls : Uses(k, c)' <=> conn'[k] = c
    BY StreamsAssumption DEF IInv, TypeOK, CursorOpen, Uses
<1>2. \A j, k \in Calls : conn'[j] = c /\ conn'[k] = c => j = k
    BY StreamsAssumption DEF IInv, Distinct
<1> QED BY <1>1, <1>2 DEF User, Borrowed

\* Hence it changes only when a borrower does.
LEMMA UserFixed ==
    ASSUME IInv, IInv', NEW c \in Conns, \A k \in Calls : conn'[k] = c <=> conn[k] = c
    PROVE  User(c)' = User(c)
<1>1. CASE Borrowed(c)
    <2>1. PICK k \in Calls : conn[k] = c
        BY <1>1 DEF Borrowed
    <2>2. User(c) = k
        BY <2>1, UserIsBorrower
    <2>3. User(c)' = k
        BY <2>1, NextUserIsBorrower
    <2> QED BY <2>2, <2>3
<1>2. CASE ~Borrowed(c)
    <2>1. User(c) = None
        BY <1>2, UserIsBorrower
    <2>2. (~Borrowed(c))'
        BY <1>2 DEF Borrowed
    <2>3. User(c)' = None
        BY <2>2, NextUserIsBorrower
    <2> QED BY <2>1, <2>3
<1> QED BY <1>1, <1>2

\* A step in which nobody comes or goes and at most the session of k changes is work
\* of k, or nothing.
LEMMA WorkMaps ==
    ASSUME IInv, IInv', NEW k \in Calls, NEW c \in Conns, conn[k] = c, conn' = conn,
           \A d \in Conns \ {c} : InTxn(d)' = InTxn(d)
    PROVE  [Promise!Next]_Promise!vars
<1>1. \A d \in Conns : User(d)' = User(d)
    BY UserFixed
<1>2. User(c) = k
    BY UserIsBorrower
<1>3. [d \in Conns |-> InTxn(d)]' = [[d \in Conns |-> InTxn(d)] EXCEPT ![c] = InTxn(c)']
    OBVIOUS
<1>4. InTxn(c)' \in BOOLEAN
    BY DEF InTxn
<1>5. Promise!Work(k, c)
    BY <1>1, <1>2, <1>3, <1>4 DEF Promise!Work, InTxn
<1>6. \E b \in Calls, d \in Conns : Promise!Work(b, d)
    BY <1>5
<1> QED BY <1>6 DEF Promise!Next

\* A step in which nobody comes or goes and no transaction begins or ends is none.
LEMMA QuietMaps ==
    ASSUME IInv, IInv', conn' = conn, \A c \in Conns : InTxn(c)' = InTxn(c)
    PROVE  [Promise!Next]_Promise!vars
<1>1. \A c \in Conns : User(c)' = User(c)
    BY UserFixed
<1> QED BY <1>1 DEF Promise!vars, InTxn

\* Acquire maps to Borrow.
LEMMA AcquireMaps ==
    ASSUME IInv, IInv', NEW k \in Calls, Acquire(k)
    PROVE  [Promise!Next]_Promise!vars
<1>1. PICK c \in idle : conn' = [conn EXCEPT ![k] = c]
    BY DEF Acquire
<1>2. c \in Conns /\ ~Borrowed(c) /\ conn[k] = None
    BY <1>1 DEF IInv, TypeOK, Distinct, Borrowed, Having, Acquire
<1>3. User(c) = None
    BY <1>2, UserIsBorrower
<1>4. conn'[k] = c
    BY <1>1 DEF IInv, TypeOK
<1>5. User(c)' = k
    BY <1>2, <1>4, NextUserIsBorrower
<1>6. \A d \in Conns \ {c} : User(d)' = User(d)
    <2> SUFFICES ASSUME NEW d \in Conns \ {c} PROVE User(d)' = User(d)
        OBVIOUS
    <2>1. \A j \in Calls : conn'[j] = d <=> conn[j] = d
        BY <1>1, <1>2, StreamsAssumption DEF IInv, TypeOK
    <2> QED BY <2>1, UserFixed
<1>7. [d \in Conns |-> User(d)]' = [[d \in Conns |-> User(d)] EXCEPT ![c] = k]
    BY <1>2, <1>5, <1>6
<1>8. Promise!Borrow(k, c)
    BY <1>2, <1>3, <1>7 DEF Promise!Borrow, Acquire
<1>9. \E b \in Calls, d \in Conns : Promise!Borrow(b, d)
    BY <1>2, <1>8
<1> QED BY <1>9 DEF Promise!Next

\* Release maps to Return, whatever the pool does with the session.
LEMMA ReleaseMaps ==
    ASSUME IInv, IInv', NEW k \in Calls, Release(k)
    PROVE  [Promise!Next]_Promise!vars
<1>1. PICK c \in Conns : c = conn[k]
    BY StreamsAssumption DEF IInv, TypeOK, Distinct, Having, Release
<1>2. User(c) = k
    BY <1>1, UserIsBorrower
<1>3. \A j \in Calls : conn'[j] # c
    BY <1>1, StreamsAssumption DEF IInv, TypeOK, Distinct, Release
<1>4. User(c)' = None
    <2>1. (~Borrowed(c))'
        BY <1>3 DEF Borrowed
    <2> QED BY <2>1, NextUserIsBorrower
<1>5. \A d \in Conns \ {c} : User(d)' = User(d)
    <2> SUFFICES ASSUME NEW d \in Conns \ {c} PROVE User(d)' = User(d)
        OBVIOUS
    <2>1. \A j \in Calls : conn'[j] = d <=> conn[j] = d
        BY <1>1, StreamsAssumption DEF IInv, TypeOK, Distinct, Release
    <2> QED BY <2>1, UserFixed
<1>6. [d \in Conns |-> User(d)]' = [[d \in Conns |-> User(d)] EXCEPT ![c] = None]
    BY <1>1, <1>4, <1>5
<1>7. txn' = [txn EXCEPT ![c] = "idle"]
    BY <1>1 DEF Release, Vacated, IInv, TypeOK
<1>8. [d \in Conns |-> InTxn(d)]' = [[d \in Conns |-> InTxn(d)] EXCEPT ![c] = FALSE]
    <2>1. \A d \in Conns : txn'[d] = (IF d = c THEN "idle" ELSE txn[d])
        BY <1>7 DEF IInv, TypeOK
    <2>2. InTxn(c)' = FALSE
        BY <2>1 DEF InTxn
    <2>3. \A d \in Conns \ {c} : InTxn(d)' = InTxn(d)
        BY <2>1 DEF InTxn
    <2> QED BY <2>2, <2>3
<1>10. Promise!Return(k, c)
    BY <1>2, <1>6, <1>8 DEF Promise!Return, InTxn
<1>9. \E b \in Calls, d \in Conns : Promise!Return(b, d)
    BY <1>10
<1> QED BY <1>9 DEF Promise!Next

\* Every step of the pool and its callers is a step of Borrowing, or none.
LEMMA StepMaps == IInv /\ IInv' /\ [Next]_vars => [Promise!Next]_Promise!vars
<1> SUFFICES ASSUME IInv, IInv', [Next]_vars PROVE [Promise!Next]_Promise!vars
    OBVIOUS
<1>1. ASSUME NEW k \in Calls,
             Start(k) \/ GiveUp(k) \/ Subscribe(k) \/ Drop(k) \/ CloseOuter(k)
      PROVE  [Promise!Next]_Promise!vars
    BY <1>1, QuietMaps DEF Start, GiveUp, Subscribe, Drop, CloseOuter, InTxn
<1>2. ASSUME NEW k \in Calls, Command(k) \/ OpenCursor(k) \/ NotOpened(k) \/ End(k)
      PROVE  [Promise!Next]_Promise!vars
    <2>1. PICK c \in Conns : c = conn[k]
        BY <1>2, StreamsAssumption
        DEF IInv, TypeOK, Distinct, Having, Command, OpenCursor, NotOpened, End, Between
    <2>2. conn' = conn
        BY <1>2 DEF Command, OpenCursor, NotOpened, End
    <2>3. \A d \in Conns \ {c} : txn'[d] = txn[d]
        BY <1>2, <2>1 DEF IInv, TypeOK, Command, OpenCursor, NotOpened, End
    <2> QED BY <2>1, <2>2, <2>3, WorkMaps DEF InTxn
<1>3. ASSUME NEW k \in Calls, CloseInner(k)
      PROVE  [Promise!Next]_Promise!vars
    <2>1. CASE kind[k] = "stream"
        <3>1. PICK c \in Conns : c = conn[k] /\ c = inner[k]
            BY <1>3, <2>1, StreamsAssumption DEF IInv, TypeOK, CursorOpen, CloseInner
        <3>2. conn' = conn /\ \A d \in Conns \ {c} : txn'[d] = txn[d]
            BY <1>3, <3>1 DEF IInv, TypeOK, CloseInner
        <3> QED BY <3>1, <3>2, WorkMaps DEF InTxn
    <2>2. CASE kind[k] # "stream"
        BY <1>3, <2>2, QuietMaps DEF CloseInner, InTxn
    <2> QED BY <2>1, <2>2
<1>4. ASSUME OpenPool
      PROVE  [Promise!Next]_Promise!vars
    BY <1>4, QuietMaps DEF OpenPool, InTxn
<1>5. ASSUME ClosePool
      PROVE  [Promise!Next]_Promise!vars
    <2>1. conn' = conn
        BY <1>5 DEF ClosePool
    <2>2. \A c \in Conns : InTxn(c)' = InTxn(c)
        BY <1>5 DEF ClosePool, Vacated, InTxn, IInv, TypeOK, Distinct, Settled, Borrowed
    <2> QED BY <2>1, <2>2, QuietMaps
<1>6. ASSUME NEW c \in Conns, Connect(c)
      PROVE  [Promise!Next]_Promise!vars
    BY <1>6, QuietMaps DEF Connect, InTxn
<1>7. ASSUME NEW c \in Conns, Retire(c)
      PROVE  [Promise!Next]_Promise!vars
    <2>1. conn' = conn
        BY <1>7 DEF Retire
    <2>2. \A d \in Conns : InTxn(d)' = InTxn(d)
        BY <1>7 DEF Retire, Vacated, InTxn, IInv, TypeOK, Distinct, Settled, Borrowed
    <2> QED BY <2>1, <2>2, QuietMaps
<1>8. ASSUME NEW c \in Conns, Break(c)
      PROVE  [Promise!Next]_Promise!vars
    <2>1. conn' = conn /\ \A d \in Conns \ {c} : InTxn(d)' = InTxn(d)
        BY <1>8 DEF Break, InTxn, IInv, TypeOK
    <2>2. CASE Borrowed(c)
        BY <2>1, <2>2, WorkMaps DEF Borrowed
    <2>3. CASE ~Borrowed(c)
        <3>1. InTxn(c)' = InTxn(c)
            BY <1>8, <2>3 DEF Break, InTxn, IInv, TypeOK, Settled
        <3> QED BY <2>1, <3>1, QuietMaps
    <2> QED BY <2>2, <2>3
<1>9. CASE UNCHANGED vars
    BY <1>9, QuietMaps DEF vars, InTxn
<1> QED
    BY <1>1, <1>2, <1>3, <1>4, <1>5, <1>6, <1>7, <1>8, <1>9, AcquireMaps, ReleaseMaps DEF Next

\* The pool and the calls of the handle implement Borrowing: at most one caller works
\* on a session, and it is outside a transaction before the next one has it.
THEOREM PromiseKept == Spec => KeepsPromise
<1>1. Init => Promise!Init
    <2> SUFFICES ASSUME Init PROVE Promise!Init
        OBVIOUS
    <2>1. \A c \in Conns : User(c) = None
        BY StreamsAssumption DEF Init, User, Uses
    <2>2. \A c \in Conns : (txn[c] \in {"open", "active"}) = FALSE
        BY DEF Init
    <2> QED BY <2>1, <2>2 DEF Promise!Init
<1> QED BY <1>1, StepMaps, Invariance, PTL DEF Spec, KeepsPromise, Promise!Spec
===============================================================================
