---------------------------- MODULE Server_proofs ---------------------------
(***************************************************************************)
(* Proofs about Server, for any number of clients and requests, embedded   *)
(* or not.                                                                 *)
(***************************************************************************)
EXTENDS Server, FiniteSetTheorems, TLAPS

(* When the file has been closed serve has ended, and both tasks had ended *)
(* before it: nothing is left that could wake one of them.                 *)
TasksInv ==
  file = "closed" => /\ main \in {"done", "stopped", "cancelling", "exited"}
                     /\ task = [t \in Tasks |-> "done"]

(* The file is closed by a serve that found every task done.               *)
LEMMA CloseJournalKeeps ==
  ASSUME task = [t \in Tasks |-> task[t]], \A t \in Tasks : task[t] = "done",
         CloseJournal
  PROVE  TasksInv'
BY DEF CloseJournal, TasksInv

(* Every step keeps task a function of the tasks.                          *)
Typed == task = [t \in Tasks |-> task[t]]

(* Steps that leave the tasks and the file alone: main moves on from an    *)
(* end of serve to a later one, or serve has not ended.                    *)
LEMMA OthersKeep ==
  ASSUME Typed, TasksInv, UNCHANGED <<file, task>>,
         \/ UNCHANGED main
         \/ main' \in {"stopped", "cancelling", "exited"}
         \/ main = "parked"
  PROVE  Typed' /\ TasksInv'
BY DEF Typed, TasksInv

(* A task that has ended has no timer, and a timer does not bring it back; *)
(* serve has not ended while a task can still go back to sleep.            *)
LEMMA TasksKeep ==
  ASSUME Typed, TasksInv, NEW t \in Tasks, Timer(t) \/ RunTimer(t) \/ RunTask(t)
  PROVE  Typed' /\ TasksInv'
<1>1. CASE Timer(t)
  BY <1>1 DEF Timer, Outside, Typed, TasksInv
<1>2. CASE RunTimer(t)
  BY <1>2 DEF RunTimer, Typed, TasksInv
<1>3. CASE RunTask(t)
  BY <1>3 DEF RunTask, Typed, TasksInv
<1> QED
  BY <1>1, <1>2, <1>3

(* serve's own steps.                                                      *)
LEMMA MainKeeps ==
  ASSUME Typed, TasksInv, Teardown \/ Resume
  PROVE  Typed' /\ TasksInv'
<1>1. CASE Teardown
  BY <1>1 DEF Teardown, Typed, TasksInv
<1>2. CASE Resume
  <2>1. CASE \A t \in Tasks : task[t] = "done"
    <3>1. CloseJournal
      BY <1>2, <2>1 DEF Resume
    <3> QED
      BY <2>1, <3>1, CloseJournalKeeps DEF Typed, CloseJournal
  <2>2. CASE ~ \A t \in Tasks : task[t] = "done"
    <3>1. UNCHANGED <<file, task, main>>
      BY <1>2, <2>2 DEF Resume
    <3> QED
      BY <3>1, OthersKeep
  <2> QED
    BY <2>1, <2>2
<1> QED
  BY <1>1, <1>2

(* Connections and handlers leave the tasks, the file and serve alone.     *)
LEMMA ClientKeeps ==
  ASSUME Typed, TasksInv, NEW c \in Client,
         \/ Accept(c) \/ Attach(c) \/ Made(c)
         \/ Data(c) \/ Eof(c) \/ Lost(c) \/ Flush(c)
         \/ Serve(c) \/ Pause(c) \/ Abort(c) \/ Finish(c)
         \/ Connect(c) \/ Send(c) \/ HangUp(c) \/ Take(c)
  PROVE  Typed' /\ TasksInv'
<1>1. UNCHANGED <<file, task, main>>
  <2>1. CASE \/ Accept(c) \/ Attach(c) \/ Made(c)
             \/ Serve(c) \/ Pause(c) \/ Abort(c) \/ Finish(c)
    BY <2>1 DEF Accept, Attach, Made, Serve, Pause, Abort, Finish, Rest
  <2>2. CASE Data(c) \/ Eof(c) \/ Lost(c) \/ Flush(c)
    BY <2>2 DEF Data, Eof, Lost, Flush, Wakes, PassedOver, Rest
  <2>3. CASE Connect(c) \/ Send(c) \/ HangUp(c) \/ Take(c)
    BY <2>3 DEF Connect, Send, HangUp, Take, Outside
  <2> QED
    BY <2>1, <2>2, <2>3
<1> QED
  BY <1>1, OthersKeep

(* serve (server.py:106-129) closes the journal only when the sweeper and  *)
(* the everysec task have ended, and neither can come back: whatever state *)
(* each was in when it was cancelled, no pending task is left behind.      *)
THEOREM NoTaskOutlivesJournal == Spec => []NoTaskLeft
<1> DEFINE Inv == Typed /\ TasksInv
<1>1. Init => Inv
  BY DEF Init, Typed, TasksInv
<1>2. Inv /\ [Next]_vars => Inv'
  <2> SUFFICES ASSUME Typed, TasksInv, [Next]_vars
               PROVE  Typed' /\ TasksInv'
    OBVIOUS
  <2>1. CASE Poll \/ Stop \/ CancelAll \/ Exit \/ Cancel \/ Idle \/ UNCHANGED vars
    <3>1. /\ UNCHANGED <<file, task>>
          /\ \/ UNCHANGED main
             \/ main' \in {"stopped", "cancelling", "exited"}
             \/ main = "parked"
      BY <2>1 DEF Poll, Stop, CancelAll, Exit, Cancel, Idle, vars
    <3> QED
      BY <3>1, OthersKeep
  <2>2. CASE Teardown \/ Resume
    BY <2>2, MainKeeps
  <2>3. CASE \E t \in Tasks : Timer(t) \/ RunTimer(t) \/ RunTask(t)
    BY <2>3, TasksKeep
  <2>4. CASE \E c \in Client :
               \/ Accept(c) \/ Attach(c) \/ Made(c)
               \/ Data(c) \/ Eof(c) \/ Lost(c) \/ Flush(c)
               \/ Serve(c) \/ Pause(c) \/ Abort(c) \/ Finish(c)
               \/ Connect(c) \/ Send(c) \/ HangUp(c) \/ Take(c)
    BY <2>4, ClientKeeps
  <2> QED
    BY <2>1, <2>2, <2>3, <2>4 DEF Next, Loop, World
<1>3. Inv => NoTaskLeft
  BY DEF TasksInv, NoTaskLeft
<1> QED
  BY <1>1, <1>2, <1>3, PTL DEF Spec

-----------------------------------------------------------------------------
(* Queues.  What matters of them is which callbacks are in them, which of  *)
(* two comes first, and which is in them only once.                        *)
In(q, a) == \E i \in 1 .. Len(q) : q[i] = a

Before(q, a, b) ==
  \A i, j \in 1 .. Len(q) : q[i] = a /\ q[j] = b => i < j

Once(q, a) ==
  \A i, j \in 1 .. Len(q) : q[i] = a /\ q[j] = a => i = j

(* Taking the first callback.                                              *)
LEMMA OfTail ==
  ASSUME NEW S, NEW q \in Seq(S), q # <<>>, NEW a
  PROVE  /\ In(q, Head(q))
         /\ In(Tail(q), a) => In(q, a)
         /\ In(q, a) => a = Head(q) \/ In(Tail(q), a)
         /\ Before(q, a, Head(q)) => ~In(q, a)
         /\ Once(q, Head(q)) => ~In(Tail(q), Head(q))
         /\ Once(q, a) => Once(Tail(q), a)
         /\ \A b : Before(q, a, b) => Before(Tail(q), a, b)
<1>1. /\ Len(q) \in Nat \ {0} /\ Head(q) = q[1] /\ Len(Tail(q)) = Len(q) - 1
      /\ \A i \in 1 .. Len(Tail(q)) : i + 1 \in 1 .. Len(q) /\ Tail(q)[i] = q[i + 1]
  OBVIOUS
<1>2. In(q, Head(q))
  BY <1>1 DEF In
<1>3. In(Tail(q), a) => In(q, a)
  BY <1>1 DEF In
<1>4. In(q, a) => a = Head(q) \/ In(Tail(q), a)
  <2> SUFFICES ASSUME NEW i \in 1 .. Len(q), q[i] = a, i # 1
               PROVE  In(Tail(q), a)
    BY <1>1 DEF In
  <2>1. i - 1 \in 1 .. Len(Tail(q)) /\ Tail(q)[i - 1] = q[i]
    BY <1>1
  <2> QED
    BY <2>1 DEF In
<1>5. Before(q, a, Head(q)) => ~In(q, a)
  BY <1>1 DEF In, Before
<1>6. Once(q, Head(q)) => ~In(Tail(q), Head(q))
  BY <1>1 DEF In, Once
<1>7. Once(q, a) => Once(Tail(q), a)
  BY <1>1 DEF Once
<1>8. \A b : Before(q, a, b) => Before(Tail(q), a, b)
  BY <1>1 DEF Before
<1> QED
  BY <1>2, <1>3, <1>4, <1>5, <1>6, <1>7, <1>8

(* Putting one queue after another.                                        *)
LEMMA OfConcat ==
  ASSUME NEW S, NEW q \in Seq(S), NEW r \in Seq(S), NEW a
  PROVE  /\ In(q \o r, a) <=> In(q, a) \/ In(r, a)
         /\ Once(q, a) /\ ~In(r, a) => Once(q \o r, a)
         /\ Once(r, a) /\ ~In(q, a) => Once(q \o r, a)
         /\ \A b : /\ Before(q, a, b) /\ Before(r, a, b)
                   /\ ~(In(r, a) /\ In(q, b))
                   => Before(q \o r, a, b)
<1>1. /\ Len(q) \in Nat /\ Len(r) \in Nat /\ Len(q \o r) = Len(q) + Len(r)
      /\ \A i \in 1 .. Len(q) : (q \o r)[i] = q[i]
      /\ \A i \in 1 .. Len(q \o r) :
           i \notin 1 .. Len(q) => /\ i - Len(q) \in 1 .. Len(r) /\ i > Len(q)
                                   /\ (q \o r)[i] = r[i - Len(q)]
      /\ \A i \in 1 .. Len(r) :
           i + Len(q) \in 1 .. Len(q \o r) /\ (q \o r)[i + Len(q)] = r[i]
  OBVIOUS
<1>2. In(q \o r, a) => In(q, a) \/ In(r, a)
  BY <1>1 DEF In
<1>3. In(q, a) => In(q \o r, a)
  BY <1>1 DEF In
<1>4. In(r, a) => In(q \o r, a)
  BY <1>1 DEF In
<1>5. Once(q, a) /\ ~In(r, a) => Once(q \o r, a)
  BY <1>1 DEF In, Once
<1>8. Once(r, a) /\ ~In(q, a) => Once(q \o r, a)
  <2> SUFFICES ASSUME Once(r, a), ~In(q, a),
                      NEW i \in 1 .. Len(q \o r), NEW j \in 1 .. Len(q \o r),
                      (q \o r)[i] = a, (q \o r)[j] = a
               PROVE  i = j
    BY DEF Once
  <2>1. i \notin 1 .. Len(q) /\ j \notin 1 .. Len(q)
    BY <1>1 DEF In
  <2>2. i - Len(q) = j - Len(q)
    BY <1>1, <2>1 DEF Once
  <2> QED
    BY <1>1, <2>2
<1>6. ASSUME NEW b, Before(q, a, b), Before(r, a, b), ~(In(r, a) /\ In(q, b)),
             NEW i \in 1 .. Len(q \o r), NEW j \in 1 .. Len(q \o r),
             (q \o r)[i] = a, (q \o r)[j] = b
      PROVE  i < j
  <2>1. CASE i \in 1 .. Len(q) /\ j \in 1 .. Len(q)
    BY <1>1, <1>6, <2>1 DEF Before
  <2>2. CASE i \notin 1 .. Len(q) /\ j \notin 1 .. Len(q)
    <3>1. i - Len(q) < j - Len(q)
      BY <1>1, <1>6, <2>2 DEF Before
    <3> QED
      BY <1>1, <3>1
  <2>3. CASE i \in 1 .. Len(q) /\ j \notin 1 .. Len(q)
    BY <1>1, <2>3
  <2>4. CASE i \notin 1 .. Len(q) /\ j \in 1 .. Len(q)
    BY <1>1, <1>6, <2>4 DEF In
  <2> QED
    BY <2>1, <2>2, <2>3, <2>4
<1>7. \A b : /\ Before(q, a, b) /\ Before(r, a, b)
             /\ ~(In(r, a) /\ In(q, b))
             => Before(q \o r, a, b)
  BY <1>6 DEF Before
<1> QED
  BY <1>2, <1>3, <1>4, <1>5, <1>7, <1>8

(* One callback is before no other and is there once.                      *)
LEMMA OfOne ==
  ASSUME NEW x, NEW a
  PROVE  /\ In(<<x>>, a) <=> a = x
         /\ Once(<<x>>, a)
         /\ \A b : Before(<<x>>, a, b) <=> ~(a = x /\ b = x)
BY DEF In, Once, Before

LEMMA OfNone ==
  ASSUME NEW a
  PROVE  /\ ~In(<<>>, a) /\ Once(<<>>, a)
         /\ \A b : Before(<<>>, a, b)
BY DEF In, Once, Before

-----------------------------------------------------------------------------
(* Callbacks are tuples of names and clients, sessions are records.        *)
Name ==
  {"accept", "attach", "made", "data", "eof", "lost", "flush", "step",
   "timer", "main", "stop", "sweeper", "syncer"}

Callback == {<<k>> : k \in Name} \cup (Name \X (Client \cup Tasks))

Session ==
  [transport : {"none", "queued", "open", "closing", "lost"},
   handler : {"none", "created", "waiting", "woken", "draining", "paused",
              "cancelled", "leaving", "abandoned", "done"},
   journal : {"aof", "none"},
   sent : Int, inbox : Int, ran : Int, eof : BOOLEAN,
   unread : BOOLEAN]

Shaped ==
  /\ todo \in Seq(Callback) /\ next \in Seq(Callback)
  /\ session \in [Client -> Session]
  /\ journal \in {"aof", "none"}
  /\ clients \subseteq Client

LEMMA CallbackShape ==
  ASSUME NEW k \in Name
  PROVE  /\ <<k>> \in Callback
         /\ \A c \in Client \cup Tasks : <<k, c>> \in Callback
BY DEF Callback

(* What a step does to the queues: callbacks only leave todo, and x is     *)
(* added to next.                                                          *)
Leaves ==
  /\ todo' \in Seq(Callback) /\ next' \in Seq(Callback)
  /\ todo' # <<>> => todo # <<>>
  /\ \A a : /\ In(todo', a) => In(todo, a)
            /\ Once(todo, a) => Once(todo', a)
            /\ \A b : Before(todo, a, b) => Before(todo', a, b)

Adds(x) ==
  \A a : /\ In(next', a) <=> In(next, a) \/ a = x
         /\ Once(next, a) /\ (a = x => ~In(next, a)) => Once(next', a)
         /\ \A b : Before(next, a, b) /\ (a = x => b # x /\ ~In(next, b))
                     => Before(next', a, b)

(* What the outside does.                                                  *)
LEMMA AppendAdds ==
  ASSUME Shaped, NEW x \in Callback, next' = Append(next, x)
  PROVE  next' \in Seq(Callback) /\ Adds(x)
<1>1. next \in Seq(Callback) /\ <<x>> \in Seq(Callback) /\ next' = next \o <<x>>
  BY DEF Shaped
<1>2. next' \in Seq(Callback)
  BY <1>1
<1>3. ASSUME NEW a
      PROVE  /\ In(next', a) <=> In(next, a) \/ a = x
             /\ Once(next, a) /\ (a = x => ~In(next, a)) => Once(next', a)
             /\ \A b : Before(next, a, b) /\ (a = x => b # x /\ ~In(next, b))
                         => Before(next', a, b)
  <2>1. /\ In(next \o <<x>>, a) <=> In(next, a) \/ In(<<x>>, a)
        /\ Once(next, a) /\ ~In(<<x>>, a) => Once(next \o <<x>>, a)
        /\ Once(<<x>>, a) /\ ~In(next, a) => Once(next \o <<x>>, a)
        /\ \A b : /\ Before(next, a, b) /\ Before(<<x>>, a, b)
                  /\ ~(In(<<x>>, a) /\ In(next, b))
                  => Before(next \o <<x>>, a, b)
    BY <1>1, OfConcat
  <2>2. /\ In(<<x>>, a) <=> a = x
        /\ Once(<<x>>, a)
        /\ \A b : Before(<<x>>, a, b) <=> ~(a = x /\ b = x)
    BY OfOne
  <2> QED
    BY <1>1, <2>1, <2>2
<1> QED
  BY <1>2, <1>3 DEF Adds

LEMMA OutsideAdds ==
  ASSUME Shaped, NEW x \in Callback, UNCHANGED todo, next' = Append(next, x)
  PROVE  Leaves /\ Adds(x)
<1>1. next' \in Seq(Callback) /\ Adds(x)
  BY AppendAdds
<1> QED
  BY <1>1 DEF Leaves, Shaped

(* What a callback does that schedules nothing, or one other.              *)
LEMMA RunsFirst ==
  ASSUME Shaped, NEW h, Runs(h), todo' = Tail(todo), next' \in Seq(Callback)
  PROVE  /\ Leaves /\ In(todo, h)
         /\ \A a : /\ In(todo, a) => a = h \/ In(todo', a)
                   /\ Before(todo, a, h) => ~In(todo, a)
         /\ Once(todo, h) => ~In(todo', h)
<1>1. todo \in Seq(Callback) /\ todo # <<>> /\ Head(todo) = h
  BY DEF Shaped, Runs
<1>2. todo' \in Seq(Callback)
  BY <1>1
<1>3. ASSUME NEW a
      PROVE  /\ In(todo, h)
             /\ In(todo', a) => In(todo, a)
             /\ In(todo, a) => a = h \/ In(todo', a)
             /\ Before(todo, a, h) => ~In(todo, a)
             /\ Once(todo, h) => ~In(todo', h)
             /\ Once(todo, a) => Once(todo', a)
             /\ \A b : Before(todo, a, b) => Before(todo', a, b)
  BY <1>1, OfTail
<1> QED
  BY <1>1, <1>2, <1>3 DEF Leaves

LEMMA SoonNothing ==
  ASSUME Shaped, NEW h, Runs(h), Soon(<<>>)
  PROVE  /\ Leaves /\ next' = next /\ In(todo, h)
         /\ \A a : /\ In(todo, a) => a = h \/ In(todo', a)
                   /\ Before(todo, a, h) => ~In(todo, a)
         /\ Once(todo, h) => ~In(todo', h)
<1>1. todo' = Tail(todo) /\ next' = next /\ next' \in Seq(Callback)
  BY DEF Soon, Shaped
<1> QED
  BY <1>1, RunsFirst

LEMMA SoonOne ==
  ASSUME Shaped, NEW h, NEW x \in Callback, Runs(h), Soon(<<x>>)
  PROVE  /\ Leaves /\ Adds(x) /\ In(todo, h)
         /\ \A a : /\ In(todo, a) => a = h \/ In(todo', a)
                   /\ Before(todo, a, h) => ~In(todo, a)
         /\ Once(todo, h) => ~In(todo', h)
<1>1. todo' = Tail(todo) /\ next' = Append(next, x)
  BY DEF Soon, Shaped
<1>2. next' \in Seq(Callback) /\ Adds(x)
  BY <1>1, AppendAdds
<1> QED
  BY <1>1, <1>2, RunsFirst

(* What a set of callbacks is scheduled as.                                *)
LEMMA OfSetToSeq ==
  ASSUME NEW S, IsFiniteSet(S)
  PROVE  SetToSeq(S) \in Seq(S) /\ \A a : In(SetToSeq(S), a) => a \in S
<1> DEFINE n == Cardinality(S)
<1>1. n \in Nat /\ ExistsBijection(1 .. n, S)
  BY FS_CardinalityType
<1>2. PICK f \in [1 .. n -> S] : IsInjective(f)
  BY <1>1 DEF ExistsBijection, Bijection, Injection
<1>3. SetToSeq(S) \in [1 .. n -> S]
  BY <1>2 DEF SetToSeq
<1> HIDE DEF n
<1>4. SetToSeq(S) \in Seq(S) /\ Len(SetToSeq(S)) = n
  BY <1>1, <1>3
<1> QED
  BY <1>3, <1>4 DEF In

(* serve's teardown puts tasks and hangups behind everything scheduled;    *)
(* asyncio.run's cancellation puts handlers there.                         *)
Hangups == {<<t>> : t \in Tasks} \cup ({"lost"} \X Client)

LEMMA OfSteps ==
  ASSUME NEW k \in Name, NEW C \in SUBSET Client
  PROVE  /\ SetToSeq({k} \X C) \in Seq(Callback)
         /\ \A a : In(SetToSeq({k} \X C), a) => a \in {k} \X C
<1>1. IsFiniteSet(C)
  BY ServerAssumption, FS_Subset DEF ServerAssumption
<1>2. IsFiniteSet({k} \X C)
  BY <1>1, FS_Singleton, FS_Product
<1>3. {k} \X C \subseteq Callback
  <2>1. {k} \X C \subseteq Name \X (Client \cup Tasks)
    OBVIOUS
  <2> QED
    BY <2>1 DEF Callback
<1>4. /\ SetToSeq({k} \X C) \in Seq({k} \X C)
      /\ \A a : In(SetToSeq({k} \X C), a) => a \in {k} \X C
  BY <1>2, OfSetToSeq
<1> DEFINE S == SetToSeq({k} \X C)
           T == {k} \X C
<1> HIDE DEF S, T
<1>5. S \in Seq(T) /\ T \subseteq Callback => S \in Seq(Callback)
  OBVIOUS
<1> QED
  BY <1>3, <1>4, <1>5 DEF S, T

LEMMA OfTasks ==
  ASSUME NEW T \in SUBSET Tasks
  PROVE  /\ SetToSeq({<<t>> : t \in T}) \in Seq(Callback)
         /\ \A a : In(SetToSeq({<<t>> : t \in T}), a) => a \in {<<t>> : t \in T}
<1> DEFINE U == {<<t>> : t \in T}
           S == SetToSeq(U)
<1>1. IsFiniteSet(U)
  <2>1. IsFiniteSet({<<"sweeper">>, <<"syncer">>})
    <3>1. IsFiniteSet({<<"sweeper">>})
      BY FS_Singleton
    <3>2. {<<"sweeper">>, <<"syncer">>} = {<<"sweeper">>} \cup {<<"syncer">>}
      OBVIOUS
    <3> QED
      BY <3>1, <3>2, FS_AddElement
  <2>2. U \subseteq {<<"sweeper">>, <<"syncer">>}
    BY ServerAssumption DEF ServerAssumption
  <2> QED
    BY <2>1, <2>2, FS_Subset
<1>2. U \subseteq Callback
  <2>1. Tasks \subseteq Name
    BY ServerAssumption DEF ServerAssumption, Name
  <2> QED
    BY <2>1, CallbackShape
<1> HIDE DEF U
<1>3. S \in Seq(U) /\ \A a : In(S, a) => a \in U
  BY <1>1, OfSetToSeq
<1> HIDE DEF S
<1>4. S \in Seq(Callback)
  BY <1>2, <1>3
<1> QED
  BY <1>3, <1>4 DEF S, U

(* What is put behind the others, and no more than what is in D.           *)
LEMMA OfBehind ==
  ASSUME Shaped, NEW A \in Seq(Callback), NEW D,
         \A a : In(A, a) => a \in D,
         next' = next \o A
  PROVE  /\ next' \in Seq(Callback)
         /\ \A a :
              /\ In(next, a) => In(next', a)
              /\ In(next', a) => In(next, a) \/ a \in D
              /\ Once(next, a) /\ a \notin D => Once(next', a)
              /\ \A b : a \notin D /\ Before(next, a, b) => Before(next', a, b)
<1>1. next \in Seq(Callback) /\ next' \in Seq(Callback)
  BY DEF Shaped
<1>2. ASSUME NEW a
      PROVE  /\ In(next, a) => In(next', a)
             /\ In(next', a) => In(next, a) \/ a \in D
             /\ Once(next, a) /\ a \notin D => Once(next', a)
             /\ \A b : a \notin D /\ Before(next, a, b) => Before(next', a, b)
  <2>1. /\ In(next', a) <=> In(next, a) \/ In(A, a)
        /\ Once(next, a) /\ ~In(A, a) => Once(next', a)
        /\ \A b : /\ Before(next, a, b) /\ Before(A, a, b)
                  /\ ~(In(A, a) /\ In(next, b))
                  => Before(next', a, b)
    BY <1>1, OfConcat
  <2>2. \A b : ~In(A, a) => Before(A, a, b)
    BY DEF In, Before
  <2> QED
    BY <2>1, <2>2
<1> QED
  BY <1>1, <1>2

LEMMA OfTeardown ==
  ASSUME Shaped, Teardown
  PROVE  /\ Leaves /\ next' \in Seq(Callback)
         /\ In(todo, <<"main">>)
         /\ Once(todo, <<"main">>) => ~In(todo', <<"main">>)
         /\ \A a :
              /\ In(todo, a) => a = <<"main">> \/ In(todo', a)
              /\ In(next, a) => In(next', a)
              /\ In(next', a) => In(next, a) \/ a \in Hangups
              /\ Once(next, a) /\ a \notin Hangups => Once(next', a)
              /\ \A b : a \notin Hangups /\ Before(next, a, b) => Before(next', a, b)
<1> DEFINE closing == {c \in clients : session[c].transport = "open"}
           C == {c \in closing : LosesAtOnce(session[c])}
           T == {t \in Tasks : task[t] \in {"asleep", "due"}}
           A == SetToSeq({<<t>> : t \in T})
           B == SetToSeq({"lost"} \X C)
<1>1. Runs(<<"main">>) /\ todo' = Tail(todo) /\ next' = next \o (A \o B)
  BY DEF Teardown, Soon
<1>2. C \subseteq Client /\ T \subseteq Tasks /\ "lost" \in Name
  BY DEF Shaped, Name
<1> HIDE DEF C, T
<1>3. /\ A \in Seq(Callback) /\ B \in Seq(Callback)
      /\ \A a : In(A, a) \/ In(B, a) => a \in Hangups
  <2>1. /\ A \in Seq(Callback)
        /\ \A a : In(A, a) => a \in {<<t>> : t \in T}
    BY <1>2, OfTasks
  <2>2. /\ B \in Seq(Callback)
        /\ \A a : In(B, a) => a \in {"lost"} \X C
    BY <1>2, OfSteps
  <2> HIDE DEF A, B
  <2>3. {<<t>> : t \in T} \subseteq Hangups /\ {"lost"} \X C \subseteq Hangups
    BY <1>2 DEF Hangups
  <2> QED
    BY <2>1, <2>2, <2>3
<1> HIDE DEF A, B
<1>4. A \o B \in Seq(Callback) /\ \A a : In(A \o B, a) => a \in Hangups
  BY <1>3, OfConcat
<1> DEFINE AB == A \o B
<1> HIDE DEF AB
<1>5. AB \in Seq(Callback) /\ (\A a : In(AB, a) => a \in Hangups) /\ next' = next \o AB
  BY <1>1, <1>4 DEF AB
<1>6. /\ next' \in Seq(Callback)
      /\ \A a :
           /\ In(next, a) => In(next', a)
           /\ In(next', a) => In(next, a) \/ a \in Hangups
           /\ Once(next, a) /\ a \notin Hangups => Once(next', a)
           /\ \A b : a \notin Hangups /\ Before(next, a, b) => Before(next', a, b)
  BY <1>5, OfBehind
<1>7. /\ Leaves /\ In(todo, <<"main">>)
      /\ \A a : In(todo, a) => a = <<"main">> \/ In(todo', a)
      /\ Once(todo, <<"main">>) => ~In(todo', <<"main">>)
  BY <1>1, <1>6, RunsFirst
<1> QED
  BY <1>6, <1>7

-----------------------------------------------------------------------------
(* The invariant, in five parts.                                           *)

(* A connection comes up while the tasks sleep: what was accepted before a *)
(* timer ran out is attached and made before the task that timer wakes.    *)
ComingUp ==
  \A c \in Client, t \in Tasks :
    /\ todo # <<>> => ~In(next, <<"timer", t>>)
    /\ Before(todo, <<"attach", c>>, <<"timer", t>>)
    /\ Before(next, <<"attach", c>>, <<"timer", t>>)
    /\ listening /\ In(todo, <<"attach", c>>) => ~In(next, <<t>>)
    /\ Before(todo, <<"made", c>>, <<t>>)
    /\ Before(next, <<"made", c>>, <<t>>)

(* serve is scheduled once it is cancelled, and, while it waits for the    *)
(* tasks, behind every connection_made: there is none when it has ended.   *)
Over == {"done", "stopped", "cancelling", "exited"}

ServeInv ==
  /\ main = "parked" => ~In(todo, <<"main">>) /\ ~In(next, <<"main">>)
  /\ main = "cancelled" => /\ Once(todo, <<"main">>) /\ Once(next, <<"main">>)
                           /\ ~(In(todo, <<"main">>) /\ In(next, <<"main">>))
  /\ main = "awaiting" =>
       \A c \in Client :
         /\ In(todo, <<"made", c>>) => ~In(next, <<"main">>)
         /\ In(todo, <<"main">>) => ~In(next, <<"made", c>>)
         /\ Before(todo, <<"made", c>>, <<"main">>)
         /\ Before(next, <<"made", c>>, <<"main">>)
  /\ main \in Over => \A c \in Client : /\ ~In(todo, <<"made", c>>)
                                        /\ ~In(next, <<"made", c>>)
  /\ listening <=> main \in {"parked", "cancelled"}

(* A client's connection is at one place on its way up, and has no handler *)
(* until it has come up.                                                   *)
Arriving == {"accept", "attach", "made"}

ArrivalInv(c) ==
  \A k \in Arriving :
    /\ Once(todo, <<k, c>>) /\ Once(next, <<k, c>>)
    /\ In(todo, <<k, c>>) \/ In(next, <<k, c>>) =>
         session[c].handler = "none" /\ session[c].transport # "none"
    /\ \A l \in Arriving :
         /\ In(todo, <<k, c>>) => ~In(next, <<l, c>>)
         /\ In(todo, <<k, c>>) /\ In(todo, <<l, c>>) => k = l
         /\ In(next, <<k, c>>) /\ In(next, <<l, c>>) => k = l

(* A handler that has not started is scheduled once, before the data that  *)
(* arrives for it; nothing is scheduled for one that does not exist.       *)
HandlerInv(c) ==
  /\ session[c].handler = "none" =>
       /\ ~In(todo, <<"step", c>>) /\ ~In(next, <<"step", c>>)
       /\ ~In(todo, <<"data", c>>) /\ ~In(next, <<"data", c>>)
  /\ session[c].handler \in {"none", "created"} => session[c].inbox = 0
  /\ session[c].handler = "created" =>
       /\ In(todo, <<"step", c>>) \/ In(next, <<"step", c>>)
       /\ ~(In(todo, <<"step", c>>) /\ In(next, <<"step", c>>))
       /\ Once(todo, <<"step", c>>) /\ Once(next, <<"step", c>>)
       /\ Before(todo, <<"step", c>>, <<"data", c>>)
       /\ Before(next, <<"step", c>>, <<"data", c>>)
       /\ In(todo, <<"data", c>>) => In(todo, <<"step", c>>)

(* A handler that starts without a journal starts after the iteration that *)
(* closed the file, in the loop's last one: when it runs again it has been *)
(* cancelled.                                                              *)
Serving == {"waiting", "woken", "draining", "paused"}

EndInv(c) ==
  /\ main = "awaiting" /\ session[c].handler = "created" =>
       /\ Before(todo, <<"step", c>>, <<"main">>)
       /\ Before(next, <<"step", c>>, <<"main">>)
  /\ /\ file = "closed" /\ In(next, <<"stop">>)
     /\ session[c].handler = "created"
     => ~In(todo, <<"step", c>>)
  /\ session[c].journal = "none" /\ session[c].handler \in Serving
     => /\ file = "closed" /\ ~In(next, <<"stop">>) /\ ~In(todo, <<"step", c>>)
  /\ /\ file = "closed" /\ ~In(next, <<"stop">>)
     /\ session[c].handler = "created"
     => In(todo, <<"step", c>>)
  /\ main \in {"cancelling", "exited"} =>
       session[c].handler \notin Serving \cup {"created"}

(* The loop ends once the file is closed.                                  *)
LastInv ==
  /\ journal = "none" <=> file = "closed"
  /\ file = "closed" <=> main \in Over
  /\ main = "done" <=> In(next, <<"stop">>) \/ In(todo, <<"stop">>)
  /\ Once(todo, <<"stop">>) /\ Once(next, <<"stop">>)
  /\ ~(In(todo, <<"stop">>) /\ In(next, <<"stop">>))
  /\ main = "exited" => todo = <<>> /\ next = <<>>

(* The callbacks of the kinds above are different ones.                    *)
LEMMA Kinds ==
  ASSUME NEW c, NEW d, NEW t \in Tasks
  PROVE  /\ <<"attach", c>> # <<"timer", t>>
         /\ <<"attach", c>> # <<t>> /\ <<"timer", d>> # <<t>>
         /\ <<"made", c>> # <<t>> /\ <<"made", c>> # <<"timer", d>>
         /\ <<"made", c>> # <<"attach", d>>
         /\ <<"step", c>> # <<"data", d>> /\ <<"step", c>> # <<"main">>
         /\ <<"step", c>> # <<"stop">> /\ <<"step", c>> # <<t>>
         /\ <<"main">> # <<t>> /\ <<"stop">> # <<t>> /\ <<"main">> # <<"stop">>
         /\ <<"step", c>> = <<"step", d>> => c = d
         /\ <<"data", c>> = <<"data", d>> => c = d
         /\ <<"attach", c>> = <<"attach", d>> => c = d
         /\ <<"made", c>> = <<"made", d>> => c = d
         /\ <<"timer", c>> = <<"timer", d>> => c = d
         /\ <<c>> = <<d>> => c = d
BY ServerAssumption DEF ServerAssumption

(* Steps that schedule nothing, or x, and leave serve and the file alone.  *)
LEMMA ComingUpKept ==
  ASSUME ComingUp, Leaves, listening' => listening, NEW x,
         \/ next' = next
         \/ /\ Adds(x)
            /\ \A t \in Tasks, c \in Client :
                 /\ x = <<"timer", t>> => todo' = <<>>
                 /\ x = <<"attach", c>> => ~In(next, <<"timer", t>>)
                 /\ x = <<"made", c>> => ~In(next, <<t>>)
                 /\ x = <<t>> => ~In(todo', <<"attach", c>>)
  PROVE  ComingUp'
<1> SUFFICES ASSUME NEW c \in Client, NEW t \in Tasks
             PROVE  /\ todo' # <<>> => ~In(next', <<"timer", t>>)
                    /\ Before(todo', <<"attach", c>>, <<"timer", t>>)
                    /\ Before(next', <<"attach", c>>, <<"timer", t>>)
                    /\ listening' /\ In(todo', <<"attach", c>>) => ~In(next', <<t>>)
                    /\ Before(todo', <<"made", c>>, <<t>>)
                    /\ Before(next', <<"made", c>>, <<t>>)
  BY DEF ComingUp
<1>1. /\ todo # <<>> => ~In(next, <<"timer", t>>)
      /\ Before(todo, <<"attach", c>>, <<"timer", t>>)
      /\ Before(next, <<"attach", c>>, <<"timer", t>>)
      /\ listening /\ In(todo, <<"attach", c>>) => ~In(next, <<t>>)
      /\ Before(todo, <<"made", c>>, <<t>>)
      /\ Before(next, <<"made", c>>, <<t>>)
  BY DEF ComingUp
<1>2. /\ todo' # <<>> => todo # <<>>
      /\ Before(todo', <<"attach", c>>, <<"timer", t>>)
      /\ Before(todo', <<"made", c>>, <<t>>)
      /\ In(todo', <<"attach", c>>) => In(todo, <<"attach", c>>)
  BY <1>1 DEF Leaves
<1>3. CASE next' = next
  BY <1>1, <1>2, <1>3
<1>4. CASE next' # next
  <2>1. /\ Adds(x)
        /\ x = <<"timer", t>> => todo' = <<>>
        /\ x = <<"attach", c>> => ~In(next, <<"timer", t>>)
        /\ x = <<"made", c>> => ~In(next, <<t>>)
        /\ x = <<t>> => ~In(todo', <<"attach", c>>)
    BY <1>4
  <2>2. /\ In(next', <<"timer", t>>) => In(next, <<"timer", t>>) \/ x = <<"timer", t>>
        /\ In(next', <<t>>) => In(next, <<t>>) \/ x = <<t>>
    BY <2>1 DEF Adds
  <2>3. Before(next', <<"attach", c>>, <<"timer", t>>)
    BY <1>1, <2>1, Kinds DEF Adds
  <2>4. Before(next', <<"made", c>>, <<t>>)
    BY <1>1, <2>1, Kinds DEF Adds
  <2> QED
    BY <1>1, <1>2, <2>1, <2>2, <2>3, <2>4
<1> QED
  BY <1>3, <1>4

LEMMA ServeKept ==
  ASSUME ServeInv, Leaves, UNCHANGED <<main, listening>>, NEW x,
         \/ next' = next
         \/ /\ Adds(x)
            /\ x = <<"main">> => /\ main \notin {"parked", "cancelled"}
                                 /\ \A c \in Client : ~In(todo', <<"made", c>>)
            /\ \A c \in Client : x = <<"made", c>> => listening
  PROVE  ServeInv'
<1>1. /\ In(todo', <<"main">>) => In(todo, <<"main">>)
      /\ Once(todo, <<"main">>) => Once(todo', <<"main">>)
      /\ \A c \in Client : In(todo', <<"made", c>>) => In(todo, <<"made", c>>)
      /\ \A c \in Client : Before(todo, <<"made", c>>, <<"main">>)
                            => Before(todo', <<"made", c>>, <<"main">>)
  BY DEF Leaves
<1>2. CASE next' = next
  BY <1>1, <1>2 DEF ServeInv
<1>3. CASE next' # next
  <2>1. /\ x = <<"main">> => /\ main \notin {"parked", "cancelled"}
                             /\ \A c \in Client : ~In(todo', <<"made", c>>)
        /\ In(next', <<"main">>) <=> In(next, <<"main">>) \/ x = <<"main">>
        /\ x # <<"main">> /\ Once(next, <<"main">>) => Once(next', <<"main">>)
    BY <1>3 DEF Adds
  <2>2. ASSUME NEW c \in Client, main \notin {"parked", "cancelled"}
        PROVE  /\ In(next', <<"made", c>>) => In(next, <<"made", c>>)
               /\ Before(next, <<"made", c>>, <<"main">>)
                    => Before(next', <<"made", c>>, <<"main">>)
    <3>1. x # <<"made", c>>
      BY <1>3, <2>2 DEF ServeInv
    <3> QED
      BY <1>3, <3>1 DEF Adds
  <2> QED
    BY <1>1, <2>1, <2>2 DEF ServeInv, Over
<1> QED
  BY <1>2, <1>3

LEMMA ArrivalKept ==
  ASSUME NEW c \in Client, ArrivalInv(c), Leaves, NEW x,
         session'[c].handler = session[c].handler \/ session[c].handler # "none",
         session'[c].transport = "none" => session[c].transport = "none",
         \/ next' = next
         \/ /\ Adds(x)
            /\ \A k \in Arriving : x = <<k, c>> =>
                 /\ session'[c].handler = "none" /\ session'[c].transport # "none"
                 /\ \A l \in Arriving : ~In(todo', <<l, c>>) /\ ~In(next, <<l, c>>)
  PROVE  ArrivalInv(c)'
<1> SUFFICES ASSUME NEW k \in Arriving, NEW l \in Arriving
             PROVE  /\ Once(todo', <<k, c>>) /\ Once(next', <<k, c>>)
                    /\ In(todo', <<k, c>>) \/ In(next', <<k, c>>) =>
                         session'[c].handler = "none" /\ session'[c].transport # "none"
                    /\ In(todo', <<k, c>>) => ~In(next', <<l, c>>)
                    /\ In(todo', <<k, c>>) /\ In(todo', <<l, c>>) => k = l
                    /\ In(next', <<k, c>>) /\ In(next', <<l, c>>) => k = l
  BY DEF ArrivalInv
<1> DEFINE a == <<k, c>>
           b == <<l, c>>
<1>1. /\ Once(todo, a) /\ Once(next, a)
      /\ In(todo, a) \/ In(next, a) =>
           session[c].handler = "none" /\ session[c].transport # "none"
      /\ In(todo, a) => ~In(next, b)
      /\ In(todo, b) => ~In(next, a)
      /\ In(todo, a) /\ In(todo, b) => k = l
      /\ In(next, a) /\ In(next, b) => k = l
  BY DEF ArrivalInv
<1>2. /\ In(todo', a) => In(todo, a)
      /\ In(todo', b) => In(todo, b)
      /\ Once(todo, a) => Once(todo', a)
  BY DEF Leaves
<1>3. CASE next' = next
  BY <1>1, <1>2, <1>3
<1>4. CASE next' # next
  <2>1. /\ In(next', a) => In(next, a) \/ x = a
        /\ In(next', b) => In(next, b) \/ x = b
        /\ Once(next, a) /\ (a = x => ~In(next, a)) => Once(next', a)
    BY <1>4 DEF Adds
  <2>2. x = a \/ x = b => /\ session'[c].handler = "none"
                         /\ session'[c].transport # "none"
                         /\ ~In(todo', a) /\ ~In(todo', b)
                         /\ ~In(next, a) /\ ~In(next, b)
    BY <1>4
  <2>4. a = b => k = l
    OBVIOUS
  <2>5. Once(next', a)
    BY <1>1, <2>1, <2>2
  <2> HIDE DEF a, b
  <2>6. /\ Once(todo', a)
        /\ In(todo', a) \/ In(next', a) =>
             session'[c].handler = "none" /\ session'[c].transport # "none"
        /\ In(todo', a) => ~In(next', b)
        /\ In(todo', a) /\ In(todo', b) => k = l
        /\ In(next', a) /\ In(next', b) => k = l
    BY <1>1, <1>2, <2>1, <2>2, <2>4
  <2> QED
    BY <2>5, <2>6 DEF a, b
<1> QED
  BY <1>3, <1>4

LEMMA HandlerKept ==
  ASSUME NEW c \in Client, HandlerInv(c), Leaves, NEW x,
         \/ session'[c].handler \notin {"none", "created"}
         \/ /\ session'[c].handler = session[c].handler
            /\ session'[c].inbox = session[c].inbox
            /\ In(todo, <<"step", c>>) => In(todo', <<"step", c>>)
            /\ \/ next' = next
               \/ /\ Adds(x) /\ x # <<"step", c>>
                  /\ x = <<"data", c>> => session[c].handler # "none" /\ todo = <<>>
  PROVE  HandlerInv(c)'
<1> DEFINE s == <<"step", c>>
           d == <<"data", c>>
<1>1. CASE session'[c].handler \notin {"none", "created"}
  BY <1>1 DEF HandlerInv
<1>2. CASE session'[c].handler \in {"none", "created"}
  <2>1. /\ session'[c].handler = session[c].handler
        /\ session'[c].inbox = session[c].inbox
        /\ In(todo, s) => In(todo', s)
        /\ \/ next' = next
           \/ /\ Adds(x) /\ x # s
              /\ x = d => session[c].handler # "none" /\ todo = <<>>
    BY <1>2
  <2>2. /\ In(todo', s) => In(todo, s)
        /\ In(todo', d) => In(todo, d)
        /\ Once(todo, s) => Once(todo', s)
        /\ Before(todo, s, d) => Before(todo', s, d)
    BY DEF Leaves
  <2>3. /\ In(next', s) <=> In(next, s)
        /\ In(next', d) => In(next, d) \/ (session[c].handler # "none" /\ todo = <<>>)
        /\ Once(next, s) => Once(next', s)
        /\ Before(next, s, d) => Before(next', s, d)
    BY <2>1 DEF Adds
  <2> HIDE DEF s, d
  <2>4. /\ session[c].handler = "none" =>
             ~In(todo, s) /\ ~In(next, s) /\ ~In(todo, d) /\ ~In(next, d)
        /\ session[c].handler \in {"none", "created"} => session[c].inbox = 0
        /\ session[c].handler = "created" =>
             /\ In(todo, s) \/ In(next, s)
             /\ ~(In(todo, s) /\ In(next, s))
             /\ Once(todo, s) /\ Once(next, s)
             /\ Before(todo, s, d) /\ Before(next, s, d)
             /\ In(todo, d) => In(todo, s)
    BY DEF HandlerInv, s, d
  <2>5. /\ session'[c].handler = "none" =>
             ~In(todo', s) /\ ~In(next', s) /\ ~In(todo', d) /\ ~In(next', d)
        /\ session'[c].handler \in {"none", "created"} => session'[c].inbox = 0
        /\ session'[c].handler = "created" =>
             /\ In(todo', s) \/ In(next', s)
             /\ ~(In(todo', s) /\ In(next', s))
             /\ Once(todo', s) /\ Once(next', s)
             /\ Before(todo', s, d) /\ Before(next', s, d)
             /\ In(todo', d) => In(todo', s)
    BY <2>1, <2>2, <2>3, <2>4
  <2> QED
    BY <2>5 DEF HandlerInv, s, d
<1> QED
  BY <1>1, <1>2

LEMMA EndKept ==
  ASSUME NEW c \in Client, EndInv(c), Leaves, UNCHANGED <<main, file>>, NEW x,
         \/ session'[c].handler \notin Serving \cup {"created"}
         \/ /\ session'[c].journal = session[c].journal
            /\ session'[c].handler = session[c].handler
            /\ In(todo, <<"step", c>>) => In(todo', <<"step", c>>)
         \/ /\ session'[c].journal = session[c].journal
            /\ session[c].handler \in Serving /\ session'[c].handler \in Serving,
         \/ next' = next
         \/ /\ Adds(x) /\ x # <<"stop">>
            /\ x = <<"step", c>> => session[c].handler # "created"
  PROVE  EndInv(c)'
<1> DEFINE s == <<"step", c>>
<1>1. CASE session'[c].handler \notin Serving \cup {"created"}
  BY <1>1 DEF EndInv
<1>2. CASE session'[c].handler \in Serving \cup {"created"}
  <2>1. /\ session'[c].journal = session[c].journal
        /\ \/ /\ session'[c].handler = session[c].handler
              /\ In(todo, s) => In(todo', s)
           \/ session[c].handler \in Serving /\ session'[c].handler \in Serving
        /\ "created" \notin Serving
    BY <1>2 DEF Serving
  <2>2. /\ In(todo', s) => In(todo, s)
        /\ Before(todo, s, <<"main">>) => Before(todo', s, <<"main">>)
    BY DEF Leaves
  <2>3. /\ In(next', <<"stop">>) <=> In(next, <<"stop">>)
        /\ session[c].handler = "created" /\ Before(next, s, <<"main">>)
             => Before(next', s, <<"main">>)
    BY DEF Adds
  <2> HIDE DEF s
  <2>4. /\ main = "awaiting" /\ session[c].handler = "created" =>
             Before(todo, s, <<"main">>) /\ Before(next, s, <<"main">>)
        /\ /\ file = "closed" /\ In(next, <<"stop">>)
           /\ session[c].handler = "created"
           => ~In(todo, s)
        /\ session[c].journal = "none" /\ session[c].handler \in Serving
           => /\ file = "closed" /\ ~In(next, <<"stop">>) /\ ~In(todo, s)
        /\ /\ file = "closed" /\ ~In(next, <<"stop">>)
           /\ session[c].handler = "created"
           => In(todo, s)
        /\ main \in {"cancelling", "exited"} =>
             session[c].handler \notin Serving \cup {"created"}
    BY DEF EndInv, s
  <2>5. /\ main' = "awaiting" /\ session'[c].handler = "created" =>
             Before(todo', s, <<"main">>) /\ Before(next', s, <<"main">>)
        /\ /\ file' = "closed" /\ In(next', <<"stop">>)
           /\ session'[c].handler = "created"
           => ~In(todo', s)
        /\ session'[c].journal = "none" /\ session'[c].handler \in Serving
           => /\ file' = "closed" /\ ~In(next', <<"stop">>) /\ ~In(todo', s)
        /\ /\ file' = "closed" /\ ~In(next', <<"stop">>)
           /\ session'[c].handler = "created"
           => In(todo', s)
        /\ main' \in {"cancelling", "exited"} =>
             session'[c].handler \notin Serving \cup {"created"}
    BY <1>2, <2>1, <2>2, <2>3, <2>4
  <2> QED
    BY <2>5 DEF EndInv, s
<1> QED
  BY <1>1, <1>2

LEMMA LastKept ==
  ASSUME LastInv, Leaves, UNCHANGED <<main, file, journal>>, main # "exited",
         In(todo, <<"stop">>) => In(todo', <<"stop">>), NEW x,
         next' = next \/ (Adds(x) /\ x # <<"stop">>)
  PROVE  LastInv'
<1>1. /\ In(next, <<"stop">>) <=> In(next', <<"stop">>)
      /\ Once(next, <<"stop">>) => Once(next', <<"stop">>)
  BY DEF Adds
<1>2. /\ In(todo', <<"stop">>) => In(todo, <<"stop">>)
      /\ Once(todo, <<"stop">>) => Once(todo', <<"stop">>)
  BY DEF Leaves
<1> QED
  BY <1>1, <1>2 DEF LastInv

AckInv ==
  /\ Shaped /\ ComingUp /\ ServeInv /\ LastInv
  /\ \A c \in Client : ArrivalInv(c) /\ HandlerInv(c) /\ EndInv(c)
  /\ AckedIsRecorded

(* A step goes well with a handler when it leaves it alone, ends or has    *)
(* ended its service, or finds it serving and leaves it so.                *)
Steady(c) ==
  /\ session'[c].transport = "none" => session[c].transport = "none"
  /\ \/ /\ session'[c].handler = session[c].handler
        /\ session'[c].inbox = session[c].inbox
        /\ session'[c].journal = session[c].journal
        /\ In(todo, <<"step", c>>) => In(todo', <<"step", c>>)
     \/ /\ session[c].handler # "none"
        /\ session'[c].handler \in {"cancelled", "leaving", "abandoned", "done"}
     \/ /\ session'[c].journal = session[c].journal
        /\ session[c].handler \in Serving /\ session'[c].handler \in Serving

(* What may be scheduled at any time, and what only in its turn.           *)
InTurn(x) ==
  /\ x # <<"stop">>
  /\ \A c \in Client :
       /\ x = <<"step", c>> => session[c].handler \notin {"none", "created"}
       /\ x = <<"data", c>> => session[c].handler # "none" /\ todo = <<>>
       /\ x = <<"made", c>> => listening
       /\ \A t \in Tasks :
            /\ x = <<"timer", t>> => todo' = <<>>
            /\ x = <<"attach", c>> => ~In(next, <<"timer", t>>)
            /\ x = <<"made", c>> => ~In(next, <<t>>)
            /\ x = <<t>> => ~In(todo', <<"attach", c>>)
       /\ \A k \in Arriving : x = <<k, c>> =>
            /\ session'[c].handler = "none" /\ session'[c].transport # "none"
            /\ \A l \in Arriving : ~In(todo', <<l, c>>) /\ ~In(next, <<l, c>>)
  /\ x = <<"main">> => /\ main \notin {"parked", "cancelled"}
                       /\ \A c \in Client : ~In(todo', <<"made", c>>)

LEMMA QuietKeeps ==
  ASSUME AckInv, Shaped', AckedIsRecorded', Leaves,
         UNCHANGED <<main, listening, file, journal>>, main # "exited",
         In(todo, <<"stop">>) => In(todo', <<"stop">>),
         \A c \in Client : Steady(c),
         NEW x, next' = next \/ (Adds(x) /\ InTurn(x))
  PROVE  AckInv'
<1>1. ComingUp'
  BY ComingUpKept DEF AckInv, InTurn
<1>2. ServeInv'
  BY ServeKept DEF AckInv, InTurn
<1>3. LastInv'
  BY LastKept DEF AckInv, InTurn
<1>4. ASSUME NEW c \in Client
      PROVE  ArrivalInv(c)' /\ HandlerInv(c)' /\ EndInv(c)'
  <2>1. ArrivalInv(c) /\ HandlerInv(c) /\ EndInv(c) /\ Steady(c)
    BY DEF AckInv
  <2>6. \/ session'[c].handler \notin Serving \cup {"created"}
        \/ /\ session'[c].journal = session[c].journal
           /\ session'[c].handler = session[c].handler
           /\ In(todo, <<"step", c>>) => In(todo', <<"step", c>>)
        \/ /\ session'[c].journal = session[c].journal
           /\ session[c].handler \in Serving /\ session'[c].handler \in Serving
    BY <2>1 DEF Steady, Serving
  <2>5. ArrivalInv(c)'
    BY <2>1, ArrivalKept DEF Steady, InTurn, Serving
  <2>2. next' = next \/ (/\ Adds(x) /\ x # <<"stop">>
                         /\ x = <<"step", c>> => session[c].handler \notin {"none", "created"}
                         /\ x = <<"data", c>> => session[c].handler # "none" /\ todo = <<>>)
    BY DEF InTurn
  <2>3. CASE x = <<"step", c>> /\ next' # next
    <3>1. session[c].handler \notin {"none", "created"}
      BY <2>2, <2>3
    <3>2. session'[c].handler \notin {"none", "created"}
      BY <2>1, <3>1 DEF Steady, Serving
    <3>3. HandlerInv(c)'
      BY <3>2 DEF HandlerInv
    <3>4. EndInv(c)'
      BY <2>1, <2>2, <2>6, <3>1, EndKept
    <3> QED
      BY <2>5, <3>3, <3>4
  <2>4. CASE ~(x = <<"step", c>> /\ next' # next)
    <3>1. next' = next \/ (/\ Adds(x) /\ x # <<"stop">> /\ x # <<"step", c>>
                           /\ x = <<"data", c>> => session[c].handler # "none" /\ todo = <<>>)
      BY <2>2, <2>4
    <3>2. HandlerInv(c)'
      BY <2>1, <3>1, HandlerKept DEF Steady, Serving
    <3>3. EndInv(c)'
      BY <2>1, <2>6, <3>1, EndKept
    <3> QED
      BY <2>5, <3>2, <3>3
  <2> QED
    BY <2>3, <2>4
<1> QED
  BY <1>1, <1>2, <1>3, <1>4 DEF AckInv

(* Nothing has run for an Exit to be followed by.                          *)
LEMMA NotExited ==
  ASSUME LastInv, NEW h, Runs(h)
  PROVE  main # "exited"
BY DEF LastInv, Runs

(* What happens outside.                                                   *)
LEMMA InTurnAlways ==
  ASSUME NEW x, \/ \E k \in {"eof", "lost", "flush"}, c \in Client : x = <<k, c>>
                \/ \E c \in Client : /\ x = <<"step", c>>
                                     /\ session[c].handler \notin {"none", "created"}
  PROVE  InTurn(x)
<1>1. \A k \in Arriving, d \in Client : x # <<k, d>>
  BY DEF Arriving
<1>2. \A d \in Client : x = <<"step", d>> => session[d].handler \notin {"none", "created"}
  BY Kinds
<1>3. /\ x # <<"stop">> /\ x # <<"main">>
      /\ \A d \in Client : x # <<"data", d>>
      /\ \A t \in Tasks : x # <<"timer", t>> /\ x # <<t>>
  BY ServerAssumption DEF ServerAssumption
<1> QED
  BY <1>1, <1>2, <1>3 DEF InTurn, Arriving

LEMMA OutsideKeeps ==
  ASSUME AckInv, NEW x \in Callback, Outside(x), InTurn(x),
         session' \in [Client -> Session], UNCHANGED <<main, listening>>,
         \A c \in Client : /\ session'[c].transport = "none" =>
                                session[c].transport = "none"
                           /\ session'[c].handler = session[c].handler
                           /\ session'[c].inbox = session[c].inbox
                           /\ session'[c].journal = session[c].journal
  PROVE  AckInv'
<1>1. /\ UNCHANGED <<todo, clients, journal, file, recorded, acked>>
      /\ next' = Append(next, x) /\ main # "exited"
  BY DEF Outside
<1>2. Leaves /\ Adds(x)
  BY <1>1, OutsideAdds DEF AckInv
<1>3. Shaped'
  BY <1>1, <1>2 DEF AckInv, Shaped, Leaves
<1>4. \A c \in Client : Steady(c)
  BY <1>1 DEF Steady
<1>5. AckedIsRecorded'
  BY <1>1 DEF AckInv, AckedIsRecorded
<1> QED
  BY <1>1, <1>2, <1>3, <1>4, <1>5, QuietKeeps

LEMMA WorldKeeps ==
  ASSUME AckInv, NEW c \in Client, Connect(c) \/ Send(c) \/ HangUp(c) \/ Take(c)
  PROVE  AckInv'
<1>0. session \in [Client -> Session]
  BY DEF AckInv, Shaped
<1>1. CASE Connect(c)
  <2>1. <<"accept", c>> \in Callback
    BY CallbackShape DEF Name
  <2>2. InTurn(<<"accept", c>>)
    <3>1. /\ todo' = <<>> /\ session[c].transport = "none" /\ session[c].handler = "none"
          /\ session'[c].handler = "none" /\ session'[c].transport = "queued"
      BY <1>0, <1>1 DEF Connect, Outside, Absent, Session
    <3>2. \A k \in Arriving : ~In(todo', <<k, c>>) /\ ~In(next, <<k, c>>)
      BY <3>1, OfNone DEF AckInv, ArrivalInv
    <3>3. \A k \in Arriving, d \in Client : <<"accept", c>> = <<k, d>> => d = c
      OBVIOUS
    <3>4. /\ <<"accept", c>> # <<"stop">> /\ <<"accept", c>> # <<"main">>
          /\ \A k \in {"step", "data", "attach", "made"}, d \in Client :
               <<"accept", c>> # <<k, d>>
          /\ \A t \in Tasks : <<"accept", c>> # <<"timer", t>> /\ <<"accept", c>> # <<t>>
      BY ServerAssumption DEF ServerAssumption
    <3> QED
      BY <3>1, <3>2, <3>3, <3>4 DEF InTurn
  <2>3. /\ session' \in [Client -> Session]
        /\ \A d \in Client : /\ session'[d].transport = "none" =>
                                  session[d].transport = "none"
                             /\ session'[d].handler = session[d].handler
                             /\ session'[d].inbox = session[d].inbox
                             /\ session'[d].journal = session[d].journal
    BY <1>0, <1>1 DEF Connect, Session
  <2> QED
    BY <1>1, <2>1, <2>2, <2>3, OutsideKeeps DEF Connect
<1>2. CASE Send(c)
  <2>1. <<"data", c>> \in Callback
    BY CallbackShape DEF Name
  <2>2. InTurn(<<"data", c>>)
    <3>1. session[c].handler # "none" /\ todo = <<>>
      BY <1>2 DEF Send, Reachable, Outside
    <3>2. /\ <<"data", c>> # <<"stop">> /\ <<"data", c>> # <<"main">>
          /\ \A k \in Arriving \cup {"step"}, d \in Client : <<"data", c>> # <<k, d>>
          /\ \A t \in Tasks : <<"data", c>> # <<"timer", t>> /\ <<"data", c>> # <<t>>
          /\ \A d \in Client : <<"data", c>> = <<"data", d>> => d = c
      BY ServerAssumption DEF ServerAssumption, Arriving
    <3> QED
      BY <3>1, <3>2 DEF InTurn, Arriving
  <2>3. /\ session' \in [Client -> Session]
        /\ \A d \in Client : /\ session'[d].transport = "none" =>
                                  session[d].transport = "none"
                             /\ session'[d].handler = session[d].handler
                             /\ session'[d].inbox = session[d].inbox
                             /\ session'[d].journal = session[d].journal
    BY <1>0, <1>2 DEF Send, Session
  <2> QED
    BY <1>2, <2>1, <2>2, <2>3, OutsideKeeps DEF Send
<1>3. CASE HangUp(c)
  <2>1. <<"eof", c>> \in Callback
    BY CallbackShape DEF Name
  <2>2. InTurn(<<"eof", c>>)
    BY InTurnAlways
  <2> QED
    BY <1>0, <1>3, <2>1, <2>2, OutsideKeeps DEF HangUp
<1>4. CASE Take(c)
  <2>1. <<"flush", c>> \in Callback
    BY CallbackShape DEF Name
  <2>2. InTurn(<<"flush", c>>)
    BY InTurnAlways
  <2> QED
    BY <1>0, <1>4, <2>1, <2>2, OutsideKeeps DEF Take
<1> QED
  BY <1>1, <1>2, <1>3, <1>4

LEMMA TimerKeeps ==
  ASSUME AckInv, NEW t \in Tasks, Timer(t)
  PROVE  AckInv'
<1>1. <<"timer", t>> \in Callback
  BY CallbackShape DEF Name
<1>2. InTurn(<<"timer", t>>)
  <2>1. todo' = <<>>
    BY DEF Timer, Outside
  <2>2. /\ <<"timer", t>> # <<"stop">> /\ <<"timer", t>> # <<"main">>
        /\ \A k \in Arriving \cup {"step", "data"}, d \in Client : <<"timer", t>> # <<k, d>>
        /\ \A u \in Tasks : <<"timer", t>> # <<u>>
    BY ServerAssumption DEF ServerAssumption, Arriving
  <2> QED
    BY <2>1, <2>2 DEF InTurn, Arriving
<1>3. session \in [Client -> Session]
  BY DEF AckInv, Shaped
<1> QED
  BY <1>1, <1>2, <1>3, OutsideKeeps DEF Timer

(* The callbacks that change no handler but as Steady says.                *)
LEMMA RunKeeps ==
  ASSUME AckInv, NEW h, Runs(h), h # <<"stop">>,
         UNCHANGED <<main, listening, journal, file>>,
         session' \in [Client -> Session], clients' \subseteq Client,
         AckedIsRecorded',
         \A c \in Client :
           (In(todo, <<"step", c>>) => h = <<"step", c>> \/ In(todo', <<"step", c>>))
             => Steady(c),
         NEW x \in Callback, Soon(<<>>) \/ (Soon(<<x>>) /\ InTurn(x))
  PROVE  AckInv'
<1>1. /\ Leaves /\ In(todo, h)
      /\ \A a : In(todo, a) => a = h \/ In(todo', a)
      /\ next' = next \/ (Adds(x) /\ InTurn(x))
  BY SoonNothing, SoonOne DEF AckInv
<1>2. Shaped'
  BY <1>1 DEF AckInv, Shaped, Leaves
<1>3. main # "exited"
  BY NotExited DEF AckInv
<1>4. \A c \in Client : Steady(c)
  BY <1>1
<1> QED
  BY <1>1, <1>2, <1>3, <1>4, QuietKeeps

LEMMA PassedOverKeeps ==
  ASSUME AckInv, NEW h, Runs(h), h # <<"stop">>,
         \A c \in Client : h # <<"step", c>>, PassedOver
  PROVE  AckInv'
<1>1. UNCHANGED <<session, clients, Rest, journal, file, acked, recorded>> /\ Soon(<<>>)
  BY DEF PassedOver
<1>2. \A c \in Client :
        (In(todo, <<"step", c>>) => In(todo', <<"step", c>>)) => Steady(c)
  BY <1>1 DEF Steady
<1>3. <<"main">> \in Callback
  BY CallbackShape DEF Name
<1> QED
  BY <1>1, <1>2, <1>3, RunKeeps DEF Rest, AckInv, Shaped, AckedIsRecorded

(* A connection that is coming up leaves one place for the next.           *)
LEMMA UpNext ==
  ASSUME AckInv, NEW c \in Client, NEW k \in Arriving, NEW x \in Callback,
         Runs(<<k, c>>), Soon(<<x>>),
         session'[c].handler = session[c].handler,
         session'[c].transport = "none" => session[c].transport = "none"
  PROVE  /\ session'[c].handler = "none" /\ session'[c].transport # "none"
         /\ \A l \in Arriving : ~In(todo', <<l, c>>) /\ ~In(next, <<l, c>>)
<1>1. /\ In(todo, <<k, c>>) /\ Leaves
      /\ Once(todo, <<k, c>>) => ~In(todo', <<k, c>>)
  BY SoonOne DEF AckInv
<1>2. ArrivalInv(c)
  BY DEF AckInv
<1> QED
  BY <1>1, <1>2 DEF ArrivalInv, Leaves

LEMMA AcceptKeeps ==
  ASSUME AckInv, NEW c \in Client, Accept(c)
  PROVE  AckInv'
<1> DEFINE h == <<"accept", c>>
           x == <<"attach", c>>
<1>1. /\ h # <<"stop">> /\ h \in Callback /\ x \in Callback
      /\ \A d \in Client : h # <<"step", d>>
  BY CallbackShape DEF Name
<1>2. /\ UNCHANGED <<session, clients, Rest, journal, file, acked, recorded>>
      /\ Runs(h) /\ (Soon(<<>>) \/ Soon(<<x>>))
  BY DEF Accept
<1>3. \A d \in Client :
        (In(todo, <<"step", d>>) => In(todo', <<"step", d>>)) => Steady(d)
  BY <1>2 DEF Steady
<1>4. ASSUME Soon(<<x>>)
      PROVE  InTurn(x)
  <2>1. \A t \in Tasks : ~In(next, <<"timer", t>>)
    BY <1>2 DEF AckInv, ComingUp, Runs
  <2>2. "accept" \in Arriving /\ session'[c].handler = "none" /\ session'[c].transport # "none"
        /\ \A l \in Arriving : ~In(todo', <<l, c>>) /\ ~In(next, <<l, c>>)
    BY <1>1, <1>2, <1>4, UpNext DEF Arriving
  <2>3. /\ x # <<"stop">> /\ x # <<"main">>
        /\ \A k \in {"step", "data", "made"}, d \in Client : x # <<k, d>>
        /\ \A t \in Tasks : x # <<"timer", t>> /\ x # <<t>>
        /\ \A k \in Arriving, d \in Client : x = <<k, d>> => d = c
    BY ServerAssumption DEF ServerAssumption
  <2> QED
    BY <2>1, <2>2, <2>3 DEF InTurn
<1> QED
  BY <1>1, <1>2, <1>3, <1>4, RunKeeps DEF Rest, AckInv, Shaped, AckedIsRecorded

LEMMA AttachKeeps ==
  ASSUME AckInv, NEW c \in Client, Attach(c)
  PROVE  AckInv'
<1> DEFINE h == <<"attach", c>>
           x == <<"made", c>>
<1>1. /\ h # <<"stop">> /\ h \in Callback /\ x \in Callback
      /\ \A d \in Client : h # <<"step", d>>
  BY CallbackShape DEF Name
<1>2. /\ UNCHANGED <<clients, Rest, journal, file, acked, recorded>>
      /\ Runs(h) /\ (Soon(<<>>) \/ (Soon(<<x>>) /\ listening))
  BY DEF Attach
<1>3. /\ session \in [Client -> Session]
      /\ session' \in [Client -> Session]
      /\ \A d \in Client : /\ session'[d].transport = "none" =>
                                session[d].transport = "none"
                           /\ session'[d].handler = session[d].handler
                           /\ session'[d].inbox = session[d].inbox
                           /\ session'[d].journal = session[d].journal
  <2>1. session \in [Client -> Session]
    BY DEF AckInv, Shaped
  <2>2. PICK t \in {"open", "lost"} : session' = [session EXCEPT ![c].transport = t]
    BY DEF Attach
  <2> QED
    BY <2>1, <2>2 DEF Session
<1>4. \A d \in Client :
        (In(todo, <<"step", d>>) => In(todo', <<"step", d>>)) => Steady(d)
  BY <1>3 DEF Steady
<1>5. ASSUME listening, Soon(<<x>>)
      PROVE  InTurn(x)
  <2>1. In(todo, h)
    BY <1>1, <1>2, <1>5, SoonOne DEF AckInv
  <2>2. \A t \in Tasks : ~In(next, <<t>>)
    BY <1>5, <2>1 DEF AckInv, ComingUp
  <2>3. /\ session'[c].handler = "none" /\ session'[c].transport # "none"
        /\ \A l \in Arriving : ~In(todo', <<l, c>>) /\ ~In(next, <<l, c>>)
    BY <1>1, <1>2, <1>3, <1>5, UpNext DEF Arriving
  <2>4. /\ x # <<"stop">> /\ x # <<"main">>
        /\ \A k \in {"step", "data", "attach"}, d \in Client : x # <<k, d>>
        /\ \A t \in Tasks : x # <<"timer", t>> /\ x # <<t>>
        /\ \A k \in Arriving, d \in Client : x = <<k, d>> => d = c
    BY ServerAssumption DEF ServerAssumption
  <2> QED
    BY <1>5, <2>2, <2>3, <2>4 DEF InTurn
<1> QED
  BY <1>1, <1>2, <1>3, <1>4, <1>5, RunKeeps DEF Rest, AckInv, Shaped, AckedIsRecorded

(* What wakes a handler, when there is one that has started.               *)
LEMMA WakesKeeps ==
  ASSUME AckInv, NEW c \in Client, NEW h, Runs(h), h # <<"stop">>,
         \A d \in Client : h # <<"step", d>>,
         NEW s \in Session, NEW waiting \in SUBSET {"waiting", "paused", "leaving"},
         Wakes(c, s, waiting), s.journal = session[c].journal,
         s.handler = session[c].handler,
         s.transport = "none" => session[c].transport = "none",
         \/ s.inbox = session[c].inbox
         \/ s.handler \notin {"none", "created"}
  PROVE  AckInv'
<1> DEFINE x == <<"step", c>>
<1>1. x \in Callback
  BY CallbackShape DEF Name
<1>2. /\ UNCHANGED <<clients, Rest, journal, file, acked, recorded>>
      /\ Soon(<<>>) \/ (Soon(<<x>>) /\ s.handler \in {"waiting", "paused", "leaving"})
  BY DEF Wakes
<1>3. /\ session \in [Client -> Session]
      /\ session' \in [Client -> Session]
      /\ \A d \in Client \ {c} : session'[d] = session[d]
      /\ session'[c] = s \/ /\ s.handler \in {"waiting", "paused"}
                            /\ session'[c] = [s EXCEPT !.handler = "woken"]
  BY DEF Wakes, AckInv, Shaped, Session
<1>4. ASSUME NEW d \in Client,
             In(todo, <<"step", d>>) => In(todo', <<"step", d>>)
      PROVE  Steady(d)
  <2>1. CASE d # c
    BY <1>3, <1>4, <2>1 DEF Steady
  <2>2. CASE d = c
    <3>1. session'[c] = s \/ /\ s.handler \in {"waiting", "paused"}
                             /\ session'[c].handler = "woken"
                             /\ session'[c].transport = s.transport
                             /\ session'[c].journal = s.journal
      BY <1>3 DEF Session
    <3>2. s.handler \in Serving \cup {"none", "created", "cancelled", "leaving",
                                     "abandoned", "done"}
      BY DEF Session, Serving
    <3> QED
      BY <1>4, <2>2, <3>1, <3>2 DEF Steady, Serving
  <2> QED
    BY <2>1, <2>2
<1>5. s.handler \in {"waiting", "paused", "leaving"} => InTurn(x)
  BY InTurnAlways
<1> QED
  BY <1>1, <1>2, <1>3, <1>4, <1>5, RunKeeps DEF Rest, AckInv, Shaped, AckedIsRecorded

LEMMA DataKeeps ==
  ASSUME AckInv, NEW c \in Client, Data(c)
  PROVE  AckInv'
<1> DEFINE s == [session[c] EXCEPT !.inbox = @ + 1]
           h == <<"data", c>>
<1>1. session \in [Client -> Session]
  BY DEF AckInv, Shaped
<1>2. Runs(h) /\ h # <<"stop">> /\ \A d \in Client : h # <<"step", d>>
  BY DEF Data
<1>3. CASE Wakes(c, s, {"waiting"})
  <2>1. /\ s \in Session /\ s.journal = session[c].journal
        /\ s.handler = session[c].handler /\ s.transport = session[c].transport
    BY <1>1 DEF Session
  <2>2. In(todo, h)
    <3>1. <<"step", c>> \in Callback
      BY CallbackShape DEF Name
    <3> QED
      BY <1>2, <1>3, <3>1, SoonNothing, SoonOne DEF AckInv, Wakes
  <2>3. \A a : Before(todo, a, h) => ~In(todo, a)
    <3>1. <<"step", c>> \in Callback
      BY CallbackShape DEF Name
    <3> QED
      BY <1>2, <1>3, <3>1, SoonNothing, SoonOne DEF AckInv, Wakes
  <2>4. session[c].handler \notin {"none", "created"}
    BY <2>2, <2>3 DEF AckInv, HandlerInv
  <2>5. {"waiting"} \in SUBSET {"waiting", "paused", "leaving"}
    OBVIOUS
  <2> QED
    BY <1>2, <1>3, <2>1, <2>4, <2>5, WakesKeeps
<1>4. CASE PassedOver
  BY <1>2, <1>4, PassedOverKeeps
<1> QED
  BY <1>3, <1>4 DEF Data

(* The client's end, the connection's, and a client that reads.            *)
LEMMA WakingKeeps ==
  ASSUME AckInv, NEW c \in Client, Eof(c) \/ Lost(c) \/ Flush(c)
  PROVE  AckInv'
<1>1. session \in [Client -> Session]
  BY DEF AckInv, Shaped
<1>2. PICK k \in {"eof", "lost", "flush"} : Runs(<<k, c>>)
  BY DEF Eof, Lost, Flush
<1> DEFINE h == <<k, c>>
           flushed == [session[c] EXCEPT !.unread = FALSE]
<1>3. Runs(h) /\ h # <<"stop">> /\ \A d \in Client : h # <<"step", d>>
  BY <1>2
<1>4. \/ PassedOver
      \/ \E s \in {session[c], [session[c] EXCEPT !.eof = TRUE],
                   Disconnected(session[c]), flushed, Disconnected(flushed)},
            waiting \in SUBSET {"waiting", "paused", "leaving"} : Wakes(c, s, waiting)
  BY DEF Eof, Lost, Flush
<1>5. ASSUME NEW s \in {session[c], [session[c] EXCEPT !.eof = TRUE],
                        Disconnected(session[c]), flushed, Disconnected(flushed)}
      PROVE  /\ s \in Session /\ s.journal = session[c].journal
             /\ s.handler = session[c].handler /\ s.inbox = session[c].inbox
             /\ s.transport = "none" => session[c].transport = "none"
  <2>1. \A u \in Session : Disconnected(u) \in Session
    BY DEF Session, Disconnected
  <2>2. \A u \in Session : /\ Disconnected(u).journal = u.journal
                          /\ Disconnected(u).handler = u.handler
                          /\ Disconnected(u).inbox = u.inbox
                          /\ Disconnected(u).transport = "lost"
    BY DEF Session, Disconnected
  <2>3. flushed \in Session /\ session[c] \in Session
    BY <1>1 DEF Session
  <2>4. /\ flushed.journal = session[c].journal /\ flushed.handler = session[c].handler
        /\ flushed.inbox = session[c].inbox /\ flushed.transport = session[c].transport
    BY <1>1 DEF Session
  <2>5. CASE s = [session[c] EXCEPT !.eof = TRUE]
    BY <1>1, <2>5 DEF Session
  <2> HIDE DEF flushed
  <2> QED
    BY <1>5, <2>1, <2>2, <2>3, <2>4, <2>5
<1> HIDE DEF h, flushed
<1> QED
  BY <1>3, <1>4, <1>5, WakesKeeps, PassedOverKeeps

(* The background tasks.                                                   *)
LEMMA TaskKeeps ==
  ASSUME AckInv, NEW t \in Tasks, RunTimer(t) \/ RunTask(t)
  PROVE  AckInv'
<1>0. /\ session' \in [Client -> Session] /\ clients' \subseteq Client
      /\ UNCHANGED <<main, listening, journal, file, session>> /\ AckedIsRecorded'
      /\ \A d \in Client :
           (In(todo, <<"step", d>>) => In(todo', <<"step", d>>)) => Steady(d)
  BY DEF RunTimer, RunTask, AckInv, Shaped, AckedIsRecorded, Steady
<1>1. CASE RunTimer(t)
  <2> DEFINE h == <<"timer", t>>
             x == <<t>>
  <2>1. h # <<"stop">> /\ \A d \in Client : h # <<"step", d>>
    OBVIOUS
  <2>2. x \in Callback
    BY ServerAssumption, CallbackShape DEF ServerAssumption, Name
  <2>3. Runs(h) /\ (Soon(<<>>) \/ Soon(<<x>>))
    BY <1>1 DEF RunTimer
  <2>4. ASSUME Soon(<<x>>)
        PROVE  InTurn(x)
    <3>1. \A c \in Client : ~In(todo', <<"attach", c>>)
      <4>1. \A c \in Client : Before(todo, <<"attach", c>>, h)
        BY DEF AckInv, ComingUp
      <4> QED
        BY <2>2, <2>3, <2>4, <4>1, SoonOne DEF AckInv, Leaves
    <3>2. /\ x # <<"stop">> /\ x # <<"main">>
          /\ \A k \in Arriving \cup {"step", "data", "timer"} : \A d : x # <<k, d>>
      BY Kinds DEF Arriving
    <3> QED
      BY <3>1, <3>2 DEF InTurn, Arriving
  <2> QED
    BY <1>0, <2>1, <2>2, <2>3, <2>4, RunKeeps
<1>2. CASE RunTask(t)
  <2> DEFINE h == <<t>>
             x == <<"main">>
  <2>1. h # <<"stop">> /\ \A d \in Client : h # <<"step", d>>
    BY Kinds
  <2>2. x \in Callback
    BY CallbackShape DEF Name
  <2>3. /\ Runs(h)
        /\ Soon(<<>>) \/ (Soon(<<x>>) /\ main \notin {"parked", "cancelled"})
    BY <1>2 DEF RunTask
  <2>4. ASSUME Soon(<<x>>), main \notin {"parked", "cancelled"}
        PROVE  InTurn(x)
    <3>1. \A c \in Client : ~In(todo', <<"made", c>>)
      <4>1. \A c \in Client : Before(todo, <<"made", c>>, h)
        BY DEF AckInv, ComingUp
      <4> QED
        BY <2>2, <2>3, <2>4, <4>1, SoonOne DEF AckInv, Leaves
    <3>2. /\ x # <<"stop">> /\ \A t1 \in Tasks : x # <<t1>>
          /\ \A k \in Arriving \cup {"step", "data", "timer"} : \A d : x # <<k, d>>
      BY Kinds DEF Arriving
    <3> QED
      BY <2>4, <3>1, <3>2 DEF InTurn, Arriving
  <2> QED
    BY <1>0, <2>1, <2>2, <2>3, <2>4, RunKeeps
<1> QED
  BY <1>1, <1>2

(* The handler's own steps.                                                *)
LEMMA ServeEffect ==
  ASSUME Shaped, NEW c \in Client, Serve(c)
  PROVE  /\ Runs(<<"step", c>>) /\ UNCHANGED <<Rest, journal, file>>
         /\ Soon(<<>>) \/ Soon(<<<<"step", c>>>>) \/ Soon(<<<<"lost", c>>>>)
         /\ session' \in [Client -> Session] /\ clients' \subseteq Client
         /\ \A d \in Client \ {c} : session'[d] = session[d]
         /\ session'[c].transport = "none" => session[c].transport = "none"
         /\ session[c].handler \in {"created", "woken", "draining"}
         /\ session'[c].handler \in {"waiting", "draining", "paused", "leaving", "done"}
         /\ session'[c].journal =
              IF session[c].handler = "created" THEN journal ELSE session[c].journal
<1> DEFINE s == [session[c] EXCEPT !.journal =
                   IF session[c].handler = "created" THEN journal ELSE @]
<1>1. session \in [Client -> Session] /\ journal \in {"aof", "none"} /\ clients \subseteq Client
  BY DEF Shaped
<1>2. /\ s \in Session /\ s.handler = session[c].handler
      /\ s.transport = session[c].transport
      /\ s.journal = IF session[c].handler = "created" THEN journal ELSE session[c].journal
  BY <1>1 DEF Session
<1>3. Runs(<<"step", c>>) /\ UNCHANGED <<Rest, journal, file>>
  BY DEF Serve
<1>4. s.handler \in {"created", "woken"} \/ s.handler = "draining"
  BY DEF Serve
<1>5. PICK n \in 0 .. s.inbox, unread \in BOOLEAN, pauses \in BOOLEAN :
        LET requests == {<<c, s.ran + i>> : i \in 1 .. n}
            served == [s EXCEPT !.inbox = @ - n, !.ran = @ + n, !.unread = unread]
            yields == n > 0 /\ s.transport # "open"
            ends == ~yields /\ ~pauses /\ s.eof
        IN  /\ s.unread => unread
            /\ unread /\ ~s.unread => n > 0 /\ s.transport = "open"
            /\ pauses => n > 0 /\ s.transport = "open" /\ unread
            /\ ~pauses => n = IF s.transport = "open" THEN s.inbox ELSE Min({1, s.inbox})
            /\ recorded' = IF s.journal = "aof" /\ file = "open"
                             THEN recorded \cup requests ELSE recorded
            /\ acked' = IF Writable(s) /\ (s.journal = "none" \/ file = "open")
                          THEN acked \cup requests ELSE acked
            /\ session' = [session EXCEPT ![c] =
                 IF ends THEN Leave(served)
                 ELSE [served EXCEPT !.handler =
                         IF yields THEN "draining"
                         ELSE IF pauses THEN "paused" ELSE "waiting"]]
            /\ clients' = IF ends THEN clients \ {c}
                          ELSE IF s.handler = "created" THEN clients \cup {c} ELSE clients
            /\ Soon(IF yields THEN <<<<"step", c>>>>
                    ELSE IF ends /\ LosesAtOnce(served) THEN <<<<"lost", c>>>> ELSE <<>>)
  BY Zenon DEF Serve
<1> DEFINE served == [s EXCEPT !.inbox = @ - n, !.ran = @ + n, !.unread = unread]
           yields == n > 0 /\ s.transport # "open"
           ends == ~yields /\ ~pauses /\ s.eof
           then == IF ends THEN Leave(served)
                   ELSE [served EXCEPT !.handler =
                           IF yields THEN "draining"
                           ELSE IF pauses THEN "paused" ELSE "waiting"]
<1>6. clients' \subseteq Client
  <2>1. clients' \in {clients \ {c}, clients \cup {c}, clients}
    BY <1>5
  <2> QED
    BY <1>1, <2>1
<1>7. session' = [session EXCEPT ![c] = then]
  BY <1>5
<1>8. Soon(<<>>) \/ Soon(<<<<"step", c>>>>) \/ Soon(<<<<"lost", c>>>>)
  BY <1>5
<1> HIDE DEF s
<1>9. /\ served \in Session /\ served.journal = s.journal
      /\ served.transport = s.transport
  <2> DEFINE i == s.inbox - n
             r == s.ran + n
  <2>1. i \in Int /\ r \in Int
    BY <1>2 DEF Session
  <2>2. served = [s EXCEPT !.inbox = i, !.ran = r, !.unread = unread]
    OBVIOUS
  <2> HIDE DEF i, r, served
  <2> QED
    BY <1>2, <2>1, <2>2 DEF Session
<1> HIDE DEF served, yields, ends
<1>10. /\ then \in Session /\ then.journal = s.journal
       /\ then.transport = "none" => s.transport = "none"
       /\ then.handler \in {"waiting", "draining", "paused", "leaving", "done"}
  BY <1>9 DEF Session, Leave
<1> HIDE DEF then
<1>11. /\ session' \in [Client -> Session] /\ session'[c] = then
       /\ \A d \in Client \ {c} : session'[d] = session[d]
  BY <1>1, <1>7, <1>10
<1> QED
  BY <1>2, <1>3, <1>4, <1>6, <1>8, <1>10, <1>11

(* What a handler acknowledges while its replies can be written it has     *)
(* recorded: one without a journal has nothing to run.                     *)
LEMMA ServeRecords ==
  ASSUME AckInv, NEW c \in Client, Serve(c)
  PROVE  AckedIsRecorded'
<1> DEFINE s == [session[c] EXCEPT !.journal =
                   IF session[c].handler = "created" THEN journal ELSE @]
           requests(n) == {<<c, s.ran + i>> : i \in 1 .. n}
<1>1. acked \subseteq recorded /\ session \in [Client -> Session] /\ journal \in {"aof", "none"}
  BY DEF AckInv, Shaped, AckedIsRecorded
<1>2. PICK n \in 0 .. s.inbox :
        /\ recorded' = IF s.journal = "aof" /\ file = "open"
                         THEN recorded \cup requests(n) ELSE recorded
        /\ acked' = IF Writable(s) /\ (s.journal = "none" \/ file = "open")
                      THEN acked \cup requests(n) ELSE acked
  BY DEF Serve
<1>3. CASE session[c].handler = "created"
  <2>1. s.inbox = 0
    BY <1>1, <1>3 DEF AckInv, HandlerInv, Session
  <2>2. requests(n) = {}
    BY <2>1
  <2> QED
    BY <1>1, <1>2, <2>2 DEF AckedIsRecorded
<1>4. CASE session[c].handler # "created"
  <2>1. s.journal = session[c].journal /\ session[c].journal \in {"aof", "none"}
    BY <1>1, <1>4 DEF Session
  <2>2. session[c].handler \in Serving
    BY <1>1, <1>4, ServeEffect DEF AckInv, Serving
  <2>3. In(todo, <<"step", c>>)
    <3>1. Runs(<<"step", c>>) /\ todo \in Seq(Callback)
      BY DEF Serve, AckInv, Shaped
    <3> QED
      BY <3>1, OfTail DEF Runs
  <2>4. session[c].journal # "none"
    BY <2>2, <2>3 DEF AckInv, EndInv
  <2> HIDE DEF s, requests
  <2> QED
    BY <1>1, <1>2, <2>1, <2>4 DEF AckedIsRecorded
<1> QED
  BY <1>3, <1>4

LEMMA ServeKeeps ==
  ASSUME AckInv, NEW c \in Client, Serve(c)
  PROVE  AckInv'
<1> DEFINE h == <<"step", c>>
<1>1. /\ Runs(h) /\ UNCHANGED <<Rest, journal, file>>
      /\ Soon(<<>>) \/ Soon(<<h>>) \/ Soon(<<<<"lost", c>>>>)
      /\ session' \in [Client -> Session] /\ clients' \subseteq Client
      /\ \A d \in Client \ {c} : session'[d] = session[d]
      /\ session'[c].transport = "none" => session[c].transport = "none"
      /\ session[c].handler \in {"created", "woken", "draining"}
      /\ session'[c].handler \in {"waiting", "draining", "paused", "leaving", "done"}
      /\ session'[c].journal =
           IF session[c].handler = "created" THEN journal ELSE session[c].journal
  BY ServeEffect DEF AckInv
<1>2. AckedIsRecorded'
  BY ServeRecords
<1>3. /\ h \in Callback /\ <<"lost", c>> \in Callback /\ h # <<"stop">>
      /\ \A d \in Client : <<"lost", c>> # <<"step", d>>
      /\ \A d \in Client \ {c} : h # <<"step", d>>
  BY CallbackShape DEF Name
<1>4. InTurn(<<"lost", c>>)
  BY InTurnAlways
<1>5. PICK x \in {h, <<"lost", c>>} : Soon(<<>>) \/ Soon(<<x>>)
  BY <1>1
<1>6. CASE session[c].handler # "created"
  <2>1. InTurn(h)
    BY <1>1, <1>6, InTurnAlways
  <2>2. ASSUME NEW d \in Client,
               In(todo, <<"step", d>>) => h = <<"step", d>> \/ In(todo', <<"step", d>>)
        PROVE  Steady(d)
    BY <1>1, <1>3, <1>6, <2>2 DEF Steady, Serving
  <2> QED
    BY <1>1, <1>2, <1>3, <1>4, <1>5, <2>1, <2>2, RunKeeps DEF Rest
<1>7. CASE session[c].handler = "created"
  <2>1. /\ Leaves /\ (next' = next \/ Adds(x)) /\ In(todo, h)
        /\ \A a : In(todo, a) => a = h \/ In(todo', a)
        /\ Once(todo, h) => ~In(todo', h)
    BY <1>1, <1>3, <1>5, SoonNothing, SoonOne DEF AckInv
  <2>2. Shaped'
    BY <1>1, <2>1 DEF AckInv, Shaped, Leaves
  <2>3. ComingUp'
    <3>1. \A t \in Tasks, d \in Client :
            x # <<"timer", t>> /\ x # <<"attach", d>> /\ x # <<"made", d>> /\ x # <<t>>
      BY ServerAssumption DEF ServerAssumption
    <3> QED
      BY <1>1, <2>1, <3>1, ComingUpKept DEF AckInv, Rest
  <2>4. ServeInv'
    <3>1. x # <<"main">>
      OBVIOUS
    <3> QED
      BY <1>1, <2>1, <3>1, ServeKept DEF AckInv, Rest
  <2>5. LastInv'
    <3>1. main # "exited" /\ x # <<"stop">>
      BY <1>1, NotExited DEF AckInv
    <3> QED
      BY <1>1, <1>3, <2>1, <3>1, LastKept DEF AckInv, Rest
  <2>6. ASSUME NEW d \in Client, d # c
        PROVE  ArrivalInv(d)' /\ HandlerInv(d)' /\ EndInv(d)'
    <3>1. /\ session'[d] = session[d] /\ ArrivalInv(d) /\ HandlerInv(d) /\ EndInv(d)
          /\ UNCHANGED <<main, file>>
      BY <1>1, <2>6 DEF AckInv, Rest
    <3>2. In(todo, <<"step", d>>) => In(todo', <<"step", d>>)
      BY <1>3, <2>1, <2>6
    <3>3. x # <<"step", d>> /\ x # <<"data", d>> /\ x # <<"stop">>
      BY <1>3, <2>6
    <3>4. HandlerInv(d)'
      BY <2>1, <3>1, <3>2, <3>3, HandlerKept
    <3>5. EndInv(d)'
      BY <2>1, <3>1, <3>2, <3>3, EndKept
    <3>6. ArrivalInv(d)'
      <4>1. \A k \in Arriving : x # <<k, d>>
        BY DEF Arriving
      <4> QED
        BY <2>1, <3>1, <4>1, ArrivalKept
    <3> QED
      BY <3>4, <3>5, <3>6
  <2>7. HandlerInv(c)' /\ ArrivalInv(c)'
    <3>1. HandlerInv(c)'
      BY <1>1 DEF HandlerInv
    <3>2. \A k \in Arriving : x # <<k, c>>
      BY DEF Arriving
    <3>3. ArrivalInv(c)'
      BY <1>1, <2>1, <3>2, ArrivalKept DEF AckInv
    <3> QED
      BY <3>1, <3>3
  <2>8. EndInv(c)'
    <3>1. HandlerInv(c) /\ EndInv(c)
      BY DEF AckInv
    <3>2. ~In(todo', h)
      BY <1>7, <2>1, <3>1 DEF HandlerInv
    <3>3. x # <<"stop">>
      OBVIOUS
    <3>4. In(next', <<"stop">>) => In(next, <<"stop">>)
      BY <2>1, <3>3 DEF Adds
    <3>5. session'[c].journal = "none" => file = "closed" /\ ~In(next, <<"stop">>)
      BY <1>1, <1>7, <2>1, <3>1 DEF EndInv, AckInv, LastInv
    <3>6. main \notin {"cancelling", "exited"} /\ UNCHANGED <<main, file>>
      BY <1>1, <1>7, <3>1 DEF EndInv, Rest
    <3> QED
      BY <1>1, <3>2, <3>4, <3>5, <3>6 DEF EndInv
  <2> QED
    BY <1>2, <2>2, <2>3, <2>4, <2>5, <2>6, <2>7, <2>8 DEF AckInv
<1> QED
  BY <1>6, <1>7

(* Its steps that run no request: what is left in the drain, and the end.  *)
LEMMA LastStepKeeps ==
  ASSUME AckInv, NEW c \in Client, Runs(<<"step", c>>),
         Soon(<<>>) \/ Soon(<<<<"lost", c>>>>),
         UNCHANGED <<Rest, journal, file, recorded, acked>>,
         NEW s \in Session, session' = [session EXCEPT ![c] = s],
         s.journal = session[c].journal,
         s.transport = "none" => session[c].transport = "none",
         \/ session[c].handler \in Serving /\ s.handler \in Serving
         \/ session[c].handler # "none" /\ s.handler \in {"leaving", "done"},
         clients' \subseteq clients
  PROVE  AckInv'
<1> DEFINE h == <<"step", c>>
           x == <<"lost", c>>
<1>1. h # <<"stop">> /\ \A d \in Client \ {c} : h # <<"step", d>>
  OBVIOUS
<1>2. /\ session' \in [Client -> Session] /\ clients' \subseteq Client
      /\ session'[c] = s
      /\ \A d \in Client \ {c} : session'[d] = session[d]
  BY DEF AckInv, Shaped
<1>3. ASSUME NEW d \in Client,
             In(todo, <<"step", d>>) => h = <<"step", d>> \/ In(todo', <<"step", d>>)
      PROVE  Steady(d)
  BY <1>1, <1>2, <1>3 DEF Steady
<1>4. AckedIsRecorded'
  BY DEF AckInv, AckedIsRecorded
<1>5. x \in Callback /\ InTurn(x)
  BY CallbackShape, InTurnAlways DEF Name
<1> QED
  BY <1>1, <1>2, <1>3, <1>4, <1>5, RunKeeps DEF Rest

LEMMA FinishKeeps ==
  ASSUME AckInv, NEW c \in Client, Pause(c) \/ Abort(c) \/ Finish(c)
  PROVE  AckInv'
<1>1. session \in [Client -> Session] /\ session[c] \in Session
  BY DEF AckInv, Shaped
<1>2. CASE Pause(c)
  <2> DEFINE s == [session[c] EXCEPT !.handler = "paused"]
  <2>1. /\ s \in Session /\ s.journal = session[c].journal
        /\ s.transport = session[c].transport /\ s.handler \in Serving
    BY <1>1 DEF Session, Serving
  <2>2. /\ Runs(<<"step", c>>) /\ Soon(<<>>) /\ session[c].handler \in Serving
        /\ session' = [session EXCEPT ![c] = s] /\ clients' = clients
        /\ UNCHANGED <<Rest, journal, file, recorded, acked>>
    BY <1>2, <1>1 DEF Pause, Serving
  <2> HIDE DEF s
  <2> QED
    BY <2>1, <2>2, LastStepKeeps
<1>3. CASE Abort(c)
  <2> DEFINE s == Leave(session[c])
  <2>1. /\ s \in Session /\ s.journal = session[c].journal
        /\ s.transport = "none" => session[c].transport = "none"
        /\ s.handler \in {"leaving", "done"}
    BY <1>1 DEF Session, Leave
  <2>2. /\ Runs(<<"step", c>>) /\ (Soon(<<>>) \/ Soon(<<<<"lost", c>>>>))
        /\ session[c].handler # "none"
        /\ session' = [session EXCEPT ![c] = s] /\ clients' \subseteq clients
        /\ UNCHANGED <<Rest, journal, file, recorded, acked>>
    BY <1>3, <1>1 DEF Abort
  <2> HIDE DEF s
  <2> QED
    BY <2>1, <2>2, LastStepKeeps
<1>4. CASE Finish(c)
  <2> DEFINE s == [session[c] EXCEPT !.handler = "done"]
  <2>1. /\ s \in Session /\ s.journal = session[c].journal
        /\ s.transport = session[c].transport /\ s.handler = "done"
    BY <1>1 DEF Session
  <2>2. /\ Runs(<<"step", c>>) /\ Soon(<<>>) /\ session[c].handler # "none"
        /\ session' = [session EXCEPT ![c] = s] /\ clients' \subseteq clients
        /\ UNCHANGED <<Rest, journal, file, recorded, acked>>
    BY <1>4, <1>1 DEF Finish
  <2> HIDE DEF s
  <2> QED
    BY <2>1, <2>2, LastStepKeeps
<1> QED
  BY <1>2, <1>3, <1>4

LEMMA NotIn ==
  ASSUME NEW q, NEW a, NEW b
  PROVE  /\ ~In(q, a) => Once(q, a)
         /\ ~In(q, a) \/ ~In(q, b) => Before(q, a, b)
BY DEF In, Once, Before

(* connection_made starts a handler, behind everything scheduled.          *)
LEMMA MadeKeeps ==
  ASSUME AckInv, NEW c \in Client, Made(c)
  PROVE  AckInv'
<1> DEFINE h == <<"made", c>>
           x == <<"step", c>>
           d == <<"data", c>>
<1>1. /\ Runs(h) /\ Soon(<<x>>) /\ UNCHANGED <<Rest, clients, journal, file, recorded, acked>>
      /\ session \in [Client -> Session]
      /\ session' = [session EXCEPT ![c].handler = "created"]
  BY DEF Made, AckInv, Shaped
<1>2. /\ x \in Callback /\ x # <<"stop">> /\ x # <<"main">> /\ h # <<"stop">> /\ x # d
      /\ \A e \in Client : h # <<"step", e>> /\ x # <<"data", e>>
      /\ \A e \in Client \ {c} : x # <<"step", e>>
      /\ \A k \in Arriving, e \in Client : x # <<k, e>>
      /\ \A t \in Tasks : x # <<"timer", t>> /\ x # <<t>>
  BY CallbackShape, Kinds DEF Name, Arriving
<1>3. /\ session' \in [Client -> Session]
      /\ session'[c] = [session[c] EXCEPT !.handler = "created"]
      /\ session'[c].handler = "created" /\ session'[c].inbox = session[c].inbox
      /\ \A e \in Client \ {c} : session'[e] = session[e]
  BY <1>1 DEF Session
<1>4. /\ Leaves /\ Adds(x) /\ In(todo, h)
      /\ \A a : In(todo, a) => a = h \/ In(todo', a)
      /\ Once(todo, h) => ~In(todo', h)
  BY <1>1, <1>2, SoonOne DEF AckInv
<1>5. Shaped' /\ AckedIsRecorded'
  BY <1>1, <1>3, <1>4 DEF AckInv, Shaped, Leaves, AckedIsRecorded
<1>6. main # "exited" /\ file # "closed" /\ main \notin {"cancelling", "exited"}
  BY <1>4 DEF AckInv, ServeInv, LastInv, Over
<1> HIDE DEF h, x, d
<1>7. ComingUp' /\ ServeInv' /\ LastInv'
  <2>1. ComingUp'
    BY <1>1, <1>2, <1>4, ComingUpKept DEF AckInv, Rest, Arriving
  <2>2. ServeInv'
    BY <1>1, <1>2, <1>4, ServeKept DEF AckInv, Rest, Arriving
  <2>3. LastInv'
    BY <1>1, <1>2, <1>4, <1>6, LastKept DEF AckInv, Rest
  <2> QED
    BY <2>1, <2>2, <2>3
<1>8. ASSUME NEW e \in Client, e # c
      PROVE  ArrivalInv(e)' /\ HandlerInv(e)' /\ EndInv(e)'
  <2>1. /\ session'[e] = session[e] /\ ArrivalInv(e) /\ HandlerInv(e) /\ EndInv(e)
        /\ UNCHANGED <<main, file>>
    BY <1>1, <1>3, <1>8 DEF AckInv, Rest
  <2>2. In(todo, <<"step", e>>) => In(todo', <<"step", e>>)
    BY <1>2, <1>4
  <2>3. HandlerInv(e)'
    BY <1>2, <1>4, <1>8, <2>1, <2>2, HandlerKept
  <2>4. EndInv(e)'
    BY <1>2, <1>4, <1>8, <2>1, <2>2, EndKept
  <2>5. ArrivalInv(e)'
    BY <1>2, <1>4, <2>1, ArrivalKept
  <2> QED
    BY <2>3, <2>4, <2>5
<1>9. /\ session[c].handler = "none" /\ session[c].inbox = 0
      /\ ~In(todo, x) /\ ~In(next, x) /\ ~In(todo, d) /\ ~In(next, d)
  <2>1. ArrivalInv(c) /\ HandlerInv(c)
    BY DEF AckInv
  <2>2. session[c].handler = "none"
    BY <1>4, <2>1 DEF ArrivalInv, Arriving, h
  <2> QED
    BY <2>1, <2>2 DEF HandlerInv, x, d
<1>10. ~In(todo', x) /\ ~In(todo', d)
  BY <1>4, <1>9 DEF Leaves
<1>11. HandlerInv(c)'
  <2>1. In(next', x) /\ Once(next', x) /\ Before(next', x, d)
    BY <1>2, <1>4, <1>9, NotIn DEF Adds
  <2>2. Once(todo', x) /\ Before(todo', x, d)
    BY <1>10, NotIn
  <2> QED
    BY <1>3, <1>9, <1>10, <2>1, <2>2 DEF HandlerInv, x, d
<1>12. EndInv(c)'
  <2>1. main' = main /\ (main = "awaiting" => ~In(next, <<"main">>))
    BY <1>1, <1>4 DEF AckInv, ServeInv, Rest, h
  <2>2. main = "awaiting" => Before(next', x, <<"main">>)
    BY <1>2, <1>4, <1>9, <2>1, NotIn DEF Adds
  <2>3. Before(todo', x, <<"main">>)
    BY <1>10, NotIn
  <2> QED
    BY <1>1, <1>3, <1>6, <2>1, <2>2, <2>3 DEF EndInv, Serving, x
<1>13. ArrivalInv(c)'
  <2>1. "made" \in Arriving /\ ArrivalInv(c)
    BY DEF Arriving, AckInv
  <2>2. \A l \in Arriving : ~In(todo', <<l, c>>) /\ ~In(next, <<l, c>>)
    BY <1>4, <2>1 DEF ArrivalInv, Leaves, h
  <2>3. \A l \in Arriving : ~In(next', <<l, c>>)
    BY <1>2, <1>4, <2>2 DEF Adds
  <2> QED
    BY <2>2, <2>3, NotIn DEF ArrivalInv
<1>14. \A e \in Client : ArrivalInv(e)' /\ HandlerInv(e)' /\ EndInv(e)'
  BY <1>8, <1>11, <1>12, <1>13
<1> QED
  BY <1>5, <1>7, <1>14 DEF AckInv

(* serve is cancelled, and scheduled to find out.                          *)
LEMMA CancelKeeps ==
  ASSUME AckInv, Cancel
  PROVE  AckInv'
<1> DEFINE x == <<"main">>
<1>1. /\ main = "parked" /\ main' = "cancelled" /\ next' = Append(next, x)
      /\ UNCHANGED <<todo, listening, session, clients, journal, file, recorded, acked>>
  BY DEF Cancel
<1>2. /\ x \in Callback /\ x # <<"stop">>
      /\ \A k \in Arriving \cup {"step", "data", "timer"} : \A e : x # <<k, e>>
      /\ \A t \in Tasks : x # <<t>>
  BY CallbackShape, Kinds DEF Name, Arriving
<1>3. Leaves /\ Adds(x)
  BY <1>1, <1>2, OutsideAdds DEF AckInv
<1>4. Shaped' /\ AckedIsRecorded'
  BY <1>1, <1>3 DEF AckInv, Shaped, Leaves, AckedIsRecorded
<1> HIDE DEF x
<1>5. ComingUp'
  BY <1>1, <1>2, <1>3, ComingUpKept DEF AckInv, Arriving
<1>6. ServeInv'
  <2>1. ~In(todo', x) /\ ~In(next, x) /\ listening'
    BY <1>1 DEF AckInv, ServeInv, x
  <2>2. Once(todo', x) /\ Once(next', x)
    BY <1>3, <2>1, NotIn DEF Adds
  <2> QED
    BY <1>1, <2>1, <2>2 DEF ServeInv, Over, x
<1>7. LastInv' /\ file # "closed"
  <2>2. /\ In(next', <<"stop">>) <=> In(next, <<"stop">>)
        /\ Once(next, <<"stop">>) => Once(next', <<"stop">>)
    BY <1>2, <1>3 DEF Adds
  <2> QED
    BY <1>1, <2>2 DEF AckInv, LastInv, Over
<1>8. ASSUME NEW c \in Client
      PROVE  ArrivalInv(c)' /\ HandlerInv(c)' /\ EndInv(c)'
  <2>1. ArrivalInv(c) /\ HandlerInv(c) /\ EndInv(c) /\ session'[c] = session[c]
    BY <1>1 DEF AckInv
  <2>2. ArrivalInv(c)'
    BY <1>2, <1>3, <2>1, ArrivalKept
  <2>3. HandlerInv(c)'
    <3>1. x # <<"step", c>> /\ x # <<"data", c>> /\ todo' = todo
      BY <1>1, <1>2
    <3> QED
      BY <1>3, <2>1, <3>1, HandlerKept
  <2>4. In(next', <<"stop">>) => In(next, <<"stop">>)
    BY <1>2, <1>3 DEF Adds
  <2>5. EndInv(c)'
    BY <1>1, <1>7, <2>1, <2>4 DEF EndInv
  <2> QED
    BY <2>2, <2>3, <2>5
<1> QED
  BY <1>4, <1>5, <1>6, <1>7, <1>8 DEF AckInv

(* The next iteration begins.                                              *)
LEMMA PollKeeps ==
  ASSUME AckInv, Poll
  PROVE  AckInv'
<1>1. /\ todo = <<>> /\ next # <<>> /\ main # "stopped" /\ todo' = next /\ next' = <<>>
      /\ UNCHANGED <<main, listening, session, clients, journal, file, recorded, acked>>
  BY DEF Poll
<1>2. \A a, b : /\ ~In(todo, a) /\ ~In(next', a) /\ Once(next', a) /\ Before(next', a, b)
  BY <1>1, OfNone
<1>3. Shaped' /\ AckedIsRecorded'
  BY <1>1 DEF AckInv, Shaped, AckedIsRecorded
<1>4. ComingUp'
  BY <1>1, <1>2 DEF AckInv, ComingUp
<1>5. ServeInv'
  BY <1>1, <1>2 DEF AckInv, ServeInv
<1>6. LastInv'
  BY <1>1, <1>2 DEF AckInv, LastInv
<1>7. ASSUME NEW c \in Client
      PROVE  ArrivalInv(c)' /\ HandlerInv(c)' /\ EndInv(c)'
  <2>1. ArrivalInv(c)'
    BY <1>1, <1>2 DEF AckInv, ArrivalInv
  <2>2. HandlerInv(c)'
    BY <1>1, <1>2 DEF AckInv, HandlerInv
  <2>3. EndInv(c)'
    <3>1. file = "closed" => In(next, <<"stop">>) \/ main \in {"cancelling", "exited"}
      BY <1>1, <1>2 DEF AckInv, LastInv, Over
    <3>2. session[c].handler = "created" => In(next, <<"step", c>>)
      BY <1>2 DEF AckInv, HandlerInv
    <3>3. EndInv(c)
      BY DEF AckInv
    <3> QED
      BY <1>1, <1>2, <3>1, <3>2, <3>3 DEF EndInv
  <2> QED
    BY <2>1, <2>2, <2>3
<1> QED
  BY <1>3, <1>4, <1>5, <1>6, <1>7 DEF AckInv

(* serve's teardown closes the listener and keeps every order.             *)
LEMMA TeardownKeeps ==
  ASSUME AckInv, Teardown
  PROVE  AckInv'
<1>1. /\ main = "cancelled" /\ main' = "awaiting" /\ listening' = FALSE
      /\ UNCHANGED <<clients, journal, file, recorded, acked>>
  BY DEF Teardown
<1>2. /\ session \in [Client -> Session]
      /\ session' \in [Client -> Session]
      /\ \A c \in Client : /\ session'[c].handler = session[c].handler
                           /\ session'[c].inbox = session[c].inbox
                           /\ session'[c].journal = session[c].journal
                           /\ session[c].transport # "none" => session'[c].transport # "none"
  <2> DEFINE closing == {c \in clients : session[c].transport = "open"}
  <2>1. session \in [Client -> Session]
    BY DEF AckInv, Shaped
  <2>2. session' = [c \in Client |->
          IF c \in closing THEN [session[c] EXCEPT !.transport = "closing"] ELSE session[c]]
    BY DEF Teardown
  <2> HIDE DEF closing
  <2> QED
    BY <2>1, <2>2 DEF Session
<1>3. Shaped
  BY DEF AckInv
<1>4. /\ Leaves /\ todo' \in Seq(Callback) /\ next' \in Seq(Callback)
      /\ In(todo, <<"main">>)
      /\ Once(todo, <<"main">>) => ~In(todo', <<"main">>)
      /\ todo' # <<>> => todo # <<>>
      /\ \A a :
           /\ In(todo', a) => In(todo, a)
           /\ In(todo, a) => a = <<"main">> \/ In(todo', a)
           /\ Once(todo, a) => Once(todo', a)
           /\ \A b : Before(todo, a, b) => Before(todo', a, b)
           /\ In(next, a) => In(next', a)
           /\ In(next', a) => In(next, a) \/ a \in Hangups
           /\ Once(next, a) /\ a \notin Hangups => Once(next', a)
           /\ \A b : a \notin Hangups /\ Before(next, a, b) => Before(next', a, b)
  BY <1>3, OfTeardown DEF Leaves
<1>5. Shaped' /\ AckedIsRecorded'
  BY <1>1, <1>2, <1>4 DEF AckInv, Shaped, AckedIsRecorded
<1>6. /\ \A k \in Arriving \cup {"step", "data", "timer"} : \A e :
           <<k, e>> \notin Hangups /\ <<k, e>> # <<"main">>
      /\ <<"main">> \notin Hangups /\ <<"stop">> \notin Hangups
      /\ <<"main">> # <<"stop">>
  BY ServerAssumption DEF ServerAssumption, Hangups, Arriving
<1>7. ComingUp'
  <2> SUFFICES ASSUME NEW c \in Client, NEW t \in Tasks
               PROVE  /\ todo' # <<>> => ~In(next', <<"timer", t>>)
                      /\ Before(todo', <<"attach", c>>, <<"timer", t>>)
                      /\ Before(next', <<"attach", c>>, <<"timer", t>>)
                      /\ Before(todo', <<"made", c>>, <<t>>)
                      /\ Before(next', <<"made", c>>, <<t>>)
    BY <1>1 DEF ComingUp
  <2>1. /\ todo # <<>> => ~In(next, <<"timer", t>>)
        /\ Before(todo, <<"attach", c>>, <<"timer", t>>)
        /\ Before(next, <<"attach", c>>, <<"timer", t>>)
        /\ Before(todo, <<"made", c>>, <<t>>)
        /\ Before(next, <<"made", c>>, <<t>>)
    BY DEF AckInv, ComingUp
  <2> QED
    BY <1>4, <1>6, <2>1 DEF Arriving
<1>8. /\ ~In(todo', <<"main">>) /\ ~In(next', <<"main">>)
  BY <1>1, <1>4, <1>6 DEF AckInv, ServeInv
<1>9. ServeInv'
  <2>1. \A c \in Client : /\ Before(todo', <<"made", c>>, <<"main">>)
                          /\ Before(next', <<"made", c>>, <<"main">>)
    BY <1>8, NotIn
  <2> QED
    BY <1>1, <1>8, <2>1 DEF ServeInv, Over
<1>10. file # "closed" /\ LastInv'
  BY <1>1, <1>4, <1>6 DEF AckInv, LastInv, Over
<1>11. ASSUME NEW c \in Client
       PROVE  ArrivalInv(c)' /\ HandlerInv(c)' /\ EndInv(c)'
  <2>1. ArrivalInv(c) /\ HandlerInv(c) /\ EndInv(c)
    BY DEF AckInv
  <2>2. ArrivalInv(c)'
    <3> SUFFICES ASSUME NEW k \in Arriving, NEW l \in Arriving
                 PROVE  /\ Once(todo', <<k, c>>) /\ Once(next', <<k, c>>)
                        /\ In(todo', <<k, c>>) \/ In(next', <<k, c>>) =>
                             session'[c].handler = "none" /\ session'[c].transport # "none"
                        /\ In(todo', <<k, c>>) => ~In(next', <<l, c>>)
                        /\ In(todo', <<k, c>>) /\ In(todo', <<l, c>>) => k = l
                        /\ In(next', <<k, c>>) /\ In(next', <<l, c>>) => k = l
      BY DEF ArrivalInv
    <3>1. /\ In(todo', <<k, c>>) => In(todo, <<k, c>>)
          /\ In(todo', <<l, c>>) => In(todo, <<l, c>>)
          /\ In(next', <<k, c>>) => In(next, <<k, c>>)
          /\ In(next', <<l, c>>) => In(next, <<l, c>>)
          /\ Once(todo, <<k, c>>) => Once(todo', <<k, c>>)
          /\ Once(next, <<k, c>>) => Once(next', <<k, c>>)
      BY <1>4, <1>6
    <3> QED
      BY <1>2, <2>1, <3>1 DEF ArrivalInv
  <2> DEFINE s == <<"step", c>>
             d == <<"data", c>>
  <2>3. /\ In(todo', s) <=> In(todo, s)
        /\ In(next', s) <=> In(next, s)
        /\ In(todo', d) => In(todo, d)
        /\ In(next', d) => In(next, d)
        /\ Once(todo, s) => Once(todo', s)
        /\ Once(next, s) => Once(next', s)
        /\ Before(todo, s, d) => Before(todo', s, d)
        /\ Before(next, s, d) => Before(next', s, d)
    BY <1>4, <1>6
  <2>4. Before(todo', s, <<"main">>) /\ Before(next', s, <<"main">>)
    BY <1>8, NotIn
  <2>5. HandlerInv(c)'
    BY <1>2, <2>1, <2>3 DEF HandlerInv
  <2>6. EndInv(c)'
    BY <1>1, <1>2, <1>10, <2>1, <2>4 DEF EndInv
  <2> QED
    BY <2>2, <2>5, <2>6
<1> QED
  BY <1>5, <1>7, <1>9, <1>10, <1>11 DEF AckInv

(* serve goes on to wait for the syncer, or closes the file: no handler    *)
(* that has not started is left in the iteration in which it does.         *)
LEMMA ResumeKeeps ==
  ASSUME AckInv, ~Embedded, Resume
  PROVE  AckInv'
<1> DEFINE h == <<"main">>
           x == <<"stop">>
<1>1. /\ Runs(h) /\ main = "awaiting" /\ UNCHANGED <<listening, session, clients, recorded, acked>>
  BY DEF Resume, CloseJournal
<1>2. /\ x \in Callback /\ h # x /\ \A e : h # <<"step", e>> /\ x # <<"step", e>>
      /\ \A e : x # <<"data", e>> /\ x # <<"timer", e>>
      /\ \A k \in Arriving : \A e : x # <<k, e>>
      /\ \A t \in Tasks : x # <<t>>
  BY CallbackShape, Kinds DEF Name, Arriving
<1>3. session \in [Client -> Session] /\ clients \subseteq Client /\ AckedIsRecorded
  BY DEF AckInv, Shaped
<1>4. CASE CloseJournal
  <2>1. Soon(<<x>>) /\ main' = "done" /\ file' = "closed" /\ journal' = "none"
    BY <1>4 DEF CloseJournal
  <2>2. /\ Leaves /\ Adds(x) /\ In(todo, h)
        /\ \A a : /\ In(todo, a) => a = h \/ In(todo', a)
                  /\ Before(todo, a, h) => ~In(todo, a)
    BY <1>1, <1>2, <2>1, SoonOne DEF AckInv
  <2>3. Shaped' /\ AckedIsRecorded'
    BY <1>1, <1>3, <2>1, <2>2 DEF AckInv, Shaped, Leaves, AckedIsRecorded
  <2> HIDE DEF x, h
  <2>4. ComingUp'
    BY <1>1, <1>2, <2>2, ComingUpKept DEF AckInv, Arriving
  <2>5. ServeInv'
    <3>1. \A c \in Client : ~In(todo', <<"made", c>>) /\ ~In(next', <<"made", c>>)
      <4>1. \A c \in Client : ~In(todo, <<"made", c>>) /\ ~In(next, <<"made", c>>)
        BY <1>1, <2>2 DEF AckInv, ServeInv, h
      <4>2. \A c \in Client : <<"made", c>> # x
        BY <1>2 DEF Arriving
      <4> QED
        BY <2>2, <4>1, <4>2 DEF Leaves, Adds
    <3> QED
      BY <1>1, <2>1, <3>1 DEF AckInv, ServeInv, Over
  <2>6. file # "closed" /\ LastInv'
    <3>1. ~In(todo, x) /\ ~In(next, x) /\ file # "closed" /\ Once(todo, x) /\ Once(next, x)
      BY <1>1 DEF AckInv, LastInv, Over, x
    <3>2. In(next', x) /\ Once(next', x) /\ ~In(todo', x) /\ Once(todo', x)
      BY <2>2, <3>1 DEF Adds, Leaves
    <3> QED
      BY <2>1, <3>1, <3>2 DEF LastInv, Over, x
  <2>7. ASSUME NEW c \in Client
        PROVE  ArrivalInv(c)' /\ HandlerInv(c)' /\ EndInv(c)'
    <3>1. ArrivalInv(c) /\ HandlerInv(c) /\ EndInv(c) /\ session'[c] = session[c]
      BY <1>1 DEF AckInv
    <3>2. ArrivalInv(c)'
      BY <1>2, <2>2, <3>1, ArrivalKept
    <3>3. In(todo, <<"step", c>>) => In(todo', <<"step", c>>)
      BY <1>2, <2>2
    <3>4. HandlerInv(c)'
      BY <1>2, <2>2, <3>1, <3>3, HandlerKept
    <3>5. session[c].handler = "created" => ~In(todo', <<"step", c>>)
      BY <1>1, <2>2, <3>1 DEF EndInv, Leaves, h
    <3>6. EndInv(c)'
      <4>1. In(next', <<"stop">>)
        BY <2>2 DEF Adds, x
      <4> QED
        BY <2>1, <2>6, <3>1, <3>5, <4>1 DEF EndInv
    <3> QED
      BY <3>2, <3>4, <3>6
  <2> QED
    BY <2>3, <2>4, <2>5, <2>6, <2>7 DEF AckInv
<1>5. CASE ~CloseJournal
  <2>1. Soon(<<>>) /\ UNCHANGED <<main, journal, file>>
    BY <1>5 DEF Resume
  <2>2. ASSUME NEW c \in Client, In(todo, <<"step", c>>) => h = <<"step", c>> \/ In(todo', <<"step", c>>)
        PROVE  Steady(c)
    BY <1>1, <1>2, <2>2 DEF Steady
  <2>3. AckedIsRecorded'
    BY <1>1, <1>3 DEF AckedIsRecorded
  <2> QED
    BY <1>1, <1>2, <1>3, <2>1, <2>2, <2>3, RunKeeps
<1> QED
  BY <1>4, <1>5

(* The loop stops, ...                                                     *)
LEMMA StopKeeps ==
  ASSUME AckInv, Stop
  PROVE  AckInv'
<1> DEFINE h == <<"stop">>
<1>1. /\ Runs(h) /\ Soon(<<>>) /\ main' = "stopped"
      /\ UNCHANGED <<listening, session, clients, journal, file, recorded, acked>>
  BY DEF Stop
<1>2. /\ Leaves /\ next' = next /\ In(todo, h)
      /\ \A a : In(todo, a) => a = h \/ In(todo', a)
      /\ Once(todo, h) => ~In(todo', h)
  BY <1>1, SoonNothing DEF AckInv
<1>3. Shaped' /\ AckedIsRecorded'
  BY <1>1, <1>2 DEF AckInv, Shaped, Leaves, AckedIsRecorded
<1>4. file = "closed" /\ main = "done" /\ ~In(todo', h) /\ ~In(next', h)
  BY <1>2 DEF AckInv, LastInv, Over
<1>5. ComingUp'
  BY <1>1, <1>2, ComingUpKept DEF AckInv
<1>6. ServeInv'
  BY <1>1, <1>2, <1>4 DEF AckInv, ServeInv, Over, Leaves
<1>7. LastInv'
  BY <1>1, <1>2, <1>4 DEF AckInv, LastInv, Over, Leaves
<1>8. ASSUME NEW c \in Client
      PROVE  ArrivalInv(c)' /\ HandlerInv(c)' /\ EndInv(c)'
  <2>1. ArrivalInv(c) /\ HandlerInv(c) /\ EndInv(c) /\ session'[c] = session[c]
    BY <1>1 DEF AckInv
  <2>2. <<"step", c>> # h
    OBVIOUS
  <2>3. ArrivalInv(c)'
    BY <1>2, <2>1, ArrivalKept
  <2>4. HandlerInv(c)'
    BY <1>2, <2>1, <2>2, HandlerKept
  <2>5. EndInv(c)'
    BY <1>1, <1>2, <1>4, <2>1, <2>2 DEF EndInv, Leaves
  <2> QED
    BY <2>3, <2>4, <2>5
<1> QED
  BY <1>3, <1>5, <1>6, <1>7, <1>8 DEF AckInv

(* ... every handler that is left is cancelled, of which all have started, *)
LEMMA CancelAllKeeps ==
  ASSUME AckInv, CancelAll
  PROVE  AckInv'
<1> DEFINE serving == {c \in Client : session[c].handler \in Serving}
           leaving == {c \in Client : session[c].handler = "leaving"}
           suspended == {c \in serving : session[c].handler \in {"waiting", "paused"}}
                          \cup {c \in leaving : session[c].transport # "lost"}
           D == {"step"} \X suspended
           A == SetToSeq(D)
<1>1. /\ main = "stopped" /\ todo = <<>> /\ main' = "cancelling" /\ next' = next \o A
      /\ UNCHANGED <<todo, listening, clients, journal, file, recorded, acked>>
  BY DEF CancelAll, Serving
<1>2. /\ session \in [Client -> Session]
      /\ session' = [c \in Client |->
           IF c \in serving THEN [session[c] EXCEPT !.handler = "cancelled"]
           ELSE IF c \in leaving THEN [session[c] EXCEPT !.handler = "abandoned"]
           ELSE session[c]]
  BY DEF CancelAll, Serving, AckInv, Shaped
<1>3. \A a, b : /\ ~In(todo, a) /\ Once(todo, a) /\ Before(todo, a, b)
  BY <1>1, OfNone
<1>4. /\ file = "closed" /\ ~In(next, <<"stop">>) /\ Once(next, <<"stop">>)
  BY <1>1 DEF AckInv, LastInv, Over
<1>5. ASSUME NEW c \in Client
      PROVE  /\ session'[c] \in Session /\ session'[c].transport = session[c].transport
             /\ session'[c].inbox = session[c].inbox
             /\ session'[c].handler = "none" <=> session[c].handler = "none"
             /\ session'[c].handler \notin Serving \cup {"created"}
  <2>1. session[c].handler # "created"
    BY <1>3, <1>4 DEF AckInv, EndInv
  <2> QED
    BY <1>2, <2>1 DEF Session, Serving
<1>6. \A c \in suspended : c \in Client /\ session[c].handler # "none"
  BY DEF Serving
<1> HIDE DEF serving, leaving, suspended
<1>7. A \in Seq(Callback) /\ \A a : In(A, a) => a \in D
  <2>1. "step" \in Name /\ suspended \subseteq Client
    BY <1>6 DEF Name
  <2> QED
    BY <2>1, OfSteps
<1>8. /\ \A k \in Arriving \cup {"data", "timer"} : \A e : <<k, e>> \notin D
      /\ <<"main">> \notin D /\ <<"stop">> \notin D /\ \A t \in Tasks : <<t>> \notin D
      /\ \A c \in Client : <<"step", c>> \in D => session[c].handler # "none"
  BY <1>6 DEF Arriving
<1> HIDE DEF D, A
<1>9. /\ next' \in Seq(Callback)
      /\ \A a :
           /\ In(next', a) => In(next, a) \/ a \in D
           /\ Once(next, a) /\ a \notin D => Once(next', a)
           /\ \A b : a \notin D /\ Before(next, a, b) => Before(next', a, b)
  BY <1>1, <1>7, OfBehind DEF AckInv
<1>10. Shaped' /\ AckedIsRecorded'
  BY <1>1, <1>2, <1>5, <1>9 DEF AckInv, Shaped, AckedIsRecorded
<1>11. ComingUp'
  BY <1>1, <1>3, <1>8, <1>9 DEF AckInv, ComingUp, Arriving
<1>12. ServeInv'
  BY <1>1, <1>3, <1>8, <1>9 DEF AckInv, ServeInv, Over, Arriving
<1>13. LastInv'
  BY <1>1, <1>3, <1>4, <1>8, <1>9 DEF AckInv, LastInv, Over
<1>14. ASSUME NEW c \in Client
       PROVE  ArrivalInv(c)' /\ HandlerInv(c)' /\ EndInv(c)'
  <2>1. ArrivalInv(c) /\ HandlerInv(c)
    BY DEF AckInv
  <2>2. ArrivalInv(c)'
    BY <1>1, <1>3, <1>5, <1>8, <1>9, <2>1 DEF ArrivalInv
  <2>3. HandlerInv(c)'
    BY <1>1, <1>3, <1>5, <1>8, <1>9, <2>1 DEF HandlerInv
  <2>4. EndInv(c)'
    BY <1>5 DEF EndInv
  <2> QED
    BY <2>2, <2>3, <2>4
<1> QED
  BY <1>10, <1>11, <1>12, <1>13, <1>14 DEF AckInv

(* ... and the program ends when they have.                                *)
LEMMA ExitKeeps ==
  ASSUME AckInv, Exit
  PROVE  AckInv'
<1>1. /\ main = "cancelling" /\ main' = "exited" /\ todo = <<>> /\ todo' = <<>>
      /\ next' = <<>>
      /\ UNCHANGED <<listening, session, clients, journal, file, recorded, acked>>
      /\ \A c \in Client : session[c].handler \in {"none", "done"}
  BY DEF Exit
<1>2. \A a, b : /\ ~In(todo', a) /\ ~In(next', a)
                /\ Once(todo', a) /\ Once(next', a)
                /\ Before(todo', a, b) /\ Before(next', a, b)
  BY <1>1, OfNone
<1>3. Shaped' /\ AckedIsRecorded'
  BY <1>1 DEF AckInv, Shaped, AckedIsRecorded
<1>4. ComingUp' /\ ServeInv' /\ LastInv'
  BY <1>1, <1>2 DEF AckInv, ComingUp, ServeInv, LastInv, Over
<1>5. ASSUME NEW c \in Client
      PROVE  ArrivalInv(c)' /\ HandlerInv(c)' /\ EndInv(c)'
  <2>1. session'[c].handler \in {"none", "done"} /\ session'[c].inbox = session[c].inbox
        /\ session'[c].handler = session[c].handler
    BY <1>1
  <2>2. ArrivalInv(c)'
    BY <1>2 DEF ArrivalInv
  <2>3. HandlerInv(c)'
    BY <1>2, <2>1 DEF AckInv, HandlerInv
  <2>4. EndInv(c)'
    BY <2>1 DEF EndInv, Serving
  <2> QED
    BY <2>2, <2>3, <2>4
<1> QED
  BY <1>3, <1>4, <1>5 DEF AckInv

(* A handler started or woken while serve is torn down                     *)
(* (server.py:106-129) never answers OK for a write it recorded nowhere:   *)
(* one that gets no journal starts in the loop's last iteration, has       *)
(* nothing to run in it, and runs again only cancelled.  A program that goes on with its loop after serve *)
(* has ended has no last iteration (the run of embedded_shutdown.cfg).     *)
THEOREM AckedWritesRecorded ==
  ASSUME ~Embedded
  PROVE  Spec => []AckedIsRecorded
<1>1. Init => AckInv
  <2> SUFFICES ASSUME Init PROVE AckInv
    OBVIOUS
  <2>1. \A a, b : /\ ~In(todo, a) /\ ~In(next, a)
                  /\ Once(todo, a) /\ Once(next, a)
                  /\ Before(todo, a, b) /\ Before(next, a, b)
    BY OfNone DEF Init
  <2>2. Absent \in Session
    BY DEF Absent, Session
  <2>3. Shaped
    BY <2>2 DEF Init, Shaped
  <2>4. ComingUp /\ ServeInv /\ LastInv /\ AckedIsRecorded
    BY <2>1 DEF Init, ComingUp, ServeInv, LastInv, Over, AckedIsRecorded
  <2>5. \A c \in Client : ArrivalInv(c) /\ HandlerInv(c) /\ EndInv(c)
    BY <2>1 DEF Init, Absent, ArrivalInv, HandlerInv, EndInv, Serving
  <2> QED
    BY <2>3, <2>4, <2>5 DEF AckInv
<1>2. AckInv /\ [Next]_vars => AckInv'
  <2> SUFFICES ASSUME AckInv, [Next]_vars PROVE AckInv'
    OBVIOUS
  <2>1. CASE Poll \/ Teardown \/ Resume \/ Stop \/ CancelAll \/ Exit \/ Cancel
    BY <2>1, PollKeeps, TeardownKeeps, ResumeKeeps, StopKeeps, CancelAllKeeps,
       ExitKeeps, CancelKeeps
  <2>2. CASE \E t \in Tasks : Timer(t) \/ RunTimer(t) \/ RunTask(t)
    BY <2>2, TimerKeeps, TaskKeeps
  <2>3. CASE \E c \in Client : \/ Accept(c) \/ Attach(c) \/ Made(c)
                               \/ Serve(c) \/ Pause(c) \/ Abort(c) \/ Finish(c)
    BY <2>3, AcceptKeeps, AttachKeeps, MadeKeeps, ServeKeeps, FinishKeeps
  <2>4. CASE \E c \in Client : \/ Data(c) \/ Eof(c) \/ Lost(c) \/ Flush(c)
                               \/ Connect(c) \/ Send(c) \/ HangUp(c) \/ Take(c)
    BY <2>4, DataKeeps, WakingKeeps, WorldKeeps
  <2>5. CASE UNCHANGED vars
    BY <2>5, ZenonT(30) DEF vars, AckInv, Shaped, ComingUp, ServeInv, LastInv, ArrivalInv,
                HandlerInv, EndInv, AckedIsRecorded
  <2> QED
    BY <2>1, <2>2, <2>3, <2>4, <2>5 DEF Next, Loop, World, Idle
<1>3. AckInv => AckedIsRecorded
  BY DEF AckInv
<1> QED
  BY <1>1, <1>2, <1>3, PTL DEF Spec
=============================================================================
