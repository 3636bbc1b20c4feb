------------------------------- MODULE Server -------------------------------
(***************************************************************************)
(* The life of a server from its first client to its end                   *)
(* (src/pyredis/server.py:80-206) on asyncio's event loop.                 *)
(*                                                                         *)
(* The loop runs callbacks one at a time, in the order they were           *)
(* scheduled.  What a callback schedules runs in a later iteration; what   *)
(* the outside does is seen between two iterations, after what was already *)
(* scheduled.  A request is a write; how it is read is in Connection, what *)
(* it does in Durability.                                                  *)
(***************************************************************************)
EXTENDS Integers, Sequences, FiniteSets, FiniteSetsExt, SequencesExt

CONSTANTS
  Client,
  Tasks,       \* the background tasks: "sweeper", and "syncer" if everysec
  MaxRequests, \* bound on the requests of each client
  Embedded     \* TRUE: serve is one task of a loop that goes on after it

ASSUME ServerAssumption ==
  /\ IsFiniteSet(Client)
  /\ "sweeper" \in Tasks /\ Tasks \subseteq {"sweeper", "syncer"}
  /\ MaxRequests \in [Client -> Nat] /\ Embedded \in BOOLEAN

VARIABLES
  todo,      \* callbacks of this iteration
  next,      \* callbacks of the next one
  main,      \* serve: "parked", "cancelled", "awaiting" (teardown), "done";
             \* then, unless embedded, "stopped" (the loop), "cancelling" (it
             \* runs until every handler has ended) and "exited"
  awaited,   \* the task it waits for in teardown
  task,      \* of each background task: "asleep", "due", "ready" or "done"
  listening, \* the listener accepts
  session,   \* of each client: its transport and its handler, see Absent
  clients,   \* _clients: the transports to hang up on
  journal,   \* _journal: "aof", or "none" for NO_JOURNAL
  file,      \* "open" or "closed"
  recorded,  \* requests in the file
  acked      \* requests answered with OK

vars == <<todo, next, main, awaited, task, listening, session, clients,
          journal, file, recorded, acked>>

(* transport: "none", "queued", "open", "closing" (close was called) or    *)
(* "lost".                                                                 *)
(* handler: "none", "created", "waiting" for input, "woken", "draining"    *)
(* (drain yields once), "paused" (it waits for the client), "leaving" (in  *)
(* wait_closed) or "done"; "cancelled" and, in wait_closed, "abandoned"    *)
(* when a CancelledError is on its way.  The journal is the one the handler*)
(* was given; sent, inbox and ran count the client's requests: all, those  *)
(* buffered, those run.                                                    *)
(* unread: the transport holds replies that the client does not take.      *)
Absent == [transport |-> "none", handler |-> "none", journal |-> "none",
           sent |-> 0, inbox |-> 0, ran |-> 0, eof |-> FALSE, unread |-> FALSE]

(* The listener is up, the log is loaded, and both tasks are asleep.       *)
Init ==
  /\ todo = <<>> /\ next = <<>>
  /\ main = "parked" /\ awaited = "none"
  /\ task = [t \in Tasks |-> "asleep"]
  /\ listening = TRUE
  /\ session = [c \in Client |-> Absent]
  /\ clients = {}
  /\ journal = "aof" /\ file = "open"
  /\ recorded = {} /\ acked = {}

-----------------------------------------------------------------------------
(* What happens outside, noticed between two iterations.                   *)
Outside(callback) ==
  /\ todo = <<>> /\ main \notin {"stopped", "exited"}
  /\ next' = Append(next, callback)
  /\ UNCHANGED <<todo, awaited, clients, journal, file, recorded, acked>>

Connect(c) ==
  /\ listening /\ session[c] = Absent /\ Outside(<<"accept", c>>)
  /\ session' = [session EXCEPT ![c].transport = "queued"]
  /\ UNCHANGED <<main, task, listening>>

Reachable(c) ==
  session[c].transport = "open" /\ session[c].handler # "none" /\ ~session[c].eof
  /\ <<"eof", c>> \notin ToSet(next)

Send(c) ==
  /\ Reachable(c) /\ Outside(<<"data", c>>)
  /\ session[c].sent < MaxRequests[c]
  /\ session' = [session EXCEPT ![c].sent = @ + 1]
  /\ UNCHANGED <<main, task, listening>>

HangUp(c) ==
  /\ Reachable(c) /\ Outside(<<"eof", c>>)
  /\ UNCHANGED <<main, task, listening, session>>

(* It reads: the transport can write.                                      *)
Take(c) ==
  /\ session[c].unread /\ <<"flush", c>> \notin ToSet(next)
  /\ Outside(<<"flush", c>>)
  /\ UNCHANGED <<main, task, listening, session>>

Timer(t) ==
  /\ task[t] = "asleep" /\ Outside(<<"timer", t>>)
  /\ task' = [task EXCEPT ![t] = "due"]
  /\ UNCHANGED <<main, listening, session>>

(* Ctrl-C, or whoever embeds the server: between any two callbacks.        *)
Cancel ==
  /\ main = "parked" /\ main' = "cancelled"
  /\ next' = Append(next, <<"main">>)
  /\ UNCHANGED <<todo, awaited, task, listening, session, clients, journal,
                 file, recorded, acked>>

(* The loop begins its next iteration.                                     *)
Poll ==
  /\ todo = <<>> /\ next # <<>> /\ main # "stopped"
  /\ todo' = next /\ next' = <<>>
  /\ UNCHANGED <<main, awaited, task, listening, session, clients, journal,
                 file, recorded, acked>>

-----------------------------------------------------------------------------
Runs(callback) == todo # <<>> /\ Head(todo) = callback

Soon(callbacks) == todo' = Tail(todo) /\ next' = next \o callbacks

Rest == <<main, awaited, task, listening>>

(* A callback of a listener or of a transport that was closed: it was      *)
(* cancelled, and the loop passes it over.                                 *)
PassedOver ==
  /\ Soon(<<>>)
  /\ UNCHANGED <<Rest, session, clients, journal, file, recorded, acked>>

(* How a connection comes up: accept, then a task that makes the transport *)
(* (unless the listener is gone), then connection_made, which starts the   *)
(* handler's task.                                                         *)
Accept(c) ==
  /\ Runs(<<"accept", c>>) /\ Soon(IF listening THEN <<<<"attach", c>>>> ELSE <<>>)
  /\ UNCHANGED <<Rest, session, clients, journal, file, recorded, acked>>

Attach(c) ==
  /\ Runs(<<"attach", c>>)
  /\ Soon(IF listening THEN <<<<"made", c>>>> ELSE <<>>)
  /\ session' = [session EXCEPT ![c].transport = IF listening THEN "open" ELSE "lost"]
  /\ UNCHANGED <<Rest, clients, journal, file, recorded, acked>>

Made(c) ==
  /\ Runs(<<"made", c>>) /\ Soon(<<<<"step", c>>>>)
  /\ session' = [session EXCEPT ![c].handler = "created"]
  /\ UNCHANGED <<Rest, clients, journal, file, recorded, acked>>

(* Something that leaves s, and wakes a handler that waits for it.         *)
Wakes(c, s, waiting) ==
  /\ Soon(IF s.handler \in waiting THEN <<<<"step", c>>>> ELSE <<>>)
  /\ session' = [session EXCEPT ![c] =
       IF s.handler \in waiting \ {"leaving"} THEN [s EXCEPT !.handler = "woken"] ELSE s]
  /\ UNCHANGED <<Rest, clients, journal, file, recorded, acked>>

Data(c) ==
  /\ Runs(<<"data", c>>)
  /\ IF session[c].transport = "open"
       THEN Wakes(c, [session[c] EXCEPT !.inbox = @ + 1], {"waiting"})
       ELSE PassedOver

Eof(c) ==
  /\ Runs(<<"eof", c>>)
  /\ IF session[c].transport = "open"
       THEN Wakes(c, [session[c] EXCEPT !.eof = TRUE], {"waiting"})
       ELSE PassedOver

(* connection_lost, scheduled by a close that finds no reply unread, ...   *)
Disconnected(s) == [s EXCEPT !.transport = "lost", !.eof = TRUE]

Lost(c) ==
  /\ Runs(<<"lost", c>>)
  /\ Wakes(c, Disconnected(session[c]), {"waiting", "leaving"})

(* ... and called when the last reply of a closing transport is taken.  A  *)
(* client that takes some resumes a handler that pauses.                   *)
Flush(c) ==
  LET s == session[c]
      flushed == [s EXCEPT !.unread = FALSE]
  IN  /\ Runs(<<"flush", c>>)
      /\ \/ s.handler = "paused" /\ Wakes(c, s, {"paused"})
         \/ s.transport = "open" /\ Wakes(c, flushed, {"paused"})
         \/ /\ s.transport = "closing"
            /\ Wakes(c, Disconnected(flushed), {"paused", "waiting", "leaving"})

-----------------------------------------------------------------------------
(* The handler: _handle_client around handle_connection.                   *)

(* connection_lost is scheduled at once only when no reply is unread.      *)
LosesAtOnce(s) == s.transport = "open" /\ ~s.unread

(* Its end: out of _clients, the transport closed and waited for.          *)
Leave(s) ==
  [s EXCEPT !.transport = IF @ = "open" THEN "closing" ELSE @,
            !.handler = IF s.transport = "lost" THEN "done" ELSE "leaving"]

(* A reply can still be written unless connection_lost is under way.       *)
Writable(s) == s.transport = "open" \/ (s.transport = "closing" /\ s.unread)

(* It runs what is buffered until there is no more, and waits, or until the*)
(* replies unread are too many, and pauses; but when the transport is      *)
(* closing, drain yields after each reply.                                 *)
Serve(c) ==
  LET s == [session[c] EXCEPT !.journal =
              IF session[c].handler = "created" THEN journal ELSE @]
  IN  /\ Runs(<<"step", c>>)
      /\ \/ s.handler \in {"created", "woken"}
         \/ s.handler = "draining" /\ s.transport # "lost"
      /\ \E n \in 0 .. s.inbox, unread, pauses \in BOOLEAN :
           LET requests == {<<c, s.ran + i>> : i \in 1 .. n}
               served == [s EXCEPT !.inbox = @ - n, !.ran = @ + n, !.unread = unread]
               yields == n > 0 /\ s.transport # "open"
               ends == ~yields /\ ~pauses /\ s.eof
           IN  /\ s.unread => unread
               /\ unread /\ ~s.unread => n > 0 /\ s.transport = "open"
               /\ pauses => n > 0 /\ s.transport = "open" /\ unread
               /\ ~pauses => n = IF s.transport = "open" THEN s.inbox ELSE Min({1, s.inbox})
               /\ recorded' = IF s.journal = "aof" /\ file = "open"
                                THEN recorded \cup requests ELSE recorded
               /\ acked' = IF Writable(s) /\ (s.journal = "none" \/ file = "open")
                             THEN acked \cup requests ELSE acked
               /\ session' = [session EXCEPT ![c] =
                    IF ends THEN Leave(served)
                    ELSE [served EXCEPT !.handler =
                            IF yields THEN "draining"
                            ELSE IF pauses THEN "paused" ELSE "waiting"]]
               /\ clients' = IF ends THEN clients \ {c}
                             ELSE IF s.handler = "created" THEN clients \cup {c} ELSE clients
               /\ Soon(IF yields THEN <<<<"step", c>>>>
                       ELSE IF ends /\ LosesAtOnce(served) THEN <<<<"lost", c>>>> ELSE <<>>)
      /\ UNCHANGED <<Rest, journal, file>>

(* After it has yielded, drain pauses if the replies unread are too many.  *)
Pause(c) ==
  /\ Runs(<<"step", c>>) /\ Soon(<<>>)
  /\ session[c].handler = "draining" /\ session[c].unread
  /\ session' = [session EXCEPT ![c].handler = "paused"]
  /\ UNCHANGED <<Rest, clients, journal, file, recorded, acked>>

(* It was cancelled: the finally of _handle_client.                        *)
Abort(c) ==
  /\ Runs(<<"step", c>>) /\ session[c].handler = "cancelled"
  /\ Soon(IF LosesAtOnce(session[c]) THEN <<<<"lost", c>>>> ELSE <<>>)
  /\ session' = [session EXCEPT ![c] = Leave(@)]
  /\ clients' = clients \ {c}
  /\ UNCHANGED <<Rest, journal, file, recorded, acked>>

(* drain finds the connection lost, or wait_closed returns or is cancelled.*)
Finish(c) ==
  /\ Runs(<<"step", c>>) /\ Soon(<<>>)
  /\ \/ session[c].handler \in {"draining", "leaving"} /\ session[c].transport = "lost"
     \/ session[c].handler = "abandoned"
  /\ session' = [session EXCEPT ![c].handler = "done"]
  /\ clients' = clients \ {c}
  /\ UNCHANGED <<Rest, journal, file, recorded, acked>>

-----------------------------------------------------------------------------
(* The end of a background task's sleep, unless it was cancelled in it.    *)
RunTimer(t) ==
  /\ Runs(<<"timer", t>>)
  /\ Soon(IF task[t] = "due" THEN <<<<t>>>> ELSE <<>>)
  /\ task' = [task EXCEPT ![t] = IF @ = "due" THEN "ready" ELSE @]
  /\ UNCHANGED <<main, awaited, listening, session, clients, journal, file,
                 recorded, acked>>

(* It wakes and sleeps again, or ends.                                     *)
RunTask(t) ==
  /\ Runs(<<t>>)
  /\ IF main \in {"parked", "cancelled"}
       THEN task' = [task EXCEPT ![t] = "asleep"] /\ Soon(<<>>)
       ELSE /\ task' = [task EXCEPT ![t] = "done"]
            /\ Soon(IF awaited = t THEN <<<<"main">>>> ELSE <<>>)
  /\ UNCHANGED <<main, awaited, listening, session, clients, journal, file,
                 recorded, acked>>

(* Faulty: the file goes before the tasks have ended.                      *)
TeardownAtOnce ==
  /\ Runs(<<"main">>) /\ main = "cancelled"
  /\ Soon(<<<<"stop">>>>)
  /\ listening' = FALSE /\ main' = "done"
  /\ journal' = "none" /\ file' = "closed"
  /\ UNCHANGED <<awaited, task, session, clients, recorded, acked>>

(* serve is cancelled: it cancels the tasks, closes the listener, hangs up *)
(* on the clients and waits for the sweeper.                               *)
Teardown ==
  LET closing == {c \in clients : session[c].transport = "open"}
      asleep == {t \in Tasks : task[t] \in {"asleep", "due"}}
  IN  /\ Runs(<<"main">>) /\ main = "cancelled"
      /\ Soon(SetToSeq({<<t>> : t \in asleep})
                \o SetToSeq({"lost"} \X {c \in closing : LosesAtOnce(session[c])}))
      /\ task' = [t \in Tasks |-> IF t \in asleep THEN "ready" ELSE task[t]]
      /\ listening' = FALSE
      /\ session' = [c \in Client |->
           IF c \in closing THEN [session[c] EXCEPT !.transport = "closing"]
           ELSE session[c]]
      /\ main' = "awaiting" /\ awaited' = "sweeper"
      /\ UNCHANGED <<clients, journal, file, recorded, acked>>

CloseJournal ==
  /\ journal' = "none" /\ file' = "closed"
  /\ main' = "done"
  /\ Soon(IF Embedded THEN <<>> ELSE <<<<"stop">>>>)
  /\ UNCHANGED <<awaited, task, listening, session, clients, recorded, acked>>

(* Faulty: it waits for the handlers too.                                  *)
ResumeAfterHandlers ==
  /\ Runs(<<"main">>) /\ main = "awaiting"
  /\ IF \A c \in Client : session[c].handler \in {"none", "done"}
       THEN CloseJournal
       ELSE Soon(<<<<"main">>>>)
            /\ UNCHANGED <<Rest, session, clients, journal, file, recorded, acked>>

(* The sweeper has ended; then the syncer; then the journal is closed.     *)
Resume ==
  /\ Runs(<<"main">>) /\ main = "awaiting"
  /\ IF \A t \in Tasks : task[t] = "done"
       THEN CloseJournal
       ELSE /\ awaited' = "syncer" /\ Soon(<<>>)
            /\ UNCHANGED <<main, task, listening, session, clients, journal,
                           file, recorded, acked>>

(* asyncio.run stops the loop at the end of the iteration, ...             *)
Stop ==
  /\ Runs(<<"stop">>) /\ Soon(<<>>)
  /\ main' = "stopped"
  /\ UNCHANGED <<awaited, task, listening, session, clients, journal, file,
                 recorded, acked>>

(* ... cancels every handler that is left, at the await it is in (one that *)
(* was to run, at the await it was to return from), ...                    *)
CancelAll ==
  LET serving == {c \in Client :
        session[c].handler \in {"waiting", "woken", "draining", "paused"}}
      leaving == {c \in Client : session[c].handler = "leaving"}
      suspended == {c \in serving : session[c].handler \in {"waiting", "paused"}}
                     \cup {c \in leaving : session[c].transport # "lost"}
  IN  /\ main = "stopped" /\ todo = <<>>
      /\ main' = "cancelling"
      /\ next' = next \o SetToSeq({"step"} \X suspended)
      /\ session' = [c \in Client |->
           IF c \in serving THEN [session[c] EXCEPT !.handler = "cancelled"]
           ELSE IF c \in leaving THEN [session[c] EXCEPT !.handler = "abandoned"]
           ELSE session[c]]
      /\ UNCHANGED <<todo, awaited, task, listening, clients, journal, file,
                     recorded, acked>>

(* ... and runs it again until they have ended.                            *)
Exit ==
  /\ main = "cancelling" /\ todo = <<>>
  /\ \A c \in Client : session[c].handler \in {"none", "done"}
  /\ main' = "exited" /\ next' = <<>>
  /\ UNCHANGED <<todo, awaited, task, listening, session, clients, journal, file,
                 recorded, acked>>

Idle == todo = <<>> /\ next = <<>> /\ main \in {"done", "exited"} /\ UNCHANGED vars

-----------------------------------------------------------------------------
Loop ==
  \/ Poll \/ Teardown \/ Resume \/ Stop \/ CancelAll \/ Exit
  \/ \E t \in Tasks : RunTimer(t) \/ RunTask(t)
  \/ \E c \in Client :
       \/ Accept(c) \/ Attach(c) \/ Made(c)
       \/ Data(c) \/ Eof(c) \/ Lost(c) \/ Flush(c)
       \/ Serve(c) \/ Pause(c) \/ Abort(c) \/ Finish(c)

World ==
  \/ Cancel
  \/ \E t \in Tasks : Timer(t)
  \/ \E c \in Client : Connect(c) \/ Send(c) \/ HangUp(c) \/ Take(c)

Next == Loop \/ World \/ Idle

Spec == Init /\ [][Next]_vars

(* The event loop runs what is scheduled.                                  *)
FairSpec == Spec /\ WF_vars(Loop)

-----------------------------------------------------------------------------
(* Properties.                                                             *)

(* "killing the process loses nothing" (README.md:201-202), and neither    *)
(* does stopping it: a handler started or woken while serve is being torn  *)
(* down (server.py:106-129) never answers OK for a write it recorded in no *)
(* file.                                                                   *)
AckedIsRecorded == acked \subseteq recorded

(* "Awaiting the sweeper last leaves no pending task behind"               *)
(* (server.py:111-112): neither background task is still to run when the   *)
(* journal is closed, whatever state each was cancelled in.                *)
NoTaskLeft == file = "closed" => \A t \in Tasks : task[t] = "done"

Ended == main = "exited"

(* Shutdown does not wait for clients that have no reason to disconnect    *)
(* (server.py:99-112): once cancelled, serve ends, whatever they do, ...   *)
ServeEnds == main = "cancelled" ~> file = "closed"

(* ... and so does the program, with every handler, if the clients take    *)
(* the replies they are sent (server.py:143-147).                          *)
ShutdownEnds ==
  (\A c \in Client : []<>~session[c].unread) => (main = "cancelled" ~> Ended)

(* "Ctrl-C (SIGINT) shuts down cleanly" (README.md:358): it ends, whatever *)
(* the clients do.                                                         *)
ProgramEnds == main = "cancelled" ~> Ended

(* "so nothing mutates the keyspace during teardown" (server.py:107-108):  *)
(* not by a request either.                                                *)
KeyspaceStill ==
  [][main = "awaiting" => \A c \in Client : session'[c].ran = session[c].ran]_vars

(* "stop accepting and hang up on live clients" (server.py:108-109).       *)
HungUpOn ==
  main = "done" => \A c \in Client : session[c].transport # "open"
=============================================================================
