----------------------------- MODULE EditQueue -----------------------------
(***************************************************************************)
(* The edit queue of the diagram page (src/App.tsx), its terminal panel     *)
(* (src/Terminal.tsx) and the server's end of the terminal                  *)
(* (server/terminal.js).  Every edit that needs a Claude session is queued; *)
(* one at a time is promoted into the terminal, which opens a socket, for   *)
(* which the server runs `claude` in a pty.  A session prints a token as    *)
(* its last act; the server tells the page, which advances the queue.       *)
(*                                                                         *)
(* A conversation is its id.  What Claude does in one is external: it may   *)
(* carry its task out, then print the token, or exit at any time.           *)
(***************************************************************************)
EXTENDS Naturals, Sequences, FiniteSets, SequencesExt

CONSTANTS Conv,      \* conversation ids
          None,      \* no session: the terminal's own, ad hoc one
          MaxUpsets  \* bound on what disturbs the queue: resumes, hiding, skips, exits, reloads

ASSUME NoneIsNoConversation == None \notin Conv
ASSUME UpsetsCounted == MaxUpsets \in Nat

VARIABLES
  queue,     \* the items, each [id, status]
  terminal,  \* terminalSession: the session to show, and how to open it
  shown,     \* showTerminal
  conn,      \* the mounted terminal's connection and the pty behind it
  created,   \* conversations Claude has stored
  finished,  \* conversations whose task has been carried out
  lapsed,    \* history: items that lost their turn to something the user did, or an exit
  upsets     \* how many such things may still happen

queueVars == <<queue, terminal, shown, conn, created, finished, lapsed, upsets>>

Session == Conv \union {None}
Mode == {"new", "resume", "adhoc"}
Status == {"pending", "running", "done"}
\* deferred: the effect's timer has not fired; opening: the server has the
\* socket and the pty, the page has not heard so.
Stage == {"unmounted", "deferred", "opening", "open", "closed"}
\* How far the pty's session is: the last two are the token, and its frame delivered.
Progress == {"starting", "started", "worked", "printed", "told"}

Upset == upsets > 0 /\ upsets' = upsets - 1

Unmounted == [session |-> None, mode |-> "adhoc", stage |-> "unmounted", progress |-> "starting"]
Deferred(t) == [session |-> t.session, mode |-> t.mode, stage |-> "deferred", progress |-> "starting"]

Active(q) == {i \in DOMAIN q : q[i].status \in {"running", "done"}}
PendingAt(q) == {i \in DOMAIN q : q[i].status = "pending"}
Running(q) == {q[i].id : i \in {j \in DOMAIN q : q[j].status = "running"}}
Queued(q) == {q[i].id : i \in DOMAIN q}
Unstarted(q) == {q[i].id : i \in PendingAt(q)}

\* Array.filter: the items at some of the places, in their order.
Ascending(at) ==
  CHOOSE f \in [1..Cardinality(at) -> at] : \A j, k \in DOMAIN f : j < k => f[j] < f[k]
Filtered(q, at) == [n \in 1..Cardinality(at) |-> q[Ascending(at)[n]]]
Without(q, id) == Filtered(q, {i \in DOMAIN q : q[i].id # id})

\* Mutant of KeepsConnection: the effect also runs again when the mode changes.
KeepsSameMode(t) == conn.stage # "unmounted" /\ conn.session = t.session /\ conn.mode = t.mode

\* The terminal's effect runs again when it is mounted or its session id
\* changes, and only then: a change of mode alone keeps the connection.
KeepsConnection(t) == conn.stage # "unmounted" /\ conn.session = t.session
Attach(t, s) ==
  IF ~s THEN Unmounted ELSE IF KeepsConnection(t) THEN conn ELSE Deferred(t)

\* The runner: with nothing running or done, the first pending item is
\* promoted and its session shown.  It runs after every change of the queue.
Settle(q, t, s) ==
  LET idle == Active(q) = {} /\ PendingAt(q) # {}
      first == CHOOSE i \in PendingAt(q) : \A j \in PendingAt(q) : i <= j
      next == IF idle THEN [session |-> q[first].id, mode |-> "new"] ELSE t
  IN /\ queue' = IF idle THEN [q EXCEPT ![first].status = "running"] ELSE q
     /\ terminal' = next
     /\ shown' = (s \/ idle)
     /\ conn' = Attach(next, s \/ idle)

QueueInit ==
  /\ queue = <<>>
  /\ terminal = [session |-> None, mode |-> "adhoc"]
  /\ shown = FALSE
  /\ conn = Unmounted
  /\ created = {} /\ finished = {} /\ lapsed = {}
  /\ upsets \in 0..MaxUpsets

-----------------------------------------------------------------------------
(* What the page does with a launch. *)

\* A new session waits for its turn.
Enqueue(id) ==
  /\ Settle(Append(queue, [id |-> id, status |-> "pending"]), terminal, shown)
  /\ UNCHANGED <<created, finished, lapsed, upsets>>

\* A resume takes the terminal at once.  It costs a running item the
\* connection that is watched for its token; and the conversation of an item
\* still pending is opened before it exists, under the id the runner will show.
Reopen(id) ==
  LET t == [session |-> id, mode |-> "resume"]
  IN /\ Upset
     /\ terminal' = t /\ shown' = TRUE
     /\ conn' = Attach(t, TRUE)
     /\ lapsed' = lapsed \union ({id} \intersect Unstarted(queue)) \union (Running(queue) \ {id})
     /\ UNCHANGED <<queue, created, finished>>

-----------------------------------------------------------------------------
(* The connection and the pty. *)

\* The socket reaches the server, which spawns the pty.
Connect ==
  /\ conn.stage = "deferred"
  /\ conn' = [conn EXCEPT !.stage = "opening"]
  /\ UNCHANGED <<queue, terminal, shown, created, finished, lapsed, upsets>>

\* onopen: a new session is demoted, so that the next connection to it resumes.
Opened ==
  /\ conn.stage = "opening"
  /\ conn' = [conn EXCEPT !.stage = "open"]
  /\ terminal' = IF conn.mode = "new" /\ terminal.mode = "new"
                 THEN [terminal EXCEPT !.mode = "resume"] ELSE terminal
  /\ UNCHANGED <<queue, shown, created, finished, lapsed, upsets>>

HasPty == conn.stage \in {"opening", "open"}

\* Claude refuses to create a conversation that exists, or to resume one that does not.
CanStart == conn.mode = "adhoc" \/ (conn.mode = "new") # (conn.session \in created)

Start ==
  /\ HasPty /\ conn.progress = "starting" /\ CanStart
  /\ conn' = [conn EXCEPT !.progress = "started"]
  /\ created' = created \union ({conn.session} \ {None})
  /\ UNCHANGED <<queue, terminal, shown, finished, lapsed, upsets>>

\* The session carries its task out: by itself, or resumed, when asked again.
Work ==
  /\ HasPty /\ conn.progress = "started" /\ conn.session # None
  /\ conn' = [conn EXCEPT !.progress = "worked"]
  /\ finished' = finished \union {conn.session}
  /\ UNCHANGED <<queue, terminal, shown, created, lapsed, upsets>>

\* The token is looked for in the output of a new session only, once.
PrintToken ==
  /\ HasPty /\ conn.progress = "worked" /\ conn.mode = "new"
  /\ conn' = [conn EXCEPT !.progress = "printed"]
  /\ UNCHANGED <<queue, terminal, shown, created, finished, lapsed, upsets>>

\* handleSessionDone: the frame names the connection's session, which has to
\* be the running item's.  The countdown to the next item starts.
SessionDone ==
  /\ conn.stage = "open" /\ conn.progress = "printed"
  /\ conn' = [conn EXCEPT !.progress = "told"]
  /\ queue' = IF conn.session \in Running(queue)
              THEN [i \in DOMAIN queue |->
                     IF queue[i].status = "running" THEN [queue[i] EXCEPT !.status = "done"] ELSE queue[i]]
              ELSE queue
  /\ UNCHANGED <<terminal, shown, created, finished, lapsed, upsets>>

\* The pty exits, which closes the socket; at its start if Claude refuses.
Exit ==
  /\ Upset
  /\ conn.stage = "open"
  /\ conn' = [conn EXCEPT !.stage = "closed"]
  /\ lapsed' = lapsed \union ({conn.session} \intersect Running(queue))
  /\ UNCHANGED <<queue, terminal, shown, created, finished>>

-----------------------------------------------------------------------------
(* The buttons. *)

\* advanceQueue: after ten seconds, or with Next.
Advance ==
  /\ \E i \in DOMAIN queue : queue[i].status = "done"
  /\ Settle(Filtered(queue, {i \in DOMAIN queue : queue[i].status # "done"}), terminal, shown)
  /\ UNCHANGED <<created, finished, lapsed, upsets>>

\* cancelItem: Skip on the running item, the cross on a pending one.  With
\* nothing to run next the terminal goes.
Cancel(id) ==
  /\ Upset
  /\ id \in Running(queue) \union Unstarted(queue)
  /\ LET closes == id \in Running(queue) /\ Unstarted(queue) = {}
         t == IF closes THEN [session |-> None, mode |-> "adhoc"] ELSE terminal
     IN Settle(Without(queue, id), t, shown /\ ~closes)
  /\ lapsed' = lapsed \union {id}
  /\ UNCHANGED <<created, finished>>

\* "Hide terminal" unmounts it, and the server kills the pty of a closed
\* socket; "Edit with Claude" mounts it again on the same session.
Toggle ==
  /\ Upset
  /\ shown' = ~shown
  /\ conn' = Attach(terminal, ~shown)
  /\ lapsed' = lapsed \union (IF shown THEN Running(queue) ELSE {})
  /\ UNCHANGED <<queue, terminal, created, finished>>

\* The page is loaded again: the queue and the terminal were its memory only.
Reload ==
  /\ Upset
  /\ queue' = <<>>
  /\ terminal' = [session |-> None, mode |-> "adhoc"]
  /\ shown' = FALSE
  /\ conn' = Unmounted
  /\ lapsed' = lapsed \union Queued(queue)
  /\ UNCHANGED <<created, finished>>

\* All of it but Work and Reload, which touch more than the queue.
QueueNext ==
  \/ Connect \/ Opened \/ Start \/ PrintToken \/ SessionDone \/ Exit
  \/ Advance \/ (\E id \in Queued(queue) : Cancel(id)) \/ Toggle

-----------------------------------------------------------------------------
QueueTypeOK ==
  /\ queue \in Seq([id : Conv, status : Status])
  /\ terminal \in [session : Session, mode : Mode]
  /\ shown \in BOOLEAN
  /\ conn \in [session : Session, mode : Mode, stage : Stage, progress : Progress]
  /\ created \subseteq Conv /\ finished \subseteq created /\ lapsed \subseteq Conv /\ upsets \in 0..MaxUpsets

\* An item whose turn it is is heard of again: the terminal shows its session,
\* over a connection opened as new, the only kind the server watches for the
\* token, and one that Claude will accept.
Watched(id) ==
  /\ shown /\ terminal.session = id
  /\ conn.session = id /\ conn.mode = "new"
  /\ conn.stage # "closed" /\ conn.progress # "told"
  /\ conn.progress = "starting" => id \notin created

\* The queue runs its items one at a time, in the order they came, keeps the
\* running one watched, and takes an item for done when its task is.  The
\* exceptions are the items in `lapsed`: displaced by a resume or by hiding the
\* terminal, skipped, lost with the page, or whose session exited.
QueueServed ==
  /\ QueueTypeOK
  /\ Cardinality(Active(queue)) <= 1
  /\ \A i \in Active(queue), j \in PendingAt(queue) : i < j
  /\ \A i \in DOMAIN queue : LET it == queue[i] IN
       /\ it.status = "running" /\ it.id \notin lapsed => Watched(it.id)
       /\ it.status = "done" => it.id \in finished
       /\ it.status = "pending" /\ it.id \notin lapsed => it.id \notin created
  /\ queue # <<>> => Active(queue) # {}
=============================================================================
