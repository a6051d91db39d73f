----------------------------- MODULE Authoring -----------------------------
(***************************************************************************)
(* The dialogs at work with the edit queue.  A save is two steps: the       *)
(* server writes the record, and once it has answered the dialog queues the *)
(* session that is to write, move or drop the code.  The queue decides when *)
(* that happens, and the user may save, rename or delete again meanwhile.   *)
(* A behaviour is about one kind of record.                                 *)
(***************************************************************************)
EXTENDS Dialogs

CONSTANTS Kinds,
          Draws,   \* bound: the conversations drawn in a behaviour about each kind
          Upsets   \* bound: the disturbances of the queue in one

VARIABLES
  task,    \* what each conversation was launched to do
  mishap   \* history: keys, conversations and runs that a named mishap has hit

dialogVars == <<kind, record, code, marked, dialog, task, run, mishap>>
authoringVars == <<queueVars, dialogVars>>

ASSUME ConversationsAreNumbered == Conv \subseteq Nat
ASSUME KindsOfRecords == Kinds \subseteq Kind

Closed == [stage |-> "closed"]
Hit(keys, convs, runs) ==
  [keys |-> mishap.keys \union keys, convs |-> mishap.convs \union convs, runs |-> mishap.runs \union runs]
Launched(c, t) == [d \in DOMAIN task \union {c} |-> IF d = c THEN t ELSE task[d]]

AuthoringInit ==
  /\ QueueInit
  /\ kind \in Kinds /\ upsets = Upsets[kind]
  /\ record = IF kind = "model" THEN [k \in InUse |-> Record(None, None, TRUE)] ELSE <<>>
  /\ code = <<>> /\ marked = {} /\ task = <<>> /\ run = NoRun
  /\ dialog = Closed
  /\ mishap = [keys |-> {}, convs |-> {}, runs |-> {}]

-----------------------------------------------------------------------------
(* The order of things to come. *)

Touched(t) == t.drop \union t.write

\* A session that finds what it expects drops, and writes.
Effect(built, t) ==
  IF ~(t.needs \subseteq DOMAIN built) THEN built
  ELSE [k \in (DOMAIN built \ t.drop) \union t.write |->
         IF k \in t.write THEN (IF t.by = None THEN built[CHOOSE x \in t.drop : TRUE] ELSE t.by) ELSE built[k]]

Unfinished == Filtered(queue, {i \in DOMAIN queue : queue[i].id \notin finished})
Launching == dialog.stage = "sent" /\ dialog.launch
Ahead ==
  [i \in DOMAIN Unfinished |-> task[Unfinished[i].id]] \o (IF Launching THEN <<dialog.task>> ELSE <<>>)

\* The code there will be when every queued session has done its task, in turn.
Built == FoldLeft(Effect, code, Ahead)

\* The keys whose sessions were lost, or that had none, and those that other
\* sessions make from them.
Asked == IF Launching THEN Launched(dialog.conv, dialog.task) ELSE task
Astray ==
  FoldLeft(LAMBDA S, c : LET t == Asked[c] IN
             IF c \in lapsed \/ (Touched(t) \union t.needs) \intersect S # {} THEN S \union Touched(t) ELSE S,
           mishap.keys, SetToSortSeq(DOMAIN Asked, <))

Recorded == UNION {{record[k].conv, record[k].spec} : k \in DOMAIN record}
Drawn == (DOMAIN task \union Recorded \union mishap.convs) \ {None}
Fresh == CHOOSE c \in Conv \ Drawn : \A d \in Conv \ Drawn : c <= d
MayDraw == ~(Conv \subseteq Drawn) /\ Cardinality(Drawn) < Draws[kind]

-----------------------------------------------------------------------------
(* A dialog. *)

Open ==
  /\ dialog.stage = "closed"
  /\ \E live \in {DOMAIN code \ {Shared}, {}} : dialog' = [stage |-> "open", listed |-> live]
  /\ UNCHANGED <<queueVars, kind, record, code, marked, task, run, mishap>>

Close ==
  /\ dialog.stage = "open"
  /\ dialog' = Closed
  /\ UNCHANGED <<queueVars, kind, record, code, marked, task, run, mishap>>

\* The keys that a save takes off the registry, and no session is asked to
\* drop, because it is not seen that their code is there or still to come: it
\* stays for good.
Unseen(s) ==
  {k \in DOMAIN record \ DOMAIN s.record :
     /\ k \notin s.task.drop /\ kind # "function"
     /\ \/ kind = "endpoint" /\ k \notin dialog.listed
        \/ \E i \in DOMAIN Unfinished : k \in task[Unfinished[i].id].write}

Request ==
  /\ dialog.stage = "open" /\ MayDraw
  /\ \E s \in Saves(Fresh) :
       LET left == DOMAIN record \ DOMAIN s.record
           astray == IF Unseen(s) # {} \/ left \intersect Astray # {}
                     THEN left \union (DOMAIN s.record \ DOMAIN record) ELSE {}
       IN /\ record' = s.record /\ marked' = s.marked /\ code' = s.code
          /\ run' = IF s.task.runs = {} THEN run ELSE [key |-> CHOOSE k \in s.task.runs : TRUE, owner |-> Fresh]
          /\ dialog' = [stage |-> "sent", listed |-> dialog.listed, conv |-> Fresh,
                        launch |-> s.launch, task |-> s.task]
          /\ mishap' = Hit(astray, {c \in {Fresh} : ~s.launch /\ \E k \in DOMAIN s.record : s.record[k].conv = c}, {})
  /\ UNCHANGED <<queueVars, kind, task>>

\* The answer: a launch closes the dialog, anything else loads its list again.
\* The dialog of the policies goes on to a pool's, which may be refused.
Answer ==
  /\ dialog.stage = "sent"
  /\ IF dialog.launch
     THEN /\ task' = Launched(dialog.conv, dialog.task)
          /\ \/ dialog' = Closed
             \/ kind = "policy" /\ dialog' = [stage |-> "open", listed |-> dialog.listed]
          /\ Enqueue(dialog.conv)
     ELSE /\ dialog' = [stage |-> "open", listed |-> DOMAIN code \ {Shared}]
          /\ UNCHANGED <<queueVars, task>>
  /\ UNCHANGED <<kind, record, code, marked, run, mishap>>

Unanswered == Hit(IF dialog.launch THEN Touched(dialog.task) ELSE {}, {dialog.conv}, {dialog.conv})

\* The answer does not arrive, or is an error after the registry was written:
\* the dialog shows it and stays.
LoseAnswer ==
  /\ dialog.stage = "sent"
  /\ dialog' = [stage |-> "open", listed |-> dialog.listed]
  /\ mishap' = Unanswered
  /\ UNCHANGED <<queueVars, kind, record, code, marked, task, run>>

\* "Update descriptions" is a session about the registry: nothing is saved before.
Describe ==
  /\ kind \in {"endpoint", "consumer"}
  /\ dialog.stage = "open" /\ DOMAIN record # {} /\ MayDraw
  /\ task' = Launched(Fresh, Quiet)
  /\ dialog' = Closed
  /\ Enqueue(Fresh)
  /\ UNCHANGED <<kind, record, code, marked, run, mishap>>

\* The Resume button of a record.
Resume ==
  /\ dialog.stage = "open"
  /\ \E k \in DOMAIN record : record[k].conv # None /\ Reopen(record[k].conv)
  /\ dialog' = Closed
  /\ UNCHANGED <<kind, record, code, marked, task, run, mishap>>

-----------------------------------------------------------------------------
(* The sessions, and the runs. *)

\* A session does its task once.  It flags a record that is still there, and
\* the last thing a run does is to tell the server that it is over.
CarryOut ==
  /\ Work
  /\ LET c == conn.session
         t == IF c \in DOMAIN task /\ c \notin finished THEN task[c] ELSE Quiet
         ends == run # NoRun /\ run.key \in t.runs
     IN /\ code' = Effect(code, t)
        /\ marked' = IF kind \in Flagged THEN marked \union (t.write \intersect DOMAIN record) ELSE marked
        /\ run' = IF ends THEN NoRun ELSE run
        /\ mishap' = IF ends /\ run.owner # c THEN Hit({}, {}, {run.owner}) ELSE mishap
  /\ UNCHANGED <<kind, record, dialog, task>>

\* The Stop button, or the backstop timer, which runs from the click on Start
\* and not from the session's turn.
EndRun ==
  /\ run # NoRun
  /\ run' = NoRun
  /\ mishap' = Hit({}, {}, {run.owner})
  /\ UNCHANGED <<queueVars, kind, record, code, marked, dialog, task>>

\* The steps of the queue that the records take no part in.
QueueStep ==
  /\ QueueNext
  /\ UNCHANGED dialogVars

\* The page is loaded again, with whatever dialog was open.
ReloadPage ==
  /\ queue # <<>>
  /\ Reload
  /\ dialog' = Closed
  /\ mishap' = IF Launching THEN Unanswered ELSE mishap
  /\ UNCHANGED <<kind, record, code, marked, task, run>>

AuthoringNext ==
  \/ Open \/ Close \/ Request \/ Answer \/ LoseAnswer \/ Describe \/ Resume
  \/ CarryOut \/ EndRun \/ QueueStep \/ ReloadPage

AuthoringSpec == AuthoringInit /\ [][AuthoringNext]_authoringVars

-----------------------------------------------------------------------------
\* What the records say is to exist is what the code will have once the queue
\* has run out, with the text that was saved last, whatever was added, changed,
\* renamed and deleted while sessions waited.
CodeFollowsRecords ==
  LET meant == {k \in DOMAIN record : record[k].wired /\ record[k].spec # None}
      built == Built
  IN \A k \in Key \ Astray :
       /\ k \in meant => k \in DOMAIN built /\ built[k] = record[k].spec
       /\ k \in DOMAIN built => k \in meant \/ kind \in {"function", "schema"}

\* A record's Resume finds its conversation, or it is still to be had.
ResumeFindsConversation ==
  \A k \in DOMAIN record :
    record[k].conv \in created \union Queued(queue) \union mishap.convs \union lapsed \union {None}
                       \union (IF Launching THEN {dialog.conv} ELSE {})

\* The session that was queued for a run finds the server believing in it, so
\* that no other run starts beside it and its process is not deleted.
RunIsBelieved ==
  \A i \in DOMAIN Unfinished :
    LET c == Unfinished[i].id
    IN task[c].runs # {} /\ c \notin mishap.runs \union lapsed =>
         run # NoRun /\ run.owner = c /\ task[c].runs \subseteq DOMAIN record

AuthoredAsRecorded == CodeFollowsRecords /\ ResumeFindsConversation /\ RunIsBelieved
=============================================================================
