----------------------------- MODULE Interview -----------------------------
(***************************************************************************)
(* A mock interview in a system (server/interview.js): the registry file    *)
(* interview.json, the chat turns, each a headless `claude` child process   *)
(* that creates or resumes the interview's conversation, and the start,     *)
(* which first wipes the system.  What a child prints reaches the registry  *)
(* as it comes, also after it has been told to stop.                        *)
(***************************************************************************)
EXTENDS Naturals, Sequences, FiniteSets

CONSTANTS Talk,       \* the conversation ids that interviews draw
          MaxTurns,   \* bound: the children launched, retries aside
          MaxWipes    \* bound: the start and reset requests at a time

NoInterview == [status |-> "none"]

VARIABLES
  interview, \* interview.json
  turn,      \* the turns map: the child of the turn in flight, 0 when there is none
  child,     \* the children that have not exited, by their number
  launched,  \* how many there have been
  stored,    \* the conversations that claude has
  wiping,    \* start and reset requests whose reset is under way
  drawn,     \* conversation ids drawn
  amiss      \* history: what went wrong, by its name

interviewVars == <<interview, turn, child, launched, stored, wiping, drawn, amiss>>

InterviewInit ==
  /\ interview = NoInterview
  /\ turn = 0 /\ child = <<>> /\ launched = 0 /\ stored = {} /\ wiping = <<>> /\ drawn = {} /\ amiss = {}

Live == {i \in DOMAIN child : ~child[i].stopped}
UnderWay == interview.status = "active"

---------------------------------------------------------------------------
(* Start, reset and end. *)

\* guardIdle, then the synchronous part of the reset, which deletes the registry.
\* Nothing says that a wipe is under way to a second request.
Wipe(how) ==
  /\ turn = 0
  /\ Len(wiping) < MaxWipes /\ (how = "start" => drawn # Talk)
  /\ interview' = NoInterview
  /\ wiping' = Append(wiping, how)
  /\ UNCHANGED <<turn, child, launched, stored, drawn, amiss>>

\* The containers are reconciled, one request after the other, and a start
\* writes its interview over whatever is there; or docker fails, and the system
\* stays without one.
Wiped ==
  /\ wiping # <<>> /\ wiping' = Tail(wiping)
  /\ \/ /\ Head(wiping) = "start"
        /\ \E c \in Talk \ drawn :
             /\ interview' = [status |-> "active", conv |-> c, started |-> FALSE, said |-> {}, rows |-> {}]
             /\ drawn' = drawn \union {c}
        /\ amiss' = amiss \union (IF DOMAIN child # {} THEN {"outlived"} ELSE {})
     \/ UNCHANGED <<interview, drawn, amiss>>
  /\ UNCHANGED <<turn, child, launched, stored>>

EndInterview ==
  /\ UnderWay /\ turn = 0
  /\ interview' = [interview EXCEPT !.status = "ended"]
  /\ UNCHANGED <<turn, child, launched, stored, wiping, drawn, amiss>>

---------------------------------------------------------------------------
(* A turn. *)

Child(c, mode) == [conv |-> c, mode |-> mode, stopped |-> FALSE, result |-> FALSE]

Others(i) == [j \in DOMAIN child \ {i} |-> child[j]]
Launch(others, c) ==
  /\ launched' = launched + 1 /\ turn' = launched'
  /\ child' = [j \in DOMAIN others \union {launched'} |-> IF j = launched' THEN c ELSE others[j]]

\* handleMessage: the first turn creates the conversation, later ones resume it.
Message ==
  /\ UnderWay /\ turn = 0 /\ launched < MaxTurns
  /\ Launch(child, Child(interview.conv, IF interview.started THEN "resume" ELSE "new"))
  /\ UNCHANGED <<interview, stored, wiping, drawn, amiss>>

\* Claude refuses to create a conversation it has, and to resume one it has not.
Refused(i) == (child[i].mode = "new") = (child[i].conv \in stored)

CreateConversation(i) ==
  /\ child[i].mode = "new" /\ ~Refused(i)
  /\ stored' = stored \union {child[i].conv}
  /\ child' = [child EXCEPT ![i].mode = "created"]
  /\ UNCHANGED <<interview, turn, launched, wiping, drawn, amiss>>

Conversing(i) == child[i].mode # "new" /\ ~Refused(i) /\ ~child[i].result

\* appendMessage: whatever interview there is gets the line.
Say(i) ==
  /\ Conversing(i) /\ interview # NoInterview
  /\ interview' = [interview EXCEPT !.said = @ \union {child[i].conv}]
  /\ UNCHANGED <<turn, child, launched, stored, wiping, drawn, amiss>>

\* The session records a requirement through the interview's own API.
Requirement(i) ==
  /\ Conversing(i) /\ UnderWay
  /\ interview' = [interview EXCEPT !.rows = @ \union {child[i].conv}]
  /\ UNCHANGED <<turn, child, launched, stored, wiping, drawn, amiss>>

\* The result, markCliSessionStarted.
Result(i) ==
  /\ Conversing(i)
  /\ child' = [child EXCEPT ![i].result = TRUE]
  /\ interview' = IF interview = NoInterview THEN interview ELSE [interview EXCEPT !.started = TRUE]
  /\ UNCHANGED <<turn, launched, stored, wiping, drawn, amiss>>

\* handleStopTurn: the turn is over for the map at once, the child when it dies.
StopTurn ==
  /\ turn # 0
  /\ child' = [child EXCEPT ![turn].stopped = TRUE]
  /\ turn' = 0
  /\ UNCHANGED <<interview, launched, stored, wiping, drawn, amiss>>

\* Mutant of ExitChild: the turn is over whoever's it is.
ExitAnyChild(i) ==
  /\ child' = Others(i)
  /\ turn' = 0
  /\ UNCHANGED <<interview, launched, stored, wiping, drawn, amiss>>

\* The child exits, of itself or stopped; a stopped one's turn may be another's by now.
ExitChild(i) ==
  /\ child' = Others(i)
  /\ turn' = IF turn = i THEN 0 ELSE turn
  /\ UNCHANGED <<interview, launched, stored, wiping, drawn, amiss>>

\* A first turn that was refused, as its conversation was made by one that failed
\* later, is retried as a resume.  Nobody looks whether it was stopped.
Retry(i) ==
  /\ child[i].mode = "new" /\ Refused(i)
  /\ Launch(Others(i), Child(child[i].conv, "resume"))
  /\ amiss' = amiss \union (IF child[i].stopped THEN {"retried"} ELSE {})
  /\ UNCHANGED <<interview, stored, wiping, drawn>>

\* The dev server is restarted: its children and its requests go with it.
RestartInterviews ==
  /\ child # <<>> \/ wiping # <<>>
  /\ child' = <<>>
  /\ turn' = 0 /\ wiping' = <<>>
  /\ UNCHANGED <<interview, launched, stored, drawn, amiss>>

InterviewNext ==
  \/ Wipe("start") \/ Wipe("reset") \/ Wiped \/ EndInterview \/ Message \/ StopTurn \/ RestartInterviews
  \/ \E i \in DOMAIN child :
       \/ CreateConversation(i) \/ Say(i) \/ Requirement(i) \/ Result(i)
       \/ ExitChild(i) \/ Retry(i)

InterviewSpec == InterviewInit /\ [][InterviewNext]_interviewVars
---------------------------------------------------------------------------
\* One turn at a time works for the interview there is, and it is the turn the
\* server knows of; what the registry holds was said in the interview's own
\* conversation; and a message to come will find that conversation.  Excepted
\* are a child that outlives its interview, as it was stopped or as a second
\* start overlapped the first, and a stopped first turn that is retried.
OneConversation ==
  amiss = {} =>
    /\ Live \subseteq {turn} \ {0}
    /\ \A i \in Live : UnderWay /\ child[i].conv = interview.conv
    /\ interview # NoInterview =>
         /\ interview.said \union interview.rows \subseteq {interview.conv}
         /\ interview.started => interview.conv \in stored
=============================================================================
