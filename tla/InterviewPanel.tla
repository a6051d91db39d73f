--------------------------- MODULE InterviewPanel ---------------------------
(***************************************************************************)
(* The chat of a mock interview as the browser shows it                     *)
(* (src/InterviewPanel.tsx): the user's line is shown before it is sent,    *)
(* what the interviewer says streams in, and the transcript that App.tsx    *)
(* polls is taken over when it differs by its length, conversation or       *)
(* status, but never while a message is being sent.  Other tabs use the     *)
(* same interview, and a child that was stopped or outlived its interview   *)
(* still adds lines to whatever interview there is (see Interview).         *)
(***************************************************************************)
EXTENDS Naturals, Functions, SequencesExt

CONSTANTS
  PanelBudgets  \* the starts, messages, lines and mishaps of a behaviour, and the polls at a time

ASSUME PanelBudgetsCount ==
  PanelBudgets \subseteq [{"starts", "messages", "lines", "mishaps", "polls"} -> Nat]

VARIABLES
  transcript, \* interview.json: its conversation, status and lines
  talking,    \* whose turn is in flight: this panel's, another tab's, or nobody's
  replying,   \* whether the child of the message being sent, or last sent, runs
  others,     \* whether some other child runs
  beginning,  \* the start under way, and whether it is of this panel
  streamed,   \* what the answer to the message has brought and the panel has not read
  polled,     \* App's interviewInfo
  asking,     \* its polls on their way: what each has read
  adopted,    \* the length, conversation and status that the effect has run for
  messages,   \* the lines shown
  sending,    \* what sendMessage waits for
  trimmed,    \* the line it sends
  flaws,      \* history: what is wrong with the lines shown until they are taken over anew
  ration

serverTalk == <<transcript, talking, others>>
panelSide == <<polled, asking, adopted>>
panelVars == <<serverTalk, replying, beginning, streamed, panelSide, messages, sending, trimmed, flaws, ration>>

NoTalk == [conv |-> 0, status |-> "none", lines |-> <<>>]
KeyOfTalk(t) == <<Len(t.lines), t.conv, t.status>>
Takes(what) == ration[what] > 0 /\ ration' = [ration EXCEPT ![what] = @ - 1]
NewLine(what) == <<what, ration[what]>>

\* appendMessage: whatever interview there is gets the line.
AppendMessage(line) ==
  transcript' = IF transcript = NoTalk THEN NoTalk ELSE [transcript EXCEPT !.lines = Append(@, line)]

-----------------------------------------------------------------------------
(* The panel takes over the transcript that App has polled. *)

\* Mutant of TakesOver: also while a message is being sent.
TakesOverAtOnce(t) ==
  /\ adopted' = KeyOfTalk(t)
  /\ IF adopted' # adopted THEN messages' = t.lines /\ flaws' = {} ELSE UNCHANGED <<messages, flaws>>

TakesOver(t) ==
  /\ adopted' = KeyOfTalk(t)
  /\ IF sending = "no" /\ adopted' # adopted THEN messages' = t.lines /\ flaws' = {} ELSE UNCHANGED <<messages, flaws>>

PollArrives(n) ==
  /\ polled' = asking[n] /\ asking' = RemoveAt(asking, n)
  /\ TakesOver(asking[n])
  /\ UNCHANGED <<serverTalk, replying, beginning, streamed, sending, trimmed, ration>>

\* refreshInterview, by its timer or after a request, has read the server's state.
PollReads ==
  /\ Len(asking) < ration.polls /\ transcript # polled
  /\ asking' = Append(asking, transcript)
  /\ UNCHANGED <<serverTalk, replying, beginning, streamed, polled, adopted, messages, sending, flaws, ration, trimmed>>

\* The panel is closed and opened while it sends: it shows what was polled, and is not sending.
Reopened ==
  /\ sending # "no" /\ Takes("mishaps")
  /\ sending' = "no" /\ streamed' = <<>>
  /\ messages' = polled.lines /\ adopted' = KeyOfTalk(polled) /\ flaws' = {}
  /\ UNCHANGED <<serverTalk, replying, beginning, polled, asking, trimmed>>

-----------------------------------------------------------------------------
(* sendMessage, and the turn it makes. *)

Sends ==
  /\ sending = "no" /\ polled.status = "active" /\ beginning # "here" /\ Takes("messages")
  /\ sending' = "asked"
  /\ trimmed' = NewLine("messages") /\ messages' = Append(messages, trimmed')
  /\ UNCHANGED <<serverTalk, replying, beginning, streamed, panelSide, flaws>>

MayTalk == transcript.status = "active" /\ talking = "none"

\* handleMessage.
Accepted ==
  /\ sending = "asked" /\ MayTalk
  /\ AppendMessage(trimmed) /\ talking' = "own"
  /\ others' = (others \/ replying) /\ replying' = TRUE
  /\ sending' = "open" /\ streamed' = <<>>
  /\ flaws' = IF messages = transcript'.lines THEN flaws ELSE flaws \union {"behind"}
  /\ UNCHANGED <<beginning, panelSide, messages, trimmed, ration>>

\* 409, or the request is lost: the line stays.
Refuses ==
  /\ sending = "asked"
  /\ \/ ~MayTalk /\ UNCHANGED ration
     \/ Takes("mishaps")
  /\ sending' = "no" /\ flaws' = flaws \union {"refused"}
  /\ UNCHANGED <<serverTalk, replying, beginning, streamed, panelSide, messages, trimmed>>

\* The child says something: first the event, then the line.
Speaks ==
  /\ replying /\ Takes("lines")
  /\ streamed' = IF sending = "open" THEN Append(streamed, NewLine("lines")) ELSE streamed
  /\ AppendMessage(NewLine("lines"))
  /\ UNCHANGED <<talking, others, replying, beginning, panelSide, messages, sending, flaws, trimmed>>

\* It exits, with a result or without: then the transcript has a line more, and the stream an error.
Exits ==
  /\ replying /\ replying' = FALSE
  /\ talking' = IF talking = "own" THEN "none" ELSE talking
  /\ \/ UNCHANGED <<transcript, flaws, ration>>
     \/ /\ Takes("mishaps") /\ AppendMessage(NewLine("mishaps"))
        /\ flaws' = IF sending = "open" THEN flaws \union {"unsaid"} ELSE flaws
  /\ UNCHANGED <<others, beginning, streamed, panelSide, messages, sending, trimmed>>

EventRead ==
  /\ sending = "open" /\ streamed # <<>>
  /\ messages' = Append(messages, Head(streamed)) /\ streamed' = Tail(streamed)
  /\ UNCHANGED <<serverTalk, replying, beginning, panelSide, sending, flaws, ration, trimmed>>

\* The stream has ended, or has been cut off.
Sent ==
  /\ sending = "open"
  /\ \/ ~replying /\ streamed = <<>> /\ UNCHANGED <<flaws, ration>>
     \/ Takes("mishaps") /\ flaws' = flaws \union {"broken"}
  /\ sending' = "no" /\ streamed' = <<>>
  /\ UNCHANGED <<serverTalk, replying, beginning, panelSide, messages, trimmed>>

\* handleStopTurn: the child hears of it, and may yet speak.
StopsTurn ==
  /\ talking # "none" /\ talking' = "none"
  /\ UNCHANGED <<transcript, others, replying, beginning, streamed, panelSide, messages, sending, flaws, ration, trimmed>>

-----------------------------------------------------------------------------
(* Starts, ends, and the other tabs. *)

\* startInterview: the wipe, and when docker is done, the interview.  A panel with lines of an interview
\* that App never polled keeps them, as for the effect nothing has changed.
StartPosted(here) ==
  /\ talking = "none" /\ beginning = "no" /\ Takes("starts")
  /\ here => sending = "no" /\ polled.status # "active"
  /\ beginning' = IF here THEN "here" ELSE "elsewhere"
  /\ transcript' = NoTalk
  /\ flaws' = IF sending = "no" /\ (polled = NoTalk => messages = <<>>) THEN flaws ELSE flaws \union {"replaced"}
  /\ UNCHANGED <<talking, others, replying, streamed, panelSide, messages, sending, trimmed>>

Starts ==
  /\ beginning # "no" /\ beginning' = "no"
  /\ transcript' = [conv |-> ration.starts + 1, status |-> "active", lines |-> <<>>]
  /\ IF beginning = "here"
       THEN sending' = "asked" /\ trimmed' = <<"begin", ration.starts>> /\ messages' = <<trimmed'>> /\ flaws' = {}
       ELSE UNCHANGED <<sending, trimmed, messages, flaws>>
  /\ UNCHANGED <<talking, others, replying, streamed, panelSide, ration>>

InterviewEnded ==
  /\ MayTalk /\ transcript' = [transcript EXCEPT !.status = "ended"]
  /\ UNCHANGED <<talking, others, replying, beginning, streamed, panelSide, messages, sending, flaws, ration, trimmed>>

OtherSends ==
  /\ MayTalk /\ Takes("mishaps")
  /\ AppendMessage(NewLine("mishaps")) /\ talking' = "other" /\ others' = TRUE
  /\ flaws' = IF sending = "open" THEN flaws \union {"others"} ELSE flaws
  /\ UNCHANGED <<replying, beginning, streamed, panelSide, messages, sending, trimmed>>
OtherSpeaks ==
  /\ others /\ Takes("lines") /\ AppendMessage(NewLine("lines"))
  /\ flaws' = IF sending = "open" THEN flaws \union {"others"} ELSE flaws
  /\ UNCHANGED <<talking, others, replying, beginning, streamed, panelSide, messages, sending, trimmed>>
OtherExits ==
  /\ others /\ others' = FALSE
  /\ talking' = IF talking = "other" THEN "none" ELSE talking
  /\ UNCHANGED <<transcript, replying, beginning, streamed, panelSide, messages, sending, flaws, ration, trimmed>>

PanelInit ==
  /\ ration \in PanelBudgets
  /\ transcript \in {NoTalk, [conv |-> ration.starts + 1, status |-> "active", lines |-> <<>>]}
  /\ talking = "none" /\ others = FALSE /\ replying = FALSE /\ beginning = "no" /\ streamed = <<>>
  /\ polled = transcript /\ asking = <<>> /\ adopted = KeyOfTalk(transcript)
  /\ messages = <<>> /\ sending = "no" /\ trimmed = <<>> /\ flaws = {}

PanelNext ==
  \/ PollReads \/ Reopened \/ Sends \/ Accepted \/ Refuses \/ Speaks \/ Exits \/ EventRead \/ Sent \/ StopsTurn
  \/ Starts \/ InterviewEnded \/ OtherSends \/ OtherSpeaks \/ OtherExits
  \/ \E n \in DOMAIN asking : PollArrives(n)
  \/ \E here \in BOOLEAN : StartPosted(here)

PanelSpec == PanelInit /\ [][PanelNext]_panelVars
-----------------------------------------------------------------------------
\* No line is shown twice.  Whenever no message is being sent and App has polled the server's
\* transcript, the panel shows its lines: those of a turn have come by its stream, and others have
\* been taken over.  Excepted, until the transcript differs again, are a message that was refused
\* or that was sent without knowing the lines before it, a stream cut off, the line that tells of a
\* failed turn, lines or an interview of others while the message is being sent, and a start while
\* the panel has lines of an interview that App never polled.
PanelAgrees ==
  /\ IsInjective(messages)
  /\ sending = "no" /\ flaws = {} /\ polled = transcript => messages = transcript.lines
=============================================================================
