---------------------------- MODULE ConsoleViews ----------------------------
(***************************************************************************)
(* What the diagram of a system shows (src/App.tsx).  It polls the manifest *)
(* and, each by a timer of its own, a dozen sources besides: some for the   *)
(* whole system, some only while the manifest it has calls for them, some   *)
(* once for every id in it.  A poll is asked whether or not the one before  *)
(* has been answered, the server reads what it tells of at its own pace,    *)
(* and a poll of an effect that has been cleaned up is not believed.        *)
(* A behaviour is about the manifest and one such source.                   *)
(***************************************************************************)
EXTENDS Naturals, FiniteSets, SequencesExt

CONSTANTS
  Places,    \* for each kind of source, "plain", "gated", "keyed", "merged" and "nodes", the ids
             \* that a manifest may name, or the CUSTOM_RUNTIMES
  Whole,     \* stands for all of the system, in a source that is one
  NoAnswer,  \* a request that failed
  MaxPolls,  \* bound: the polls on their way when a timer asks
  MaxEdition, \* bound: the editions of the manifest
  MaxFigure  \* bound: the numbers that the server has, for each kind of source

ASSUME PlacesDiffer ==
  /\ DOMAIN Places \subseteq {"plain", "gated", "keyed", "merged", "nodes"}
  /\ \A s \in DOMAIN Places : Whole \notin Places[s]

VARIABLES
  source,    \* which kind it is
  text,      \* manifest.json: the ids it has, and which edition it is
  figures,   \* what the server has of each id and of the whole, by number
  manifest,  \* the manifest shown, of edition 0 before there is one
  view,      \* what the source's state has of each id
  renewed,   \* whether it is of the effect that runs now, and not of one before
  polls,     \* the polls on their way, in the order they were asked
  asOf,      \* history: of the manifest and the source, which have had an answer without an error
             \* to a poll asked after the server's last change
  slow       \* history: whether a poll was asked before the one of the same effect had its answer

viewVars == <<source, text, figures, manifest, view, renewed, polls, asOf, slow>>
serverSide == <<text, figures>>

Manifest(ids, n) == [ids |-> ids, edition |-> n]

\* The ids a source is polled for, under the manifest m, and what its effect depends on.
KeyOf(m) ==
  CASE source = "plain" -> {Whole}
    [] source = "gated" -> IF m.ids # {} THEN {Whole} ELSE {}
    [] source = "merged" -> Places[source]
    [] source \in {"keyed", "nodes"} -> m.ids
Depends(m) == IF source = "nodes" THEN m.edition ELSE KeyOf(m)

\* A gated or keyed effect without anything to poll for empties its state.
Shut(m) == source \in {"gated", "keyed"} /\ KeyOf(m) = {}
Runs(m) == ~Shut(m) /\ (source = "nodes" => m.edition # 0)

Poll(of, ids) == [of |-> of, todo |-> ids, got |-> <<>>, cancelled |-> FALSE, latest |-> TRUE]
PollsOf(of) == {n \in DOMAIN polls : polls[n].of = of /\ ~polls[n].cancelled}
Answer1(p, i, v) ==
  LET asked == [p EXCEPT !.todo = @ \ {i}]
  IN [asked EXCEPT !.got = [j \in DOMAIN p.got \union {i} |-> IF j = i THEN v ELSE p.got[j]]]
Failing(p) == {i \in DOMAIN p.got : p.got[i] = NoAnswer}

\* A timer asks again.
Ticks(of, ids) ==
  /\ Len(polls) < MaxPolls
  /\ polls' = Append(polls, Poll(of, ids))
  /\ slow' = (slow \/ PollsOf(of) # {})
  /\ UNCHANGED <<source, serverSide, manifest, view, renewed, asOf>>
ManifestTicks == Ticks("manifest", {Whole})
ViewTicks == Runs(manifest) /\ Ticks("view", KeyOf(manifest))

\* The server answers one request of a poll: an id that the manifest has not is an error.
Reads(n, i) ==
  LET p == polls[n]
      known == p.of = "view" /\ source = "keyed" => i \in text.ids
  IN /\ i \in p.todo
     /\ \E v \in {NoAnswer} \union (IF ~known THEN {} ELSE IF p.of = "manifest" THEN {text} ELSE {figures[i]}) :
          polls' = [polls EXCEPT ![n] = Answer1(p, i, v)]
     /\ UNCHANGED <<source, serverSide, manifest, view, renewed, asOf, slow>>

\* React cleans the effect up and runs it anew, which polls at once.
Cleaned(ps) == [n \in DOMAIN ps |-> IF ps[n].of = "view" THEN [ps[n] EXCEPT !.cancelled = TRUE] ELSE ps[n]]

\* A text that is the one shown, or an error, changes nothing.
ManifestReturns(n) ==
  LET p == polls[n]
      m == p.got[Whole]
      others == RemoveAt(polls, n)
      since == IF p.latest THEN {"manifest"} ELSE {}
  IN /\ p.of = "manifest" /\ p.todo = {}
     /\ IF m \in {NoAnswer, manifest}
          THEN /\ polls' = others
               /\ asOf' = asOf \union (IF m = NoAnswer THEN {} ELSE since)
               /\ UNCHANGED <<manifest, view, renewed>>
          ELSE /\ manifest' = m
               /\ IF Depends(m) = Depends(manifest)
                    THEN /\ polls' = others
                         /\ asOf' = asOf \union since
                         /\ UNCHANGED <<view, renewed>>
                    ELSE /\ polls' = Cleaned(others) \o (IF Runs(m) THEN <<Poll("view", KeyOf(m))>> ELSE <<>>)
                         /\ view' = IF Shut(m) THEN <<>> ELSE view
                         /\ renewed' = Shut(m)
                         /\ asOf' = (asOf \ {"view"}) \union since
     /\ UNCHANGED <<source, serverSide, slow>>

\* What a source shows after a poll: one that is whole keeps what it had when it fails, one that
\* asks for each id leaves out those that failed, and pollSystem shows a node without figures.
After(p) ==
  CASE source \in {"plain", "gated"} -> IF Failing(p) = {} THEN p.got ELSE view
    [] source \in {"keyed", "merged"} -> [i \in DOMAIN p.got \ Failing(p) |-> p.got[i]]
    [] source = "nodes" -> p.got

ViewReturns(n) ==
  LET p == polls[n]
      whole == source \in {"plain", "gated"}
  IN /\ p.of = "view" /\ p.todo = {}
     /\ polls' = RemoveAt(polls, n)
     /\ IF ~p.cancelled
          THEN /\ view' = After(p)
               /\ renewed' = (renewed \/ ~whole \/ Failing(p) = {})
               /\ asOf' = (IF whole \/ Failing(p) = {} THEN asOf ELSE asOf \ {"view"})
                          \union (IF p.latest /\ Failing(p) = {} THEN {"view"} ELSE {})
          ELSE UNCHANGED <<view, renewed, asOf>>
     /\ UNCHANGED <<source, serverSide, manifest, slow>>

\* The server's state changes.
Changes == polls' = [n \in DOMAIN polls |-> [polls[n] EXCEPT !.latest = FALSE]] /\ asOf' = {}
ManifestWritten(ids) ==
  /\ text.edition < MaxEdition /\ Changes
  /\ text' = Manifest(ids, text.edition + 1)
  /\ UNCHANGED <<source, figures, manifest, view, renewed, slow>>
FigureChanges(i) ==
  /\ figures[i] < MaxFigure[source] /\ Changes
  /\ figures' = [figures EXCEPT ![i] = @ + 1]
  /\ UNCHANGED <<source, text, manifest, view, renewed, slow>>

\* The page has been opened: the effects have run once, and nothing is shown.
ViewsInit ==
  /\ source \in DOMAIN Places
  /\ \E ids \in SUBSET Places[source] : text = Manifest(ids, 1)
  /\ figures = [i \in Places[source] \union {Whole} |-> 1]
  /\ manifest = Manifest({}, 0) /\ view = <<>> /\ renewed = FALSE
  /\ polls = <<Poll("manifest", {Whole})>> \o (IF Runs(manifest) THEN <<Poll("view", KeyOf(manifest))>> ELSE <<>>)
  /\ asOf = {} /\ slow = FALSE

ViewsNext ==
  \/ ManifestTicks \/ ViewTicks
  \/ \E n \in DOMAIN polls :
       \/ ManifestReturns(n) \/ ViewReturns(n)
       \/ \E i \in Places[source] \union {Whole} : Reads(n, i)
  \/ \E ids \in SUBSET Places[source] : ManifestWritten(ids)
  \/ \E i \in KeyOf(text) : FigureChanges(i)

ViewsSpec == ViewsInit /\ [][ViewsNext]_viewVars
-----------------------------------------------------------------------------
\* The diagram looks figures up by the ids of the manifest it shows: a source that this manifest
\* does not call for has nothing, and once a poll of the effect that runs has been answered, none
\* is of an id that went with an earlier manifest.
NothingLeftBehind ==
  /\ Shut(manifest) => view = <<>>
  /\ renewed => DOMAIN view \subseteq KeyOf(manifest)
  /\ renewed /\ source = "nodes" => DOMAIN view = KeyOf(manifest)

\* Unless an answer took longer than the timer, the first polls that are asked after the server's
\* last change and fail nowhere bring the diagram up to date, whatever changed, failed and was
\* cancelled before, and nothing that comes later takes it back.
CatchesUp ==
  ~slow =>
    /\ "manifest" \in asOf => manifest = text
    /\ "manifest" \in asOf /\ (Shut(manifest) \/ "view" \in asOf) =>
         view = [i \in KeyOf(text) |-> figures[i]]

ViewsHold == NothingLeftBehind /\ CatchesUp
=============================================================================
