------------------------------ MODULE Policies ------------------------------
(***************************************************************************)
(* The policies of a connection, circuit breaking and retries or a pool of *)
(* connections, are fields of its arrow in manifest.json, as is what has   *)
(* made the arrow.  An arrow a policy was the first to need has only them, *)
(* and goes with the last of them, whoever else has come to need it.       *)
(***************************************************************************)
EXTENDS Streams

VARIABLE policed   \* the policies: <<from, to, "resilience" or "pool">>
PolicyKind == {"resilience", "pool"}
PoliciesType == policed \subseteq Name \X Name \X PolicyKind /\ bare \subseteq edges

\* A connection of a service, and for a pool to a node of the system.
ValidConnection(f, t, p) ==
  /\ kind[f] \in Standalone \union {"instance"} /\ t \in Nodes /\ f # t
  /\ p = "pool" => kind[t] \notin {"external", "client", "wsclient"}

UpsertPolicy(f, t, p) ==
  /\ Request /\ ValidConnection(f, t, p)
  /\ edges' = edges \union {<<f, t>>}
  /\ bare' = IF <<f, t>> \in edges THEN bare ELSE bare \union {<<f, t>>}
  /\ policed' = policed \union {<<f, t, p>>}
  /\ UNCHANGED <<kind, parent, compose, routes, jobs, pending, mishaps, streamVars>>

DeletePolicy(f, t, p) ==
  LET rest == policed \ {<<f, t, p>>}
      last == <<f, t>> \in bare /\ \A q \in PolicyKind : <<f, t, q>> \notin rest
      needed == \E c \in consumers : c.service = f /\ c.cluster = t
  IN /\ Request /\ <<f, t, p>> \in policed
     /\ policed' = rest
     /\ edges' = IF last THEN edges \ {<<f, t>>} ELSE edges
     /\ bare' = bare \intersect edges'
     /\ mishaps' = IF last /\ needed THEN mishaps \union {"undrawn"} ELSE mishaps
     /\ UNCHANGED <<kind, parent, compose, routes, jobs, pending, streamVars>>

PoliciesNext ==
  \E f \in Nodes, t \in Nodes, p \in PolicyKind : UpsertPolicy(f, t, p) \/ DeletePolicy(f, t, p)

\* The fields of an arrow go with it.
ArrowsKept ==
  /\ bare' = bare \intersect edges'
  /\ policed' = {q \in policed : <<q[1], q[2]>> \in edges'}
=============================================================================
