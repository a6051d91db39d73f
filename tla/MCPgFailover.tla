---- MODULE MCPgFailover ----
(* Three members in the order of ha.json: the primary, an asynchronous standby, and the
   synchronous one last, where ties of max() go against it. *)
EXTENDS PgFailover

CONSTANTS db, db1, db2

MCMembers == {db, db1, db2}
MCOrder == <<db, db1, db2>>
MCSync == {db2}
====
