------------------------------ MODULE SchemaMC ------------------------------
(* Rows for the runs of SchemaMigrations, and the start of a new database.  *)
EXTENDS SchemaMigrations

\* Rows of every table with a foreign key that matters
Stored(t, i, v) == [table |-> t, id |-> i, vals |-> v]

SampleRows ==
    {Stored("users", "ann", <<>>), Stored("users", "bob", <<>>),
     Stored("workspaces", "hq", [owner_id |-> "bob"]),
     Stored("workspaces", "lab", [owner_id |-> "bob"]),
     Stored("documents", "manual", [workspace_id |-> "hq", owner_id |-> "ann"]),
     Stored("documents", "paper", [workspace_id |-> "lab", owner_id |-> "bob"]),
     Stored("chunks", "c1", [document_id |-> "manual", workspace_id |-> "hq"]),
     Stored("chunks", "c2", [document_id |-> "paper", workspace_id |-> "lab"]),
     Stored("conversations", "talk", [user_id |-> "ann", workspace_id |-> "hq"]),
     Stored("messages", "m1", [conversation_id |-> "talk"]),
     Stored("feedbacks", "f1", [message_id |-> "m1", user_id |-> "ann", workspace_id |-> "hq",
                                rating |-> "dislike", comment |-> "NULL"]),
     Stored("feedbacks", "f2", [message_id |-> "m1", user_id |-> "ann", workspace_id |-> "hq",
                                rating |-> "like", comment |-> "NULL"]),
     Stored("audit_logs", "a1", [user_id |-> "ann", action |-> "query"]),
     Stored("audit_logs", "a2", [user_id |-> "bob", action |-> "role_bind"])}

\* Alembic on a database that it has never seen, and nothing else to start from.
FreshSpec == SchemaInit /\ revision = 0 /\ [][SchemaNext]_schemaVars
=============================================================================
