-------------------------- MODULE SchemaMigrations --------------------------
(***************************************************************************)
(* The database schema and its migrations (db/migrations/versions), the    *)
(* models the application reads and writes it with (db/models, feedback/   *)
(* models.py), and rows that survive both.                                 *)
(*                                                                         *)
(* alembic runs in one transaction (env.py): a command that fails at some  *)
(* revision changes nothing, so that a move by one revision is a step and  *)
(* a longer move several.  A table is a function from its columns to what  *)
(* an INSERT must do about them; a row has the columns that refer to other *)
(* rows and those a migration or a constraint looks at.  Indexes are left  *)
(* out, and so are the UNIQUE constraints, but for the one that 0012 adds  *)
(* to a table with rows, and the backup table of 0012, which nothing reads.*)
(*                                                                         *)
(* 0012 cannot run on the schema that precedes it (see UpgradeFails), yet  *)
(* 0014 to 0017 describe a production database beyond it: the database is  *)
(* empty at first, or at 0013 with the schema they describe.  The rows     *)
(* that 0012 would fold are never folded: the statement that deletes them  *)
(* is the one that fails.                                                  *)
(***************************************************************************)
EXTENDS Naturals, Sequences, FiniteSets, SequencesExt

CONSTANTS
    Given,          \* the rows the application may write, as the current models write them
    MaxDeletes      \* bound: rows deleted by hand

ASSUME MaxDeletesAssumption == MaxDeletes \in Nat

VARIABLES
    revision,       \* number of the last migration applied, 0 for none
    database,       \* tables, foreign keys, accepted audit actions, rules; and rows
    deletes

schemaVars == <<revision, database, deletes>>

HeadRev == 17
Revisions == (1 .. HeadRev) \ {3}
Below(n) == IF n = 4 THEN 2 ELSE n - 1
Above(n) == IF n = 2 THEN 4 ELSE n + 1

\* NOT NULL without a default; with one; nullable.
Table(required, defaulted, nullable) ==
    [c \in required \cup defaulted \cup nullable |->
        IF c \in required THEN "required" ELSE IF c \in defaulted THEN "defaulted" ELSE "nullable"]

Key(table, column, target, onDelete) ==
    [table |-> table, column |-> column, target |-> target, onDelete |-> onDelete]

-----------------------------------------------------------------------------
(* 0001, by the sections of its upgrade().                                 *)

Identity ==
    [users |-> Table({"id", "username", "email", "password_hash"},
                     {"status", "is_super_admin", "attributes", "created_at"}, {}),
     workspaces |-> Table({"id", "name", "owner_id"},
                          {"status", "isolation_level", "config", "created_at"}, {}),
     roles |-> Table({"id", "name"}, {"description", "status", "is_system", "created_at"}, {}),
     permissions |-> Table({"id", "key"}, {"description", "resource_type"}, {})]

Memberships ==
    [role_permissions |-> Table({"role_id", "permission_id"}, {"granted_at"}, {}),
     user_roles |-> Table({"user_id", "role_id", "workspace_id"}, {"granted_at", "joined_at"},
                          {"granted_by", "invited_by"})]

IdentityKeys ==
    {Key("workspaces", "owner_id", "users", "RESTRICT"),
     Key("role_permissions", "role_id", "roles", "CASCADE"),
     Key("role_permissions", "permission_id", "permissions", "CASCADE"),
     Key("user_roles", "user_id", "users", "CASCADE"),
     Key("user_roles", "role_id", "roles", "CASCADE"),
     Key("user_roles", "workspace_id", "workspaces", "CASCADE"),
     Key("user_roles", "granted_by", "users", "SET NULL"),
     Key("user_roles", "invited_by", "users", "SET NULL")}

Corpus ==
    [documents |-> Table({"id", "workspace_id", "name", "format", "owner_id"},
                         {"status", "authority_level", "metadata", "created_at"}, {"deleted_at"}),
     chunks |-> Table({"id", "document_id", "chunk_index", "content", "content_hash"},
                      {"is_parent", "position", "created_at"}, {"parent_chunk_id"}),
     acls |-> Table({"id", "document_id", "permission_key"}, {"granted_at"},
                    {"user_id", "workspace_id", "granted_by"})]

CorpusKeys ==
    {Key("documents", "workspace_id", "workspaces", "CASCADE"),
     Key("documents", "owner_id", "users", "RESTRICT"),
     Key("chunks", "document_id", "documents", "CASCADE"),
     Key("chunks", "parent_chunk_id", "chunks", "CASCADE"),
     Key("acls", "document_id", "documents", "CASCADE"),
     Key("acls", "user_id", "users", "CASCADE"),
     Key("acls", "workspace_id", "workspaces", "CASCADE"),
     Key("acls", "granted_by", "users", "SET NULL")}

Conversations ==
    [conversations |-> Table({"id", "user_id", "workspace_id"}, {"title", "created_at"}, {}),
     messages |-> Table({"id", "conversation_id", "role", "content"}, {"metadata", "created_at"}, {}),
     citations |-> Table({"id", "message_id", "chunk_id", "document_name"}, {"relevance_score"},
                         {"page_no"})]

ConversationKeys ==
    {Key("conversations", "user_id", "users", "CASCADE"),
     Key("conversations", "workspace_id", "workspaces", "CASCADE"),
     Key("messages", "conversation_id", "conversations", "CASCADE"),
     Key("citations", "message_id", "messages", "CASCADE"),
     Key("citations", "chunk_id", "chunks", "CASCADE")}

Feedbacks ==
    [feedback_tags |-> Table({"id", "key", "label"}, {"is_active", "sort_order", "created_at"}, {}),
     feedback_categories |-> Table({"id", "key", "label"},
        {"auto_classify_prompt", "is_active", "sort_order", "created_at"}, {}),
     feedbacks |-> Table({"id", "message_id", "user_id", "score"},
        {"auto_categorized", "comment", "created_at"}, {"reason_tag_id", "category_id"})]

FeedbackKeys ==
    {Key("feedbacks", "message_id", "messages", "CASCADE"),
     Key("feedbacks", "user_id", "users", "CASCADE"),
     Key("feedbacks", "reason_tag_id", "feedback_tags", "SET NULL"),
     Key("feedbacks", "category_id", "feedback_categories", "SET NULL")}

Records ==
    [audit_logs |-> Table({"id", "action"},
        {"retrieved_docs", "prompt_tokens", "completion_tokens", "total_tokens", "latency_ms",
         "blocked", "extra", "ts"}, {"user_id", "workspace_id", "query", "model", "block_reason"}),
     evaluation_results |-> Table({"id", "message_id", "metric_name", "value"}, {"details", "ts"}, {}),
     drift_alerts |-> Table({"id", "category", "baseline", "current"},
        {"triggered_at", "acknowledged"}, {"workspace_id"})]

RecordKeys ==
    {Key("audit_logs", "user_id", "users", "SET NULL"),
     Key("audit_logs", "workspace_id", "workspaces", "SET NULL"),
     Key("evaluation_results", "message_id", "messages", "CASCADE"),
     Key("drift_alerts", "workspace_id", "workspaces", "SET NULL")}

-----------------------------------------------------------------------------
(* What a migration does to the database.                                  *)

\* What f says, and what g says of the rest.
Overlay(f, g) == [x \in DOMAIN f \cup DOMAIN g |-> IF x \in DOMAIN f THEN f[x] ELSE g[x]]

Restrict1(f, gone) == [x \in DOMAIN f \ gone |-> f[x]]

AddTables(d, tables, keys) == [d EXCEPT !.tables = Overlay(tables, @), !.keys = @ \cup keys]

DropTables(d, names) ==
    [d EXCEPT !.tables = Restrict1(@, names),
              !.keys = {k \in @ : k.table \notin names},
              !.rows = {r \in @ : r.table \notin names}]

AddColumns(d, t, columns) == [d EXCEPT !.tables[t] = Overlay(columns, @)]

DropColumns(d, t, names) ==
    [d EXCEPT !.tables[t] = Restrict1(@, names),
              !.keys = {k \in @ : ~(k.table = t /\ k.column \in names)},
              !.rows = {IF r.table = t THEN [r EXCEPT !.vals = Restrict1(@, names)] ELSE r : r \in @}]

Insert(d, rows) == [d EXCEPT !.rows = @ \cup rows]

\* UPDATE t SET c = value(row).
Fill(d, t, c, value(_)) ==
    [d EXCEPT !.rows = {IF r.table = t THEN [r EXCEPT !.vals = Overlay([x \in {c} |-> value(r)], @)] ELSE r : r \in @}]

Row(d, t, id) == CHOOSE r \in d.rows : r.table = t /\ r.id = id

Whitelist8 == {"query", "ingest", "delete", "access_denied", "guardrail_block",
               "feedback_submit", "role_assign", "sensitive_update"}
AuditActions == Whitelist8 \cup {"csat_read", "role_bind", "sensitive_word_update"}

Up0001(d) ==
    AddTables(d, Overlay(Overlay(Identity, Overlay(Memberships, Corpus)),
                         Overlay(Conversations, Overlay(Feedbacks, Records))),
              IdentityKeys \cup CorpusKeys \cup ConversationKeys \cup FeedbackKeys \cup RecordKeys)
Down0001(d) == DropTables(d, DOMAIN d.tables)

DriftColumns == {"kind", "metric_name", "scope", "drift_pct", "severity"}
Up0002(d) == AddColumns(d, "drift_alerts", Table({}, DriftColumns, {}))
Down0002(d) == DropColumns(d, "drift_alerts", DriftColumns)

Up0004(d) == AddColumns(d, "roles", Table({}, {"workspace_scoped"}, {}))
Down0004(d) == DropColumns(d, "roles", {"workspace_scoped"})

SensitiveValues ==
    [sensitive_values |-> Table({"word"}, {"id", "category", "is_preset", "is_active", "added_at"},
                                {"added_by", "last_audit_id"})]
SensitiveValueKeys ==
    {Key("sensitive_values", "added_by", "users", "SET NULL"),
     Key("sensitive_values", "last_audit_id", "audit_logs", "SET NULL")}

\* The default words that come with the table, one row for all of them.
Presets ==
    {[table |-> "sensitive_values", id |-> "preset", vals |-> [added_by |-> "NULL", last_audit_id |-> "NULL"]]}

Up0005(d) == Insert(AddTables(d, SensitiveValues, SensitiveValueKeys), Presets)
Down0005(d) == DropTables(d, {"sensitive_values"})

Up0006(d) == AddColumns(d, "users", Table({}, {}, {"deleted_at"}))
Down0006(d) == DropColumns(d, "users", {"deleted_at"})

Up0007(d) == AddColumns(d, "users", Table({}, {}, {"display_name", "avatar_url"}))
Down0007(d) == DropColumns(d, "users", {"display_name", "avatar_url"})

ApiTokens ==
    [api_tokens |-> Table({"user_id", "name", "token_hash", "token_prefix"}, {"id", "created_at"},
                          {"last_used_at", "expires_at", "revoked_at"})]
Up0008(d) == AddTables(d, ApiTokens, {Key("api_tokens", "user_id", "users", "CASCADE")})
Down0008(d) == DropTables(d, {"api_tokens"})

PasswordResets ==
    [password_reset_audit |-> Table({"user_id"}, {"id", "reset_method", "reset_at"},
                                    {"reset_by", "source_ip"})]
PasswordResetKeys ==
    {Key("password_reset_audit", "user_id", "users", "CASCADE"),
     Key("password_reset_audit", "reset_by", "users", "SET NULL")}
Up0009(d) == AddTables(d, PasswordResets, PasswordResetKeys)

\* Mutant of Down0009: the table is left behind.
Down0009Leaves(d) == d
Down0009(d) == DropTables(d, {"password_reset_audit"})

\* Mutant of Up0010: the second table is forgotten.
Up0010Half(d) ==
    AddColumns(d, "feedback_categories", Table({"name_zh", "is_system"}, {}, {"description"}))

TicketStatuses ==
    [ticket_statuses |-> Table({"key", "name_zh"},
        {"id", "is_terminal", "is_system", "display_order", "created_at"}, {"description", "color"})]
Up0010(d) ==
    AddTables(AddColumns(d, "feedback_categories", Table({"name_zh", "is_system"}, {}, {"description"})),
              TicketStatuses, {})
Down0010(d) ==
    DropColumns(DropTables(d, {"ticket_statuses"}), "feedback_categories",
                {"name_zh", "is_system", "description"})

\* Mutant of Up0011: the trigger is created for DELETE.
Up0011DeleteOnly(d) == [d EXCEPT !.actions = Whitelist8, !.rules = @ \cup {"no_delete"}]
Up0011(d) == [d EXCEPT !.actions = Whitelist8, !.rules = @ \cup {"no_delete", "no_update"}]
Down0011(d) == [d EXCEPT !.actions = AuditActions, !.rules = @ \ {"no_delete", "no_update"}]

\* One feedback of a user for a message.  Older ones of the same pair would be archived and
\* deleted first, by the statement that is refused (UpgradeFails): what is left to model of
\* it are the constraints of the schema that the later migrations start from.
OnePerPair == "uq_feedbacks_message_user"

Up0012(d) == [d EXCEPT !.actions = AuditActions, !.rules = @ \cup {OnePerPair}]
Down0012(d) == [d EXCEPT !.actions = Whitelist8, !.rules = @ \ {OnePerPair}]

Backfill0013(d, chunk) == Row(d, "documents", chunk.vals.document_id).vals.workspace_id

Up0013(d) ==
    Fill([AddColumns(d, "chunks", Table({"workspace_id"}, {}, {}))
            EXCEPT !.keys = @ \cup {Key("chunks", "workspace_id", "workspaces", "CASCADE")}],
         "chunks", "workspace_id", LAMBDA r : Backfill0013(d, r))
Down0013(d) == DropColumns(d, "chunks", {"workspace_id"})

Up0014(d) ==
    LET placed == Fill(d, "feedbacks", "workspace_id", LAMBDA r :
            Row(d, "conversations", Row(d, "messages", r.vals.message_id).vals.conversation_id)
                .vals.workspace_id)
        rated == Fill(placed, "feedbacks", "rating", LAMBDA r : "like")
        columns == AddColumns(rated, "feedbacks",
            Table({"workspace_id"}, {"rating", "attribution_status"}, {"ragas_scores"}))
    IN DropColumns([columns EXCEPT !.keys = @ \cup
                        {Key("feedbacks", "workspace_id", "workspaces", "CASCADE")}],
                   "feedbacks", {"score"})

\* The column score comes back with a default, which it did not have.
Down0014(d) ==
    AddColumns(DropColumns(d, "feedbacks",
                    {"workspace_id", "rating", "attribution_status", "ragas_scores"}),
               "feedbacks", Table({}, {"score"}, {}))

Up0015(d) == AddColumns(d, "feedbacks", Table({}, {}, {"comment"}))
Down0015(d) == AddColumns(d, "feedbacks", Table({}, {"comment"}, {}))

Tickets ==
    [feedback_attributions |-> Table({"feedback_id", "category_id"},
        {"id", "confidence", "created_at"}, {"reasoning", "matched_rule"}),
     feedback_tickets |-> Table({"feedback_id"}, {"id", "status", "created_at", "updated_at"},
        {"assigned_to", "note"})]
TicketKeys ==
    {Key("feedback_attributions", "feedback_id", "feedbacks", "CASCADE"),
     Key("feedback_attributions", "category_id", "feedback_categories", "NO ACTION"),
     Key("feedback_tickets", "feedback_id", "feedbacks", "CASCADE"),
     Key("feedback_tickets", "status", "ticket_statuses", "RESTRICT")}
Up0016(d) == AddTables(d, Tickets, TicketKeys)
Down0016(d) == DropTables(d, {"feedback_attributions", "feedback_tickets"})

Up0017(d) == [d EXCEPT !.rules = @ \cup {"orphan_safety"}]
Down0017(d) == [d EXCEPT !.rules = @ \ {"orphan_safety"}]

Upgraded(d, n) ==
    CASE n = 1 -> Up0001(d) [] n = 2 -> Up0002(d) [] n = 4 -> Up0004(d) [] n = 5 -> Up0005(d)
      [] n = 6 -> Up0006(d) [] n = 7 -> Up0007(d) [] n = 8 -> Up0008(d) [] n = 9 -> Up0009(d)
      [] n = 10 -> Up0010(d) [] n = 11 -> Up0011(d) [] n = 12 -> Up0012(d) [] n = 13 -> Up0013(d)
      [] n = 14 -> Up0014(d) [] n = 15 -> Up0015(d) [] n = 16 -> Up0016(d) [] n = 17 -> Up0017(d)

Downgraded(d, n) ==
    CASE n = 1 -> Down0001(d) [] n = 2 -> Down0002(d) [] n = 4 -> Down0004(d) [] n = 5 -> Down0005(d)
      [] n = 6 -> Down0006(d) [] n = 7 -> Down0007(d) [] n = 8 -> Down0008(d) [] n = 9 -> Down0009(d)
      [] n = 10 -> Down0010(d) [] n = 11 -> Down0011(d) [] n = 12 -> Down0012(d)
      [] n = 13 -> Down0013(d) [] n = 14 -> Down0014(d) [] n = 15 -> Down0015(d)
      [] n = 16 -> Down0016(d) [] n = 17 -> Down0017(d)

Actions(d) == {r.vals.action : r \in {q \in d.rows : q.table = "audit_logs"}}

\* A CHECK is refused by the rows it does not admit.  The backfill of 0012 selects
\* columns of feedbacks that 0014 adds: the statement fails, rows or none.
UpgradeFails(d, n) ==
    \/ n = 11 /\ ~(Actions(d) \subseteq Whitelist8)
    \/ n = 12 /\ ~({"workspace_id", "rating", "ragas_scores", "attribution_status"}
                     \subseteq DOMAIN d.tables["feedbacks"])

\* SET NOT NULL is refused by a NULL.  Rows of audit_logs cannot be removed first.
DowngradeFails(d, n) ==
    \/ n = 12 /\ ~(Actions(d) \subseteq Whitelist8)
    \/ n = 15 /\ \E r \in d.rows : r.table = "feedbacks" /\ r.vals.comment = "NULL"

-----------------------------------------------------------------------------
(* The models: columns written with a value, and columns written with NULL *)
(* when there is none.                                                     *)

Model(given, nullable) == [c \in given \cup nullable |-> IF c \in given THEN "given" ELSE "nullable"]

IdentityModels ==
    [users |-> Model({"id", "username", "email", "password_hash", "status", "is_super_admin",
                      "attributes", "created_at"}, {"display_name", "avatar_url", "deleted_at"}),
     workspaces |-> Model({"id", "name", "owner_id", "status", "isolation_level", "config",
                           "created_at"}, {}),
     api_tokens |-> Model({"id", "user_id", "name", "token_hash", "token_prefix", "created_at"},
                          {"last_used_at", "expires_at", "revoked_at"}),
     password_reset_audit |-> Model({"id", "user_id", "reset_method", "reset_at"},
                                    {"reset_by", "source_ip"})]

RoleModels ==
    [roles |-> Model({"id", "name", "description", "status", "is_system", "workspace_scoped",
                      "created_at"}, {}),
     permissions |-> Model({"id", "key", "description", "resource_type"}, {}),
     role_permissions |-> Model({"role_id", "permission_id", "granted_at"}, {}),
     user_roles |-> Model({"user_id", "role_id", "workspace_id", "granted_at", "joined_at"},
                          {"granted_by", "invited_by"})]

CorpusModels ==
    [documents |-> Model({"id", "workspace_id", "name", "format", "status", "owner_id",
                          "authority_level", "metadata", "created_at"}, {"deleted_at"}),
     chunks |-> Model({"id", "document_id", "workspace_id", "chunk_index", "content", "content_hash",
                       "is_parent", "position", "created_at"}, {"parent_chunk_id"}),
     acls |-> Model({"id", "document_id", "permission_key", "granted_at"},
                    {"user_id", "workspace_id", "granted_by"})]

ConversationModels ==
    [conversations |-> Model({"id", "user_id", "workspace_id", "title", "created_at"}, {}),
     messages |-> Model({"id", "conversation_id", "role", "content", "metadata", "created_at"}, {}),
     citations |-> Model({"id", "message_id", "chunk_id", "document_name", "relevance_score"},
                         {"page_no"})]

RecordModels ==
    [audit_logs |-> Model({"id", "action", "retrieved_docs", "prompt_tokens", "completion_tokens",
                           "total_tokens", "latency_ms", "blocked", "extra", "ts"},
                          {"user_id", "workspace_id", "query", "model", "block_reason"}),
     evaluation_results |-> Model({"id", "message_id", "metric_name", "value", "details", "ts"}, {}),
     drift_alerts |-> Model({"id", "kind", "metric_name", "scope", "category", "baseline", "current",
                             "drift_pct", "severity", "triggered_at", "acknowledged"}, {"workspace_id"}),
     sensitive_values |-> Model({"id", "word", "category", "is_preset", "is_active", "added_at"},
                                {"added_by", "last_audit_id"})]

\* The models of feedback/models.py, with which the service writes.  FeedbackTag is left
\* out: it has a column tag_key that no migration ever creates.
FeedbackModels ==
    [feedback_categories |-> Model({"id", "key", "name_zh", "label", "is_system"}, {"description"}),
     ticket_statuses |-> Model({"id", "key", "name_zh", "is_terminal", "is_system", "display_order"},
                               {"description", "color"}),
     feedbacks |-> Model({"id", "message_id", "user_id", "workspace_id", "rating",
                          "attribution_status"}, {"comment", "ragas_scores"}),
     feedback_attributions |-> Model({"id", "feedback_id", "category_id", "confidence"},
                                     {"reasoning", "matched_rule"}),
     feedback_tickets |-> Model({"id", "feedback_id", "status"}, {"assigned_to", "note"})]

Models == Overlay(Overlay(IdentityModels, Overlay(RoleModels, CorpusModels)),
                  Overlay(ConversationModels, Overlay(RecordModels, FeedbackModels)))

\* Columns through which a row belongs to another: NOT NULL in every table they are in.
Owners ==
    [documents |-> {"workspace_id"}, chunks |-> {"document_id", "workspace_id"},
     conversations |-> {"workspace_id"}, messages |-> {"conversation_id"},
     feedbacks |-> {"message_id", "user_id", "workspace_id"}]

\* Rows have columns of their models.  The indexer gives a chunk the workspace of its
\* document, and submit() refuses a feedback in another workspace than its conversation's.
ASSUME GivenAssumption ==
    /\ \A r \in Given :
          /\ DOMAIN r = {"table", "id", "vals"}
          /\ r.table \in DOMAIN Models /\ DOMAIN r.vals \subseteq DOMAIN Models[r.table]
          /\ r.table \in DOMAIN Owners =>
                \A c \in Owners[r.table] : c \in DOMAIN r.vals /\ r.vals[c] # "NULL"
    /\ \A r \in Given, p \in Given :
          r.table = "chunks" /\ p.table = "documents" /\ p.id = r.vals.document_id =>
              r.vals.workspace_id = p.vals.workspace_id
    /\ \A r \in Given, m \in Given, c \in Given :
          /\ r.table = "feedbacks" /\ m.table = "messages" /\ m.id = r.vals.message_id
          /\ c.table = "conversations" /\ c.id = m.vals.conversation_id
          => r.vals.workspace_id = c.vals.workspace_id

\* Can rows of the model be written to, and read from, the table?
Fits(tables, t) ==
    /\ t \in DOMAIN tables
    /\ \A c \in DOMAIN Models[t] :
          /\ c \in DOMAIN tables[t]
          /\ Models[t][c] = "nullable" => tables[t][c] = "nullable"
    /\ \A c \in DOMAIN tables[t] : tables[t][c] = "required" => c \in DOMAIN Models[t]

-----------------------------------------------------------------------------
\* Rules are the triggers on audit_logs and the UNIQUE constraint on feedbacks.
Nothing0 == [tables |-> <<>>, keys |-> {}, actions |-> AuditActions, rules |-> {}, rows |-> {}]

\* The schema of each revision, by the upgrades alone.
Schemas[n \in 0 .. HeadRev] ==
    IF n = 0 THEN Nothing0
    ELSE IF n \in Revisions THEN Upgraded(Schemas[n - 1], n) ELSE Schemas[n - 1]
Schema(n) == Schemas[n]

SchemaInit ==
    /\ revision \in {0, 13}
    /\ database = Schema(revision)
    /\ deletes = 0

\* alembic upgrade, by one revision.
Upgrade ==
    /\ revision < HeadRev
    /\ ~UpgradeFails(database, Above(revision))
    /\ revision' = Above(revision)
    /\ database' = Upgraded(database, Above(revision))
    /\ UNCHANGED deletes

Downgrade ==
    /\ revision > 0
    /\ ~DowngradeFails(database, revision)
    /\ revision' = Below(revision)
    /\ database' = Downgraded(database, revision)
    /\ UNCHANGED deletes

\* Which rows of the database does a foreign key of r refer to, among those with a value?
References(d, r) == {k \in d.keys : k.table = r.table /\ k.column \in DOMAIN r.vals
                                        /\ r.vals[k.column] # "NULL"}
Refers(k, r, p) == p.table = k.target /\ p.id = r.vals[k.column]

SamePair(q, r) == q.vals.message_id = r.vals.message_id /\ q.vals.user_id = r.vals.user_id

\* The application writes a row with its current model.
Write(r) ==
    /\ Fits(database.tables, r.table)
    /\ ~\E q \in database.rows : q.table = r.table /\ q.id = r.id
    /\ r.table = "audit_logs" => r.vals.action \in database.actions
    /\ OnePerPair \in database.rules /\ r.table = "feedbacks" =>
          ~\E q \in database.rows : q.table = "feedbacks" /\ SamePair(q, r)
    /\ \A k \in References(database, r) : \E p \in database.rows : Refers(k, r, p)
    /\ database' = [database EXCEPT !.rows = @ \cup {r}]
    /\ UNCHANGED <<revision, deletes>>

\* What goes with the rows: ON DELETE CASCADE, again and again.
Cascade(d, gone) ==
    gone \cup {q \in d.rows : \E k \in References(d, q) :
                    k.onDelete = "CASCADE" /\ \E p \in gone : Refers(k, q, p)}
Doomed(d, r) ==
    LET closure[gone \in SUBSET d.rows] ==
            IF Cascade(d, gone) = gone THEN gone ELSE closure[Cascade(d, gone)]
    IN closure[{r}]

\* A row is deleted by hand (the application deletes users and workspaces softly).
Delete(r) ==
    LET gone == Doomed(database, r)
        hit(onDelete) == {q \in database.rows \ gone : \E k \in References(database, q) :
                             k.onDelete \in onDelete /\ \E p \in gone : Refers(k, q, p)}
        cleared(q) == [q EXCEPT !.vals = [c \in DOMAIN @ |->
                          IF \E k \in References(database, q) : k.column = c /\ k.onDelete = "SET NULL"
                                                     /\ \E p \in gone : Refers(k, q, p)
                          THEN "NULL" ELSE @[c]]]
        logs == {q \in database.rows : q.table = "audit_logs"}
    IN /\ r \in database.rows /\ deletes < MaxDeletes
       /\ hit({"RESTRICT", "NO ACTION"}) = {}
       /\ "no_delete" \in database.rules => gone \cap logs = {}
       /\ "no_update" \in database.rules => hit({"SET NULL"}) \cap logs = {}
       /\ database' = [database EXCEPT !.rows =
              {IF q \in hit({"SET NULL"}) THEN cleared(q) ELSE q : q \in @ \ gone}]
       /\ deletes' = deletes + 1
       /\ UNCHANGED revision

SchemaNext ==
    \/ Upgrade \/ Downgrade
    \/ \E r \in Given : Write(r)
    \/ \E r \in database.rows : Delete(r)

SchemaSpec == SchemaInit /\ [][SchemaNext]_schemaVars

-----------------------------------------------------------------------------
(* Properties                                                              *)

\* Type invariant: rows have the columns of their tables that are tracked, and ids.
SchemaTypeOK ==
    /\ revision \in Revisions \cup {0}
    /\ database.actions \in {Whitelist8, AuditActions}
    /\ database.rules \subseteq {"no_delete", "no_update", "orphan_safety", OnePerPair}
    /\ \A k \in database.keys : k.table \in DOMAIN database.tables /\ k.target \in DOMAIN database.tables
    /\ \A r \in database.rows : r.table \in DOMAIN database.tables
    /\ deletes \in 0 .. MaxDeletes

\* Each downgrade() takes back what its upgrade() did, whatever rows there are: however a
\* revision is reached, upwards or downwards, its schema is the same.  (The exception is
\* the default that the column score comes back with.)
RevisionIsSchema ==
    LET shape(d) == [d EXCEPT !.rows = {}, !.tables =
            [t \in DOMAIN @ |-> [c \in DOMAIN @[t] |->
                IF t = "feedbacks" /\ c = "score" THEN "any" ELSE @[t][c]]]]
    IN shape(database) = shape(Schema(revision))

\* "CLOSES a schema drift" (0010, 0014, 0015, 0016): at the head every model can write a
\* row with the values it leaves open, and read every column it has.
HeadFitsModels == revision = HeadRev => \A t \in DOMAIN Models : Fits(database.tables, t)

\* Every column through which the models refer to another row refers to one that exists,
\* also after a backfill and after a row has been deleted.
RowsReferToRows ==
    \A r \in database.rows :
        \A k \in Schema(HeadRev).keys \cup {Key("chunks", "document_id", "documents", "CASCADE")} :
            k.table = r.table /\ k.column \in DOMAIN r.vals /\ r.vals[k.column] # "NULL" =>
                \E p \in database.rows : Refers(k, r, p)

\* A chunk is searched in the workspace of its document, a feedback counted in that of its
\* conversation: the backfills of 0013 and 0014 give old rows what new rows are given.
BackfillsAgree ==
    \A r \in database.rows :
        "workspace_id" \in DOMAIN r.vals =>
            /\ r.table = "chunks" =>
                  r.vals.workspace_id = Row(database, "documents", r.vals.document_id).vals.workspace_id
            /\ r.table = "feedbacks" =>
                  r.vals.workspace_id =
                    Row(database, "conversations",
                        Row(database, "messages", r.vals.message_id).vals.conversation_id)
                        .vals.workspace_id

\* Whatever sequence of upgrades, downgrades and deletions leads to it, a database is one
\* the models of this revision work with: its tables and its rows are as they expect them.
SchemaSound == RevisionIsSchema /\ HeadFitsModels /\ RowsReferToRows /\ BackfillsAgree

\* "Append-only" (0011): as long as the migration is in force no row of audit_logs changes
\* or goes, not even by ON DELETE SET NULL when its user is deleted.
AuditRowsStand ==
    [][revision >= 11 /\ revision' >= 11 =>
        {r \in database.rows : r.table = "audit_logs"} \subseteq database'.rows]_schemaVars

\* "alembic upgrade head" (alembic.ini): no revision fails on a database to which nothing but
\* the migrations themselves has written.
EmptyDatabaseUpgrades ==
    database.rows \subseteq Presets /\ revision < HeadRev => ~UpgradeFails(database, Above(revision))
=============================================================================
