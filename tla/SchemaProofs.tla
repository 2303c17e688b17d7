---------------------------- MODULE SchemaProofs ----------------------------
(***************************************************************************)
(* Theorems about the migrations of the database schema and the rows that  *)
(* live through them, for any rows the application writes.                 *)
(*                                                                         *)
(* The schema of every revision is worked out once (Schemas is a function  *)
(* of the revision), each migration is shown to lead from the schema of    *)
(* one revision to that of the next or the one before, whatever the rows,  *)
(* and then every migration, write and deletion to keep what RowsHold says *)
(* of the rows.                                                            *)
(***************************************************************************)
EXTENDS SchemaMigrations, QueueLemmas

-----------------------------------------------------------------------------
(* The schema                                                              *)

\* The recursion that builds the schema of each revision from the one before it has a
\* solution: it is found by going through the revisions.
LEMMA SchemasBuilt ==
    Schemas = [n \in 0 .. HeadRev |->
                 IF n = 0 THEN Nothing0
                 ELSE IF n \in Revisions THEN Upgraded(Schemas[n - 1], n) ELSE Schemas[n - 1]]
<1> DEFINE Next(f, n) == IF n = 0 THEN Nothing0
                         ELSE IF n \in Revisions THEN Upgraded(f[n - 1], n) ELSE f[n - 1]
<1>1. PICK s1 : s1 = Upgraded(Nothing0, 1) OBVIOUS
<1>2. PICK s2 : s2 = Upgraded(s1, 2) OBVIOUS
<1>4. PICK s4 : s4 = Upgraded(s2, 4) OBVIOUS
<1>5. PICK s5 : s5 = Upgraded(s4, 5) OBVIOUS
<1>6. PICK s6 : s6 = Upgraded(s5, 6) OBVIOUS
<1>7. PICK s7 : s7 = Upgraded(s6, 7) OBVIOUS
<1>8. PICK s8 : s8 = Upgraded(s7, 8) OBVIOUS
<1>9. PICK s9 : s9 = Upgraded(s8, 9) OBVIOUS
<1>10. PICK s10 : s10 = Upgraded(s9, 10) OBVIOUS
<1>11. PICK s11 : s11 = Upgraded(s10, 11) OBVIOUS
<1>12. PICK s12 : s12 = Upgraded(s11, 12) OBVIOUS
<1>13. PICK s13 : s13 = Upgraded(s12, 13) OBVIOUS
<1>14. PICK s14 : s14 = Upgraded(s13, 14) OBVIOUS
<1>15. PICK s15 : s15 = Upgraded(s14, 15) OBVIOUS
<1>16. PICK s16 : s16 = Upgraded(s15, 16) OBVIOUS
<1>17. PICK s17 : s17 = Upgraded(s16, 17) OBVIOUS
<1> DEFINE built == [n \in 0 .. 17 |->
                       IF n = 0 THEN Nothing0 ELSE IF n = 1 THEN s1 ELSE IF n \in 2 .. 3 THEN s2
                       ELSE IF n = 4 THEN s4 ELSE IF n = 5 THEN s5 ELSE IF n = 6 THEN s6
                       ELSE IF n = 7 THEN s7 ELSE IF n = 8 THEN s8 ELSE IF n = 9 THEN s9
                       ELSE IF n = 10 THEN s10 ELSE IF n = 11 THEN s11 ELSE IF n = 12 THEN s12
                       ELSE IF n = 13 THEN s13 ELSE IF n = 14 THEN s14 ELSE IF n = 15 THEN s15
                       ELSE IF n = 16 THEN s16 ELSE s17]
<1>18. ASSUME NEW n \in 0 .. HeadRev PROVE built[n] = Next(built, n)
  <2>1. CASE n \in 0 .. 8
    BY <1>1, <1>2, <1>4, <1>5, <1>6, <1>7, <1>8, <2>1 DEF HeadRev, Revisions
  <2>2. CASE n \in 9 .. 17
    BY <1>9, <1>10, <1>11, <1>12, <1>13, <1>14, <1>15, <1>16, <1>17, <2>2 DEF HeadRev, Revisions
  <2>3. QED
    BY <2>1, <2>2 DEF HeadRev
<1>19. built = [n \in 0 .. HeadRev |-> built[n]]
  BY DEF HeadRev
<1> HIDE DEF built
<1>20. \E f : f = [n \in 0 .. HeadRev |-> Next(f, n)]
  <2>1. built = [n \in 0 .. HeadRev |-> Next(built, n)]
    BY <1>18, <1>19
  <2>2. QED
    BY <2>1
<1>21. QED
  BY <1>20 DEF Schemas

IsDatabase(d) == DOMAIN d = {"tables", "keys", "actions", "rules", "rows"}

AppendOnly == {"no_delete", "no_update"}

AuditRows(d) == {r \in d.rows : r.table = "audit_logs"}

\* e is a database with the rules of d, in which the rows of audit_logs still are.
Preserves(d, e) ==
    IsDatabase(e) /\ e.rules = d.rules /\ AuditRows(d) \subseteq e.rows

LEMMA PreservesTwice ==
    ASSUME NEW d, NEW e, NEW f, Preserves(d, e), Preserves(e, f)
    PROVE  Preserves(d, f)
  BY DEF Preserves, AuditRows

LEMMA AddTablesPreserves ==
    ASSUME NEW d, IsDatabase(d), NEW tables, NEW keys
    PROVE  Preserves(d, AddTables(d, tables, keys))
  BY DEF Preserves, AddTables, IsDatabase, AuditRows

LEMMA InsertPreserves ==
    ASSUME NEW d, IsDatabase(d), NEW rows
    PROVE  Preserves(d, Insert(d, rows))
  BY DEF Preserves, Insert, IsDatabase, AuditRows

LEMMA AddColumnsPreserves ==
    ASSUME NEW d, IsDatabase(d), NEW t, NEW columns
    PROVE  Preserves(d, AddColumns(d, t, columns))
  BY DEF Preserves, AddColumns, IsDatabase, AuditRows

LEMMA DropTablesPreserves ==
    ASSUME NEW d, IsDatabase(d), NEW names
    PROVE  /\ IsDatabase(DropTables(d, names))
           /\ "audit_logs" \notin names => Preserves(d, DropTables(d, names))
  BY DEF Preserves, DropTables, IsDatabase, AuditRows

LEMMA DropColumnsPreserves ==
    ASSUME NEW d, IsDatabase(d), NEW t, t # "audit_logs", NEW names
    PROVE  Preserves(d, DropColumns(d, t, names))
<1> DEFINE image(r) == IF r.table = t THEN [r EXCEPT !.vals = Restrict1(r.vals, names)] ELSE r
<1>1. /\ IsDatabase(DropColumns(d, t, names)) /\ DropColumns(d, t, names).rules = d.rules
      /\ DropColumns(d, t, names).rows = {image(r) : r \in d.rows}
  BY DEF DropColumns, IsDatabase
<1>2. ASSUME NEW r \in AuditRows(d) PROVE r \in d.rows /\ r = image(r)
  BY DEF AuditRows
<1>3. QED
  BY <1>1, <1>2 DEF Preserves

LEMMA AddKeyPreserves ==
    ASSUME NEW d, IsDatabase(d), NEW key
    PROVE  Preserves(d, [d EXCEPT !.keys = @ \cup {key}])
  BY DEF Preserves, IsDatabase, AuditRows

LEMMA FeedbacksRated ==
    ASSUME NEW d, IsDatabase(d)
    PROVE  Preserves(d, Fill(d, "feedbacks", "rating", LAMBDA r : "like"))
<1> DEFINE f == Fill(d, "feedbacks", "rating", LAMBDA r : "like")
           image(r) == IF r.table = "feedbacks"
                       THEN [r EXCEPT !.vals = Overlay([x \in {"rating"} |-> "like"], @)] ELSE r
<1>1. IsDatabase(f) /\ f.rules = d.rules /\ f.rows = {image(r) : r \in d.rows}
  BY DEF Fill, IsDatabase
<1>2. ASSUME NEW r \in AuditRows(d) PROVE r \in d.rows /\ r = image(r)
  BY DEF AuditRows
<1>3. QED
  BY <1>1, <1>2 DEF Preserves

LEMMA Preserves0013 == ASSUME NEW d, IsDatabase(d) PROVE Preserves(d, Up0013(d))
<1>1. PICK e : e = AddColumns(d, "chunks", Table({"workspace_id"}, {}, {}))
  OBVIOUS
<1>2. PICK f : f = [e EXCEPT !.keys = @ \cup {Key("chunks", "workspace_id", "workspaces", "CASCADE")}]
  OBVIOUS
<1>3. Preserves(d, e) /\ IsDatabase(e)
  BY <1>1, AddColumnsPreserves DEF Preserves
<1>4. Preserves(e, f) /\ IsDatabase(f)
  BY <1>2, <1>3, AddKeyPreserves DEF Preserves
<1> DEFINE image(r) == IF r.table = "chunks"
                       THEN [r EXCEPT !.vals = Overlay([x \in {"workspace_id"} |-> Backfill0013(d, r)], @)] ELSE r
<1>5. Up0013(d) = [f EXCEPT !.rows = {image(r) : r \in f.rows}]
  BY <1>1, <1>2 DEF Up0013, Fill
<1>6. Preserves(f, Up0013(d))
  <2>1. /\ IsDatabase(Up0013(d)) /\ Up0013(d).rules = f.rules
        /\ Up0013(d).rows = {image(r) : r \in f.rows}
    BY <1>4, <1>5 DEF IsDatabase
  <2>2. ASSUME NEW r \in AuditRows(f) PROVE r \in f.rows /\ r = image(r)
    BY DEF AuditRows
  <2>3. QED
    BY <2>1, <2>2 DEF Preserves
<1>7. QED
  BY <1>3, <1>4, <1>6, PreservesTwice

LEMMA Preserves0014 == ASSUME NEW d, IsDatabase(d) PROVE Preserves(d, Up0014(d))
<1>1. PICK placed : placed = Fill(d, "feedbacks", "workspace_id", LAMBDA r :
          Row(d, "conversations", Row(d, "messages", r.vals.message_id).vals.conversation_id)
              .vals.workspace_id)
  OBVIOUS
<1>2. PICK rated : rated = Fill(placed, "feedbacks", "rating", LAMBDA r : "like")
  OBVIOUS
<1>3. PICK columns : columns = AddColumns(rated, "feedbacks",
          Table({"workspace_id"}, {"rating", "attribution_status"}, {"ragas_scores"}))
  OBVIOUS
<1>4. PICK keyed : keyed = [columns EXCEPT !.keys =
          @ \cup {Key("feedbacks", "workspace_id", "workspaces", "CASCADE")}]
  OBVIOUS
<1>5. Preserves(d, placed) /\ IsDatabase(placed)
  <2> DEFINE image(r) == IF r.table = "feedbacks"
                         THEN [r EXCEPT !.vals = Overlay([x \in {"workspace_id"} |->
                                  Row(d, "conversations",
                                      Row(d, "messages", r.vals.message_id).vals.conversation_id)
                                          .vals.workspace_id], @)] ELSE r
  <2>1. placed = [d EXCEPT !.rows = {image(r) : r \in d.rows}]
    BY <1>1 DEF Fill
  <2>2. IsDatabase(placed) /\ placed.rules = d.rules /\ placed.rows = {image(r) : r \in d.rows}
    BY <2>1 DEF IsDatabase
  <2>3. ASSUME NEW r \in AuditRows(d) PROVE r \in d.rows /\ r = image(r)
    BY DEF AuditRows
  <2>4. QED
    BY <2>2, <2>3 DEF Preserves
<1>6. Preserves(placed, rated) /\ IsDatabase(rated)
  BY <1>2, <1>5, FeedbacksRated DEF Preserves
<1>7. Preserves(rated, columns) /\ IsDatabase(columns)
  BY <1>3, <1>6, AddColumnsPreserves DEF Preserves
<1>8. Preserves(columns, keyed) /\ IsDatabase(keyed)
  BY <1>4, <1>7, AddKeyPreserves DEF Preserves
<1>9. Up0014(d) = DropColumns(keyed, "feedbacks", {"score"})
  BY <1>1, <1>2, <1>3, <1>4 DEF Up0014, Fill
<1>10. Preserves(keyed, Up0014(d))
  BY <1>8, <1>9, DropColumnsPreserves
<1>11. QED
  BY <1>5, <1>6, <1>7, <1>8, <1>10, PreservesTwice

\* An upgrade preserves the rules and the audit rows, but for 0011, which creates the
\* triggers that keep rows, and 0012 and 0017, which create one more rule.
LEMMA UpgradePreserves ==
    ASSUME NEW d, IsDatabase(d), NEW n \in Revisions
    PROVE  /\ IsDatabase(Upgraded(d, n))
           /\ n \notin {11, 12, 17} => Preserves(d, Upgraded(d, n))
           /\ n = 11 => AppendOnly \subseteq Upgraded(d, n).rules
           /\ n \in {12, 17} => d.rules \subseteq Upgraded(d, n).rules /\ Upgraded(d, n).rows = d.rows
<1>1. CASE n \in {1, 2, 4, 5}
  <2>1. Preserves(d, Up0001(d)) /\ Preserves(d, Up0002(d)) /\ Preserves(d, Up0004(d))
    BY AddTablesPreserves, AddColumnsPreserves DEF Up0001, Up0002, Up0004
  <2>2. Preserves(d, Up0005(d))
    <3>1. PICK e : e = AddTables(d, SensitiveValues, SensitiveValueKeys)
      OBVIOUS
    <3>2. Preserves(d, e) /\ IsDatabase(e)
      BY <3>1, AddTablesPreserves DEF Preserves
    <3>3. Up0005(d) = Insert(e, Presets)
      BY <3>1 DEF Up0005
    <3>4. Preserves(e, Insert(e, Presets))
      BY <3>2, InsertPreserves
    <3>5. QED
      BY <3>2, <3>3, <3>4, PreservesTwice
  <2>3. QED
    BY <1>1, <2>1, <2>2 DEF Upgraded, Preserves
<1>2. CASE n \in {6, 7, 8, 9}
  <2>1. /\ Preserves(d, Up0006(d)) /\ Preserves(d, Up0007(d))
        /\ Preserves(d, Up0008(d)) /\ Preserves(d, Up0009(d))
    BY AddTablesPreserves, AddColumnsPreserves DEF Up0006, Up0007, Up0008, Up0009
  <2>2. QED
    BY <1>2, <2>1 DEF Upgraded, Preserves
<1>3. CASE n = 10
  <2>1. PICK e : e = AddColumns(d, "feedback_categories",
                                Table({"name_zh", "is_system"}, {}, {"description"}))
    OBVIOUS
  <2>2. Preserves(d, e) /\ IsDatabase(e)
    BY <2>1, AddColumnsPreserves DEF Preserves
  <2>3. Preserves(e, Up0010(d))
    BY <2>1, <2>2, AddTablesPreserves DEF Up0010
  <2>4. Upgraded(d, n) = Up0010(d)
    BY <1>3 DEF Upgraded
  <2>5. QED
    BY <1>3, <2>2, <2>3, <2>4, PreservesTwice DEF Preserves
<1>4. CASE n \in {11, 12, 17}
  <2>1. /\ Upgraded(d, 11) = Up0011(d) /\ Upgraded(d, 12) = Up0012(d)
        /\ Upgraded(d, 17) = Up0017(d)
    BY DEF Upgraded
  <2>2. IsDatabase(Up0011(d)) /\ AppendOnly \subseteq Up0011(d).rules
    BY DEF Up0011, IsDatabase, AppendOnly
  <2>3. IsDatabase(Up0012(d)) /\ d.rules \subseteq Up0012(d).rules /\ Up0012(d).rows = d.rows
    BY DEF Up0012, IsDatabase
  <2>4. IsDatabase(Up0017(d)) /\ d.rules \subseteq Up0017(d).rules /\ Up0017(d).rows = d.rows
    BY DEF Up0017, IsDatabase
  <2>5. QED
    BY <1>4, <2>1, <2>2, <2>3, <2>4 DEF Preserves
<1>5. CASE n \in {13, 14, 15, 16}
  <2>1. Preserves(d, Up0015(d)) /\ Preserves(d, Up0016(d))
    BY AddTablesPreserves, AddColumnsPreserves DEF Up0015, Up0016
  <2>2. /\ Upgraded(d, 13) = Up0013(d) /\ Upgraded(d, 14) = Up0014(d)
        /\ Upgraded(d, 15) = Up0015(d) /\ Upgraded(d, 16) = Up0016(d)
    BY DEF Upgraded
  <2>3. QED
    BY <1>5, <2>1, <2>2, Preserves0013, Preserves0014 DEF Preserves
<1>6. QED
  BY <1>1, <1>2, <1>3, <1>4, <1>5 DEF Revisions, HeadRev

LEMMA DowngradePreserves ==
    ASSUME NEW d, IsDatabase(d), NEW n \in Revisions
    PROVE  /\ IsDatabase(Downgraded(d, n))
           /\ n >= 12 => /\ AppendOnly \cap d.rules \subseteq Downgraded(d, n).rules
                         /\ AuditRows(d) \subseteq Downgraded(d, n).rows
<1>1. CASE n \in {1, 2, 4, 5, 6}
  <2>1. /\ IsDatabase(Down0001(d)) /\ IsDatabase(Down0002(d)) /\ IsDatabase(Down0004(d))
        /\ IsDatabase(Down0005(d)) /\ IsDatabase(Down0006(d))
    BY DropTablesPreserves, DropColumnsPreserves
       DEF Down0001, Down0002, Down0004, Down0005, Down0006, Preserves
  <2>2. QED
    BY <1>1, <2>1 DEF Downgraded
<1>2. CASE n \in {7, 8, 9}
  <2>1. IsDatabase(Down0007(d)) /\ IsDatabase(Down0008(d)) /\ IsDatabase(Down0009(d))
    BY DropTablesPreserves, DropColumnsPreserves DEF Down0007, Down0008, Down0009, Preserves
  <2>2. QED
    BY <1>2, <2>1 DEF Downgraded
<1>3. CASE n \in {10, 11}
  <2>1. IsDatabase(DropTables(d, {"ticket_statuses"}))
    BY DropTablesPreserves
  <2>2. IsDatabase(Down0010(d))
    BY <2>1, DropColumnsPreserves DEF Down0010, Preserves
  <2>3. IsDatabase(Down0011(d))
    BY DEF Down0011, IsDatabase
  <2>4. QED
    BY <1>3, <2>2, <2>3 DEF Downgraded
<1>4. CASE n \in {12, 13, 15, 16}
  <2>1. /\ IsDatabase(Down0012(d)) /\ AppendOnly \cap d.rules \subseteq Down0012(d).rules
        /\ AuditRows(d) \subseteq Down0012(d).rows
    BY DEF Down0012, IsDatabase, AppendOnly, OnePerPair, AuditRows
  <2>2. Preserves(d, Down0013(d)) /\ Preserves(d, Down0015(d)) /\ Preserves(d, Down0016(d))
    BY DropTablesPreserves, DropColumnsPreserves, AddColumnsPreserves DEF Down0013, Down0015, Down0016
  <2>3. /\ Downgraded(d, 12) = Down0012(d) /\ Downgraded(d, 13) = Down0013(d)
        /\ Downgraded(d, 15) = Down0015(d) /\ Downgraded(d, 16) = Down0016(d)
    BY DEF Downgraded
  <2>4. QED
    BY <1>4, <2>1, <2>2, <2>3 DEF Preserves
<1>5. CASE n = 14
  <2>1. PICK e : e = DropColumns(d, "feedbacks",
                        {"workspace_id", "rating", "attribution_status", "ragas_scores"})
    OBVIOUS
  <2>2. Preserves(d, e) /\ IsDatabase(e)
    BY <2>1, DropColumnsPreserves DEF Preserves
  <2>3. Preserves(e, Down0014(d))
    BY <2>1, <2>2, AddColumnsPreserves DEF Down0014
  <2>4. Downgraded(d, 14) = Down0014(d)
    BY DEF Downgraded
  <2>5. QED
    BY <1>5, <2>2, <2>3, <2>4, PreservesTwice DEF Preserves
<1>6. CASE n = 17
  <2>1. Downgraded(d, 17) = Down0017(d)
    BY DEF Downgraded
  <2>2. IsDatabase(Down0017(d)) /\ Down0017(d).rows = d.rows
        /\ AppendOnly \cap d.rules \subseteq Down0017(d).rules
    BY DEF Down0017, IsDatabase, AppendOnly
  <2>3. QED
    BY <1>6, <2>1, <2>2 DEF AuditRows
<1>7. QED
  BY <1>1, <1>2, <1>3, <1>4, <1>5, <1>6 DEF Revisions, HeadRev

\* The inductive invariant: in force is in force, by whatever way the revision was reached.
SchemaInv ==
    /\ IsDatabase(database)
    /\ revision \in Revisions \cup {0}
    /\ revision >= 11 => AppendOnly \subseteq database.rules

LEMMA SchemaStarts == SchemaInit => SchemaInv
<1>1. \A n \in 0 .. 17 :
          Schemas[n] = IF n = 0 THEN Nothing0
                       ELSE IF n \in Revisions THEN Upgraded(Schemas[n - 1], n) ELSE Schemas[n - 1]
  BY SchemasBuilt DEF HeadRev
<1>2. IsDatabase(Schemas[0])
  BY <1>1 DEF Nothing0, IsDatabase
<1>3. ASSUME NEW n \in 1 .. 17, IsDatabase(Schemas[n - 1]) PROVE IsDatabase(Schemas[n])
  <2>1. Schemas[n] = IF n \in Revisions THEN Upgraded(Schemas[n - 1], n) ELSE Schemas[n - 1]
    BY <1>1
  <2>2. n \in Revisions => IsDatabase(Upgraded(Schemas[n - 1], n))
    BY <1>3, UpgradePreserves
  <2>3. QED
    BY <1>3, <2>1, <2>2
<1>4. IsDatabase(Schemas[1]) /\ IsDatabase(Schemas[2]) /\ IsDatabase(Schemas[3])
      /\ IsDatabase(Schemas[4]) /\ IsDatabase(Schemas[5])
  BY <1>2, <1>3
<1>5. IsDatabase(Schemas[6]) /\ IsDatabase(Schemas[7]) /\ IsDatabase(Schemas[8])
      /\ IsDatabase(Schemas[9]) /\ IsDatabase(Schemas[10])
  BY <1>3, <1>4
<1>6. IsDatabase(Schemas[11]) /\ IsDatabase(Schemas[12]) /\ IsDatabase(Schemas[13])
  BY <1>3, <1>5
<1>7. /\ Schemas[11] = Upgraded(Schemas[10], 11) /\ Schemas[12] = Upgraded(Schemas[11], 12)
      /\ Schemas[13] = Upgraded(Schemas[12], 13)
      /\ 11 \in Revisions /\ 12 \in Revisions /\ 13 \in Revisions
  BY <1>1 DEF Revisions, HeadRev
<1>8. AppendOnly \subseteq Schemas[11].rules
  <2>1. AppendOnly \subseteq Upgraded(Schemas[10], 11).rules
    BY <1>5, <1>7, UpgradePreserves
  <2>2. QED
    BY <1>7, <2>1
<1>9. Schemas[11].rules \subseteq Schemas[12].rules
  <2>1. Schemas[11].rules \subseteq Upgraded(Schemas[11], 12).rules
    BY <1>6, <1>7, UpgradePreserves
  <2>2. QED
    BY <1>7, <2>1
<1>10. Schemas[13].rules = Schemas[12].rules
  <2>1. Preserves(Schemas[12], Upgraded(Schemas[12], 13))
    <3>1. IsDatabase(Schemas[12]) /\ 13 \in Revisions /\ 13 \notin {11, 12, 17}
      BY <1>6, <1>7
    <3>2. QED
      BY <3>1, UpgradePreserves
  <2>2. QED
    BY <1>7, <2>1 DEF Preserves
<1>11. QED
  BY <1>2, <1>6, <1>8, <1>9, <1>10 DEF SchemaInit, Schema, SchemaInv, Revisions, HeadRev

\* What a step may do to the invariant and to the audit rows, one lemma per action.
Standing == revision >= 11 /\ revision' >= 11 => AuditRows(database) \subseteq database'.rows

LEMMA UpgradeStands == ASSUME SchemaInv, Upgrade PROVE SchemaInv' /\ Standing
<1>1. PICK n : n = Above(revision)
  OBVIOUS
<1>2. /\ revision \in Revisions \cup {0} /\ revision < 17 /\ IsDatabase(database)
      /\ revision' = n /\ database' = Upgraded(database, n)
  BY <1>1 DEF SchemaInv, Upgrade, HeadRev
<1>3. n \in Revisions /\ n > revision /\ (n >= 12 => revision >= 11)
  BY <1>1, <1>2 DEF Above, Revisions, HeadRev
<1>4. /\ IsDatabase(database')
      /\ n \notin {11, 12, 17} => Preserves(database, database')
      /\ n = 11 => AppendOnly \subseteq database'.rules
      /\ n \in {12, 17} => database.rules \subseteq database'.rules /\ database'.rows = database.rows
  BY <1>2, <1>3, UpgradePreserves
<1>5. revision >= 11 => AppendOnly \subseteq database.rules
  BY DEF SchemaInv
<1>6. n \in Int /\ revision \in Int
  BY <1>2, <1>3 DEF Revisions, HeadRev
<1>7. n >= 11 => AppendOnly \subseteq database'.rules
  <2>1. CASE n = 11
    BY <2>1, <1>4
  <2>2. CASE n >= 12
    BY <2>2, <1>3, <1>4, <1>5 DEF Preserves
  <2>3. QED
    BY <2>1, <2>2, <1>6
<1>8. revision >= 11 => AuditRows(database) \subseteq database'.rows
  <2>1. revision >= 11 => n # 11
    BY <1>3, <1>6
  <2>2. QED
    BY <2>1, <1>4 DEF Preserves, AuditRows
<1>9. QED
  BY <1>2, <1>3, <1>4, <1>7, <1>8 DEF SchemaInv, Standing

LEMMA DowngradeStands == ASSUME SchemaInv, Downgrade PROVE SchemaInv' /\ Standing
<1>1. /\ revision \in Revisions \cup {0} /\ revision > 0 /\ IsDatabase(database)
      /\ revision' = Below(revision) /\ database' = Downgraded(database, revision)
  BY DEF SchemaInv, Downgrade
<1>2. /\ revision \in Revisions /\ Below(revision) \in Revisions \cup {0}
      /\ Below(revision) >= 11 => revision >= 12
  BY <1>1 DEF Below, Revisions, HeadRev
<1>3. /\ IsDatabase(database')
      /\ revision >= 12 => /\ AppendOnly \cap database.rules \subseteq database'.rules
                           /\ AuditRows(database) \subseteq database'.rows
  BY <1>1, <1>2, DowngradePreserves
<1>4. revision >= 12 => AppendOnly \subseteq database.rules
  BY <1>2 DEF SchemaInv, Revisions, HeadRev
<1>5. QED
  BY <1>1, <1>2, <1>3, <1>4 DEF SchemaInv, Standing

LEMMA WriteStands == ASSUME SchemaInv, NEW r \in Given, Write(r) PROVE SchemaInv' /\ Standing
<1>1. database' = [database EXCEPT !.rows = @ \cup {r}] /\ revision' = revision
  BY DEF Write
<1>2. IsDatabase(database') /\ database'.rules = database.rules
      /\ database'.rows = database.rows \cup {r}
  BY <1>1 DEF SchemaInv, IsDatabase
<1>3. QED
  BY <1>1, <1>2 DEF SchemaInv, Standing, AuditRows

LEMMA DeleteStands ==
    ASSUME SchemaInv, NEW r \in database.rows, Delete(r)
    PROVE  SchemaInv' /\ Standing
<1> DEFINE gone == Doomed(database, r)
           hit(onDelete) == {q \in database.rows \ gone : \E k \in References(database, q) :
                                k.onDelete \in onDelete /\ \E p \in gone : Refers(k, q, p)}
           cleared(q) == [q EXCEPT !.vals = [c \in DOMAIN @ |->
                             IF \E k \in References(database, q) :
                                    k.column = c /\ k.onDelete = "SET NULL"
                                    /\ \E p \in gone : Refers(k, q, p)
                             THEN "NULL" ELSE @[c]]]
           image(q) == IF q \in hit({"SET NULL"}) THEN cleared(q) ELSE q
<1>1. /\ "no_delete" \in database.rules => gone \cap AuditRows(database) = {}
      /\ "no_update" \in database.rules => hit({"SET NULL"}) \cap AuditRows(database) = {}
      /\ revision' = revision
  BY DEF Delete, AuditRows
<1>2. database' = [database EXCEPT !.rows = {image(q) : q \in @ \ gone}]
  BY DEF Delete
<1>3. /\ IsDatabase(database') /\ database'.rules = database.rules
      /\ database'.rows = {image(q) : q \in database.rows \ gone}
  BY <1>2 DEF SchemaInv, IsDatabase
<1>4. ASSUME revision >= 11, NEW q \in AuditRows(database) PROVE q \in database'.rows
  <2>1. q \notin gone /\ q \notin hit({"SET NULL"})
    BY <1>1, <1>4 DEF SchemaInv, AppendOnly
  <2>2. q \in database.rows \ gone /\ q = image(q)
    BY <2>1 DEF AuditRows
  <2>3. QED
    BY <1>3, <2>2
<1>5. QED
  BY <1>1, <1>3, <1>4 DEF SchemaInv, Standing

\* "Append-only" (0011): for any rows and any sequence of upgrades, downgrades, writes and
\* deletions, no row of audit_logs changes or goes while the migration is in force.
THEOREM AuditRowsNeverGo == SchemaSpec => AuditRowsStand
<1>1. SchemaInv /\ [SchemaNext]_schemaVars => SchemaInv'
  <2>1. ASSUME SchemaInv, UNCHANGED schemaVars PROVE SchemaInv'
    BY <2>1 DEF SchemaInv, schemaVars
  <2>2. QED
    BY <2>1, UpgradeStands, DowngradeStands, WriteStands, DeleteStands DEF SchemaNext
<1>2. SchemaInv /\ [SchemaNext]_schemaVars => [Standing]_schemaVars
  BY UpgradeStands, DowngradeStands, WriteStands, DeleteStands DEF SchemaNext
<1>3. SchemaSpec => [][Standing]_schemaVars
  BY <1>1, <1>2, SchemaStarts, PTL DEF SchemaSpec
<1>4. Standing => (revision >= 11 /\ revision' >= 11 =>
                      {r \in database.rows : r.table = "audit_logs"} \subseteq database'.rows)
  BY DEF Standing, AuditRows
<1>5. QED
  BY <1>3, <1>4, PTL DEF AuditRowsStand

\* The tables f and g have the same columns, alike but for the default of the column score.
SameTables(f, g) ==
    /\ DOMAIN f = DOMAIN g
    /\ \A t \in DOMAIN f :
          /\ DOMAIN f[t] = DOMAIN g[t]
          /\ \A c \in DOMAIN f[t] : f[t][c] = g[t][c] \/ (t = "feedbacks" /\ c = "score")

\* The databases d and e have the same schema.
SameSchema(d, e) ==
    /\ IsDatabase(d) /\ IsDatabase(e)
    /\ d.keys = e.keys /\ d.actions = e.actions /\ d.rules = e.rules
    /\ SameTables(d.tables, e.tables)

LEMMA SameSchemaTrans ==
    ASSUME NEW d, NEW e, NEW f, SameSchema(d, e), SameSchema(e, f)
    PROVE  SameSchema(d, f)
<1>1. SameTables(d.tables, f.tables)
  BY DEF SameSchema, SameTables
<1>2. QED
  BY <1>1 DEF SameSchema

LEMMA SameSchemaRefl == ASSUME NEW d, IsDatabase(d) PROVE SameSchema(d, d)
  BY DEF SameSchema, SameTables

\* The schema as RevisionIsSchema compares it.
Shape(d) ==
    [d EXCEPT !.rows = {}, !.tables =
        [t \in DOMAIN @ |-> [c \in DOMAIN @[t] |->
            IF t = "feedbacks" /\ c = "score" THEN "any" ELSE @[t][c]]]]

LEMMA SameShape == ASSUME NEW d, NEW e, SameSchema(d, e) PROVE Shape(d) = Shape(e)
<1> DEFINE ofTable(f, t) == [c \in DOMAIN f[t] |->
                                IF t = "feedbacks" /\ c = "score" THEN "any" ELSE f[t][c]]
           ofTables(f) == [t \in DOMAIN f |-> ofTable(f, t)]
<1>1. PICK f, g : f = d.tables /\ g = e.tables
  OBVIOUS
<1>2. SameTables(f, g)
  BY <1>1 DEF SameSchema
<1>3. ASSUME NEW t \in DOMAIN f PROVE ofTable(f, t) = ofTable(g, t)
  BY <1>2 DEF SameTables
<1> HIDE DEF ofTable
<1>4. ofTables(f) = ofTables(g)
  BY <1>2, <1>3 DEF SameTables
<1> HIDE DEF ofTables
<1>5. ASSUME NEW x, IsDatabase(x)
      PROVE  Shape(x) = [y \in {"tables", "keys", "actions", "rules", "rows"} |->
                           IF y = "rows" THEN {} ELSE IF y = "tables" THEN ofTables(x.tables)
                           ELSE x[y]]
  BY <1>5 DEF Shape, IsDatabase, ofTables, ofTable
<1>6. QED
  BY <1>1, <1>4, <1>5 DEF SameSchema

LEMMA SameOverlay ==
    ASSUME NEW f, NEW g, NEW tables, SameTables(f, g)
    PROVE  SameTables(Overlay(tables, f), Overlay(tables, g))
<1>1. PICK u, v : u = Overlay(tables, f) /\ v = Overlay(tables, g)
  OBVIOUS
<1>2. /\ DOMAIN u = DOMAIN tables \cup DOMAIN f /\ \A x \in DOMAIN tables : u[x] = tables[x]
      /\ \A x \in DOMAIN f \ DOMAIN tables : u[x] = f[x]
  BY <1>1 DEF Overlay
<1>3. /\ DOMAIN v = DOMAIN tables \cup DOMAIN g /\ \A x \in DOMAIN tables : v[x] = tables[x]
      /\ \A x \in DOMAIN g \ DOMAIN tables : v[x] = g[x]
  BY <1>1 DEF Overlay
<1>4. SameTables(u, v)
  BY <1>2, <1>3 DEF SameTables
<1>5. QED
  BY <1>1, <1>4

\* The same, when one table is put in the place of another.
LEMMA SameReplaced ==
    ASSUME NEW f, NEW g, SameTables(f, g), NEW t, NEW p, NEW q,
           t \in DOMAIN f => /\ DOMAIN p = DOMAIN q
                             /\ \A c \in DOMAIN p : p[c] = q[c] \/ (t = "feedbacks" /\ c = "score")
    PROVE  SameTables([f EXCEPT ![t] = p], [g EXCEPT ![t] = q])
<1>1. PICK u, v : u = [f EXCEPT ![t] = p] /\ v = [g EXCEPT ![t] = q]
  OBVIOUS
<1>2. DOMAIN u = DOMAIN f /\ \A x \in DOMAIN f : u[x] = IF x = t THEN p ELSE f[x]
  BY <1>1
<1>3. DOMAIN v = DOMAIN g /\ \A x \in DOMAIN g : v[x] = IF x = t THEN q ELSE g[x]
  BY <1>1
<1>4. DOMAIN f = DOMAIN g
  BY DEF SameTables
<1>5. ASSUME NEW x \in DOMAIN u
      PROVE  /\ DOMAIN u[x] = DOMAIN v[x]
             /\ \A c \in DOMAIN u[x] : u[x][c] = v[x][c] \/ (x = "feedbacks" /\ c = "score")
  <2>1. CASE x = t
    BY <1>2, <1>3, <1>4, <2>1
  <2>2. CASE x # t
    BY <1>2, <1>3, <1>4, <2>2 DEF SameTables
  <2>3. QED
    BY <2>1, <2>2
<1>6. SameTables(u, v)
  BY <1>2, <1>3, <1>4, <1>5 DEF SameTables
<1>7. QED
  BY <1>1, <1>6

\* What the kinds of migrations do to the schema.
LEMMA AddTablesSchema ==
    ASSUME NEW d, IsDatabase(d), NEW tables, NEW keys, NEW e, e = AddTables(d, tables, keys)
    PROVE  /\ IsDatabase(e) /\ e.actions = d.actions /\ e.rules = d.rules
           /\ e.tables = Overlay(tables, d.tables) /\ e.keys = d.keys \cup keys
           /\ e.rows = d.rows
  BY DEF AddTables, IsDatabase

LEMMA AddColumnsSchema ==
    ASSUME NEW d, IsDatabase(d), NEW t, NEW columns, NEW e, e = AddColumns(d, t, columns)
    PROVE  /\ IsDatabase(e) /\ e.actions = d.actions /\ e.rules = d.rules
           /\ e.tables = [d.tables EXCEPT ![t] = Overlay(columns, d.tables[t])]
           /\ e.keys = d.keys /\ e.rows = d.rows
  BY DEF AddColumns, IsDatabase

LEMMA DropTablesSchema ==
    ASSUME NEW d, IsDatabase(d), NEW names, NEW e, e = DropTables(d, names)
    PROVE  /\ IsDatabase(e) /\ e.actions = d.actions /\ e.rules = d.rules
           /\ e.tables = Restrict1(d.tables, names)
           /\ e.keys = {k \in d.keys : k.table \notin names}
           /\ e.rows = {r \in d.rows : r.table \notin names}
  BY DEF DropTables, IsDatabase

LEMMA DropColumnsSchema ==
    ASSUME NEW d, IsDatabase(d), NEW t, NEW names, NEW e, e = DropColumns(d, t, names)
    PROVE  /\ IsDatabase(e) /\ e.actions = d.actions /\ e.rules = d.rules
           /\ e.tables = [d.tables EXCEPT ![t] = Restrict1(d.tables[t], names)]
           /\ e.keys = {k \in d.keys : ~(k.table = t /\ k.column \in names)}
           /\ e.rows = {IF r.table = t THEN [r EXCEPT !.vals = Restrict1(@, names)] ELSE r : r \in d.rows}
  BY DEF DropColumns, IsDatabase

\* They do the same to the same schema.
LEMMA SameAddTables ==
    ASSUME NEW d, NEW e, SameSchema(d, e), NEW tables, NEW keys
    PROVE  SameSchema(AddTables(d, tables, keys), AddTables(e, tables, keys))
<1>1. PICK x, y : x = AddTables(d, tables, keys) /\ y = AddTables(e, tables, keys)
  OBVIOUS
<1>2. SameTables(d.tables, e.tables) /\ IsDatabase(d) /\ IsDatabase(e)
  BY DEF SameSchema
<1>3. /\ IsDatabase(x) /\ x.actions = d.actions /\ x.rules = d.rules
      /\ x.tables = Overlay(tables, d.tables) /\ x.keys = d.keys \cup keys
  BY <1>1, <1>2, AddTablesSchema
<1>4. /\ IsDatabase(y) /\ y.actions = e.actions /\ y.rules = e.rules
      /\ y.tables = Overlay(tables, e.tables) /\ y.keys = e.keys \cup keys
  BY <1>1, <1>2, AddTablesSchema
<1>5. PICK f, g : f = d.tables /\ g = e.tables
  OBVIOUS
<1>6. SameTables(Overlay(tables, f), Overlay(tables, g))
  BY <1>2, <1>5, SameOverlay
<1>7. SameSchema(x, y)
  BY <1>3, <1>4, <1>5, <1>6 DEF SameSchema
<1>8. QED
  BY <1>1, <1>7

LEMMA SameAddColumns ==
    ASSUME NEW d, NEW e, SameSchema(d, e), NEW t, NEW columns
    PROVE  SameSchema(AddColumns(d, t, columns), AddColumns(e, t, columns))
<1>1. PICK f, g : f = d.tables /\ g = e.tables
  OBVIOUS
<1>2. SameTables(f, g)
  BY <1>1 DEF SameSchema
<1>3. PICK p, q : p = Overlay(columns, f[t]) /\ q = Overlay(columns, g[t])
  OBVIOUS
<1>4. ASSUME t \in DOMAIN f
      PROVE  /\ DOMAIN p = DOMAIN q
             /\ \A c \in DOMAIN p : p[c] = q[c] \/ (t = "feedbacks" /\ c = "score")
  <2>1. PICK a, b : a = f[t] /\ b = g[t]
    OBVIOUS
  <2>2. DOMAIN a = DOMAIN b /\ \A c \in DOMAIN a : a[c] = b[c] \/ (t = "feedbacks" /\ c = "score")
    BY <1>2, <1>4, <2>1 DEF SameTables
  <2>3. /\ DOMAIN p = DOMAIN columns \cup DOMAIN a /\ \A x \in DOMAIN columns : p[x] = columns[x]
        /\ \A x \in DOMAIN a \ DOMAIN columns : p[x] = a[x]
    BY <1>3, <2>1 DEF Overlay
  <2>4. /\ DOMAIN q = DOMAIN columns \cup DOMAIN b /\ \A x \in DOMAIN columns : q[x] = columns[x]
        /\ \A x \in DOMAIN b \ DOMAIN columns : q[x] = b[x]
    BY <1>3, <2>1 DEF Overlay
  <2>5. QED
    BY <2>2, <2>3, <2>4
<1>5. SameTables([f EXCEPT ![t] = p], [g EXCEPT ![t] = q])
  BY <1>2, <1>4, SameReplaced
<1>6. PICK x, y : x = AddColumns(d, t, columns) /\ y = AddColumns(e, t, columns)
  OBVIOUS
<1>7. /\ IsDatabase(x) /\ x.actions = d.actions /\ x.rules = d.rules
      /\ x.tables = [f EXCEPT ![t] = p] /\ x.keys = d.keys
  BY <1>1, <1>3, <1>6, AddColumnsSchema DEF SameSchema
<1>8. /\ IsDatabase(y) /\ y.actions = e.actions /\ y.rules = e.rules
      /\ y.tables = [g EXCEPT ![t] = q] /\ y.keys = e.keys
  BY <1>1, <1>3, <1>6, AddColumnsSchema DEF SameSchema
<1>9. SameSchema(x, y)
  BY <1>5, <1>7, <1>8 DEF SameSchema
<1>10. QED
  BY <1>6, <1>9

LEMMA SameDropTables ==
    ASSUME NEW d, NEW e, SameSchema(d, e), NEW names
    PROVE  SameSchema(DropTables(d, names), DropTables(e, names))
<1>1. PICK f, g : f = d.tables /\ g = e.tables
  OBVIOUS
<1>2. SameTables(f, g)
  BY <1>1 DEF SameSchema
<1>3. PICK u, v : u = Restrict1(f, names) /\ v = Restrict1(g, names)
  OBVIOUS
<1>4. DOMAIN u = DOMAIN f \ names /\ \A x \in DOMAIN f \ names : u[x] = f[x]
  BY <1>3 DEF Restrict1
<1>5. DOMAIN v = DOMAIN g \ names /\ \A x \in DOMAIN g \ names : v[x] = g[x]
  BY <1>3 DEF Restrict1
<1>6. SameTables(u, v)
  BY <1>2, <1>4, <1>5 DEF SameTables
<1>7. PICK x, y : x = DropTables(d, names) /\ y = DropTables(e, names)
  OBVIOUS
<1>8. /\ IsDatabase(x) /\ x.actions = d.actions /\ x.rules = d.rules
      /\ x.tables = u /\ x.keys = {k \in d.keys : k.table \notin names}
  BY <1>1, <1>3, <1>7, DropTablesSchema DEF SameSchema
<1>9. /\ IsDatabase(y) /\ y.actions = e.actions /\ y.rules = e.rules
      /\ y.tables = v /\ y.keys = {k \in e.keys : k.table \notin names}
  BY <1>1, <1>3, <1>7, DropTablesSchema DEF SameSchema
<1>10. SameSchema(x, y)
  BY <1>6, <1>8, <1>9 DEF SameSchema
<1>11. QED
  BY <1>7, <1>10

LEMMA SameDropColumns ==
    ASSUME NEW d, NEW e, SameSchema(d, e), NEW t, NEW names
    PROVE  SameSchema(DropColumns(d, t, names), DropColumns(e, t, names))
<1>1. PICK f, g : f = d.tables /\ g = e.tables
  OBVIOUS
<1>2. SameTables(f, g) /\ IsDatabase(d) /\ IsDatabase(e)
  BY <1>1 DEF SameSchema
<1>3. PICK p, q : p = Restrict1(f[t], names) /\ q = Restrict1(g[t], names)
  OBVIOUS
<1>4. ASSUME t \in DOMAIN f
      PROVE  /\ DOMAIN p = DOMAIN q
             /\ \A c \in DOMAIN p : p[c] = q[c] \/ (t = "feedbacks" /\ c = "score")
  <2>1. PICK a, b : a = f[t] /\ b = g[t]
    OBVIOUS
  <2>2. DOMAIN a = DOMAIN b /\ \A c \in DOMAIN a : a[c] = b[c] \/ (t = "feedbacks" /\ c = "score")
    BY <1>2, <1>4, <2>1 DEF SameTables
  <2>3. DOMAIN p = DOMAIN a \ names /\ \A x \in DOMAIN a \ names : p[x] = a[x]
    BY <1>3, <2>1 DEF Restrict1
  <2>4. DOMAIN q = DOMAIN b \ names /\ \A x \in DOMAIN b \ names : q[x] = b[x]
    BY <1>3, <2>1 DEF Restrict1
  <2>5. QED
    BY <2>2, <2>3, <2>4
<1>5. SameTables([f EXCEPT ![t] = p], [g EXCEPT ![t] = q])
  BY <1>2, <1>4, SameReplaced
<1>6. PICK x, y : x = DropColumns(d, t, names) /\ y = DropColumns(e, t, names)
  OBVIOUS
<1>7. /\ IsDatabase(x) /\ x.actions = d.actions /\ x.rules = d.rules
      /\ x.tables = [f EXCEPT ![t] = p]
      /\ x.keys = {k \in d.keys : ~(k.table = t /\ k.column \in names)}
  <2>1. /\ IsDatabase(x) /\ x.actions = d.actions /\ x.rules = d.rules
        /\ x.tables = [d.tables EXCEPT ![t] = Restrict1(d.tables[t], names)]
        /\ x.keys = {k \in d.keys : ~(k.table = t /\ k.column \in names)}
    BY <1>2, <1>6 DEF DropColumns, IsDatabase
  <2>2. QED
    BY <1>1, <1>3, <2>1
<1>8. /\ IsDatabase(y) /\ y.actions = e.actions /\ y.rules = e.rules
      /\ y.tables = [g EXCEPT ![t] = q]
      /\ y.keys = {k \in e.keys : ~(k.table = t /\ k.column \in names)}
  <2>1. /\ IsDatabase(y) /\ y.actions = e.actions /\ y.rules = e.rules
        /\ y.tables = [e.tables EXCEPT ![t] = Restrict1(e.tables[t], names)]
        /\ y.keys = {k \in e.keys : ~(k.table = t /\ k.column \in names)}
    BY <1>2, <1>6 DEF DropColumns, IsDatabase
  <2>2. QED
    BY <1>1, <1>3, <2>1
<1>9. SameSchema(x, y)
  BY <1>5, <1>7, <1>8 DEF SameSchema
<1>10. QED
  BY <1>6, <1>9

LEMMA SameAddKey ==
    ASSUME NEW d, NEW e, SameSchema(d, e), NEW key
    PROVE  SameSchema([d EXCEPT !.keys = @ \cup {key}], [e EXCEPT !.keys = @ \cup {key}])
  BY DEF SameSchema, IsDatabase

LEMMA SameRows ==
    ASSUME NEW d, IsDatabase(d), NEW rows
    PROVE  SameSchema([d EXCEPT !.rows = rows], d)
  BY DEF SameSchema, SameTables, IsDatabase

\* What one migration adds, the other takes back.
KeysHaveColumns(d) ==
    \A k \in d.keys : k.table \in DOMAIN d.tables /\ k.column \in DOMAIN d.tables[k.table]

LEMMA TablesTakenBack ==
    ASSUME NEW d, IsDatabase(d), KeysHaveColumns(d), NEW tables, NEW keys, NEW names,
           names = DOMAIN tables, names \cap DOMAIN d.tables = {},
           \A k \in keys : k.table \in names
    PROVE  SameSchema(DropTables(AddTables(d, tables, keys), names), d)
<1>1. PICK e, f, g : e = AddTables(d, tables, keys) /\ f = DropTables(e, names) /\ g = d.tables
  OBVIOUS
<1>2. IsDatabase(e) /\ e.tables = Overlay(tables, g) /\ e.keys = d.keys \cup keys
      /\ e.actions = d.actions /\ e.rules = d.rules
  BY <1>1, AddTablesSchema
<1>3. IsDatabase(f) /\ f.tables = Restrict1(e.tables, names)
      /\ f.keys = {k \in e.keys : k.table \notin names}
      /\ f.actions = d.actions /\ f.rules = d.rules
  BY <1>1, <1>2, DropTablesSchema
<1>4. SameTables(f.tables, g)
  <2>1. PICK u, v : u = Overlay(tables, g) /\ v = Restrict1(u, names)
    OBVIOUS
  <2>2. DOMAIN u = DOMAIN tables \cup DOMAIN g /\ \A x \in DOMAIN g \ DOMAIN tables : u[x] = g[x]
    BY <2>1 DEF Overlay
  <2>3. DOMAIN v = DOMAIN u \ names /\ \A x \in DOMAIN u \ names : v[x] = u[x]
    BY <2>1 DEF Restrict1
  <2>4. DOMAIN v = DOMAIN g /\ \A x \in DOMAIN g : v[x] = g[x]
    BY <1>1, <2>2, <2>3
  <2>5. QED
    BY <1>2, <1>3, <2>1, <2>4 DEF SameTables
<1>5. f.keys = d.keys
  BY <1>1, <1>2, <1>3 DEF KeysHaveColumns
<1>6. QED
  BY <1>1, <1>3, <1>4, <1>5 DEF SameSchema

LEMMA ColumnsTakenBack ==
    ASSUME NEW d, IsDatabase(d), KeysHaveColumns(d), NEW t \in DOMAIN d.tables, NEW columns, NEW names,
           names = DOMAIN columns, names \cap DOMAIN d.tables[t] = {}
    PROVE  SameSchema(DropColumns(AddColumns(d, t, columns), t, names), d)
<1>1. PICK e, f, g : e = AddColumns(d, t, columns) /\ f = DropColumns(e, t, names) /\ g = d.tables
  OBVIOUS
<1>2. IsDatabase(e) /\ e.tables = [g EXCEPT ![t] = Overlay(columns, g[t])] /\ e.keys = d.keys
      /\ e.actions = d.actions /\ e.rules = d.rules
  BY <1>1, AddColumnsSchema
<1>3. IsDatabase(f) /\ f.tables = [e.tables EXCEPT ![t] = Restrict1(e.tables[t], names)]
      /\ f.keys = {k \in e.keys : ~(k.table = t /\ k.column \in names)}
      /\ f.actions = d.actions /\ f.rules = d.rules
  BY <1>1, <1>2, DropColumnsSchema
<1>4. DOMAIN f.tables = DOMAIN g /\ \A u \in DOMAIN g : u # t => f.tables[u] = g[u]
  BY <1>2, <1>3
<1>5. DOMAIN f.tables[t] = DOMAIN g[t] /\ \A c \in DOMAIN g[t] : f.tables[t][c] = g[t][c]
  <2>1. PICK a, u, v : a = g[t] /\ u = Overlay(columns, a) /\ v = Restrict1(u, names)
    OBVIOUS
  <2>2. DOMAIN u = DOMAIN columns \cup DOMAIN a /\ \A x \in DOMAIN a \ DOMAIN columns : u[x] = a[x]
    BY <2>1 DEF Overlay
  <2>3. DOMAIN v = DOMAIN u \ names /\ \A x \in DOMAIN u \ names : v[x] = u[x]
    BY <2>1 DEF Restrict1
  <2>4. DOMAIN v = DOMAIN a /\ \A x \in DOMAIN a : v[x] = a[x]
    BY <1>1, <2>1, <2>2, <2>3
  <2>5. f.tables[t] = v
    BY <1>1, <1>2, <1>3, <2>1
  <2>6. QED
    BY <2>1, <2>4, <2>5
<1>6. SameTables(f.tables, g)
  BY <1>4, <1>5 DEF SameTables
<1>7. f.keys = d.keys
  <2>1. ASSUME NEW k \in d.keys, k.table = t PROVE k.column \notin names
    <3>1. k.column \in DOMAIN d.tables[t]
      BY <2>1 DEF KeysHaveColumns
    <3>2. QED
      BY <3>1
  <2>2. QED
    BY <1>2, <1>3, <2>1
<1>8. QED
  BY <1>1, <1>3, <1>6, <1>7 DEF SameSchema

-----------------------------------------------------------------------------
(* The schema of each revision                                             *)

Tables1 == Overlay(Overlay(Identity, Overlay(Memberships, Corpus)),
                   Overlay(Conversations, Overlay(Feedbacks, Records)))
Keys1 == IdentityKeys \cup CorpusKeys \cup ConversationKeys \cup FeedbackKeys \cup RecordKeys

Names1 ==
    {"users", "workspaces", "roles", "permissions", "role_permissions", "user_roles", "documents",
     "chunks", "acls", "conversations", "messages", "citations", "feedback_tags",
     "feedback_categories", "feedbacks", "audit_logs", "evaluation_results", "drift_alerts"}

\* The columns that the migrations add to tables that are there already.
Added(n) ==
    CASE n = 2 -> [t |-> "drift_alerts", columns |-> Table({}, DriftColumns, {})]
      [] n = 4 -> [t |-> "roles", columns |-> Table({}, {"workspace_scoped"}, {})]
      [] n = 6 -> [t |-> "users", columns |-> Table({}, {}, {"deleted_at"})]
      [] n = 7 -> [t |-> "users", columns |-> Table({}, {}, {"display_name", "avatar_url"})]
      [] n = 10 -> [t |-> "feedback_categories",
                    columns |-> Table({"name_zh", "is_system"}, {}, {"description"})]
      [] n = 13 -> [t |-> "chunks", columns |-> Table({"workspace_id"}, {}, {})]
      [] n = 14 -> [t |-> "feedbacks", columns |-> Table({"workspace_id"},
                        {"rating", "attribution_status"}, {"ragas_scores"})]
      [] n = 15 -> [t |-> "feedbacks", columns |-> Table({}, {}, {"comment"})]

Widened(f, n) == [f EXCEPT ![Added(n).t] = Overlay(Added(n).columns, f[Added(n).t])]

ChunkKey == Key("chunks", "workspace_id", "workspaces", "CASCADE")
FeedbackKey == Key("feedbacks", "workspace_id", "workspaces", "CASCADE")

\* e is d with other tables and keys, and with any rows.
Becomes(e, d, tables, keys) ==
    /\ IsDatabase(e) /\ e.actions = d.actions /\ e.rules = d.rules
    /\ e.tables = tables /\ e.keys = keys

LEMMA AddTablesBecomes ==
    ASSUME NEW d, IsDatabase(d), NEW tables, NEW keys
    PROVE  Becomes(AddTables(d, tables, keys), d, Overlay(tables, d.tables), d.keys \cup keys)
  BY DEF AddTables, IsDatabase, Becomes

LEMMA AddColumnsBecomes ==
    ASSUME NEW d, IsDatabase(d), NEW t, NEW columns
    PROVE  Becomes(AddColumns(d, t, columns), d,
                   [d.tables EXCEPT ![t] = Overlay(columns, d.tables[t])], d.keys)
  BY DEF AddColumns, IsDatabase, Becomes

LEMMA DropColumnsBecomes ==
    ASSUME NEW d, IsDatabase(d), NEW t, NEW names
    PROVE  Becomes(DropColumns(d, t, names), d,
                   [d.tables EXCEPT ![t] = Restrict1(d.tables[t], names)],
                   {k \in d.keys : ~(k.table = t /\ k.column \in names)})
  BY DEF DropColumns, IsDatabase, Becomes

LEMMA RowsBecome ==
    ASSUME NEW d, IsDatabase(d), NEW rows, NEW e, e = [d EXCEPT !.rows = rows]
    PROVE  Becomes(e, d, d.tables, d.keys)
  BY DEF IsDatabase, Becomes

\* Tables and keys after one migration, from those before it.
LEMMA Becomes1to9 ==
    ASSUME NEW d, IsDatabase(d)
    PROVE  /\ Becomes(Upgraded(d, 1), d, Overlay(Tables1, d.tables), d.keys \cup Keys1)
           /\ \A n \in {2, 4, 6, 7} : Becomes(Upgraded(d, n), d, Widened(d.tables, n), d.keys)
           /\ Becomes(Upgraded(d, 5), d, Overlay(SensitiveValues, d.tables),
                      d.keys \cup SensitiveValueKeys)
           /\ Becomes(Upgraded(d, 8), d, Overlay(ApiTokens, d.tables),
                      d.keys \cup {Key("api_tokens", "user_id", "users", "CASCADE")})
           /\ Becomes(Upgraded(d, 9), d, Overlay(PasswordResets, d.tables),
                      d.keys \cup PasswordResetKeys)
<1>1. Upgraded(d, 1) = AddTables(d, Tables1, Keys1)
  BY DEF Upgraded, Up0001, Tables1, Keys1
<1>5. Becomes(Upgraded(d, 5), d, Overlay(SensitiveValues, d.tables), d.keys \cup SensitiveValueKeys)
  <2>1. PICK e : e = AddTables(d, SensitiveValues, SensitiveValueKeys)
    OBVIOUS
  <2>2. Becomes(e, d, Overlay(SensitiveValues, d.tables), d.keys \cup SensitiveValueKeys)
    BY <2>1, AddTablesBecomes
  <2>3. IsDatabase(e)
    BY <2>2 DEF Becomes
  <2>4. Upgraded(d, 5) = Insert(e, Presets)
    BY <2>1 DEF Upgraded, Up0005
  <2>5. Becomes(Insert(e, Presets), e, e.tables, e.keys)
    BY <2>3 DEF Insert, IsDatabase, Becomes
  <2>6. QED
    BY <2>2, <2>4, <2>5 DEF Becomes
<1>2. /\ Upgraded(d, 8) = AddTables(d, ApiTokens, {Key("api_tokens", "user_id", "users", "CASCADE")})
      /\ Upgraded(d, 9) = AddTables(d, PasswordResets, PasswordResetKeys)
  BY DEF Upgraded, Up0008, Up0009
<1>3. ASSUME NEW n \in {2, 4, 6, 7} PROVE Becomes(Upgraded(d, n), d, Widened(d.tables, n), d.keys)
  <2>1. PICK t, columns : t = Added(n).t /\ columns = Added(n).columns
    OBVIOUS
  <2>2. Upgraded(d, n) = AddColumns(d, t, columns)
    BY <2>1 DEF Upgraded, Added, Up0002, Up0004, Up0006, Up0007
  <2>3. Widened(d.tables, n) = [d.tables EXCEPT ![t] = Overlay(columns, d.tables[t])]
    BY <2>1 DEF Widened
  <2>4. QED
    BY <2>2, <2>3, AddColumnsBecomes
<1>4. QED
  BY <1>1, <1>2, <1>3, <1>5, AddTablesBecomes

LEMMA Becomes10 ==
    ASSUME NEW d, IsDatabase(d)
    PROVE  Becomes(Upgraded(d, 10), d, Overlay(TicketStatuses, Widened(d.tables, 10)), d.keys)
<1>1. PICK e : e = AddColumns(d, "feedback_categories", Table({"name_zh", "is_system"}, {}, {"description"}))
  OBVIOUS
<1>2. Becomes(e, d, Widened(d.tables, 10), d.keys)
  <2>1. Widened(d.tables, 10) = [d.tables EXCEPT !["feedback_categories"] =
            Overlay(Table({"name_zh", "is_system"}, {}, {"description"}), d.tables["feedback_categories"])]
    BY DEF Widened, Added
  <2>2. QED
    BY <1>1, <2>1, AddColumnsBecomes
<1>3. Upgraded(d, 10) = AddTables(e, TicketStatuses, {})
  BY <1>1 DEF Upgraded, Up0010
<1>4. Becomes(AddTables(e, TicketStatuses, {}), e, Overlay(TicketStatuses, e.tables), e.keys \cup {})
  <2>1. IsDatabase(e)
    BY <1>2 DEF Becomes
  <2>2. QED
    BY <2>1, AddTablesBecomes
<1>5. QED
  BY <1>2, <1>3, <1>4 DEF Becomes

LEMMA Becomes11to12 ==
    ASSUME NEW d, IsDatabase(d)
    PROVE  /\ \A n \in {11, 12, 17} : /\ IsDatabase(Upgraded(d, n))
                                     /\ Upgraded(d, n).tables = d.tables
                                     /\ Upgraded(d, n).keys = d.keys
           /\ Upgraded(d, 11).actions = Whitelist8
           /\ Upgraded(d, 11).rules = d.rules \cup {"no_delete", "no_update"}
           /\ Upgraded(d, 12).actions = AuditActions /\ Upgraded(d, 12).rules = d.rules \cup {OnePerPair}
           /\ Upgraded(d, 17).actions = d.actions
           /\ Upgraded(d, 17).rules = d.rules \cup {"orphan_safety"}
<1>1. Upgraded(d, 11) = Up0011(d) /\ Upgraded(d, 12) = Up0012(d) /\ Upgraded(d, 17) = Up0017(d)
  BY DEF Upgraded
<1>2. /\ IsDatabase(Up0011(d)) /\ Up0011(d).tables = d.tables /\ Up0011(d).keys = d.keys
      /\ Up0011(d).actions = Whitelist8
      /\ Up0011(d).rules = d.rules \cup {"no_delete", "no_update"}
  BY DEF Up0011, IsDatabase
<1>3. /\ IsDatabase(Up0012(d)) /\ Up0012(d).tables = d.tables /\ Up0012(d).keys = d.keys
      /\ Up0012(d).actions = AuditActions /\ Up0012(d).rules = d.rules \cup {OnePerPair}
  BY DEF Up0012, IsDatabase
<1>4. /\ IsDatabase(Up0017(d)) /\ Up0017(d).tables = d.tables /\ Up0017(d).keys = d.keys
      /\ Up0017(d).actions = d.actions /\ Up0017(d).rules = d.rules \cup {"orphan_safety"}
  BY DEF Up0017, IsDatabase
<1>5. QED
  BY <1>1, <1>2, <1>3, <1>4

LEMMA Becomes13 ==
    ASSUME NEW d, IsDatabase(d)
    PROVE  Becomes(Upgraded(d, 13), d, Widened(d.tables, 13), d.keys \cup {ChunkKey})
<1>1. PICK e : e = AddColumns(d, "chunks", Table({"workspace_id"}, {}, {}))
  OBVIOUS
<1>2. Becomes(e, d, Widened(d.tables, 13), d.keys)
  <2>1. Widened(d.tables, 13) = [d.tables EXCEPT !["chunks"] =
            Overlay(Table({"workspace_id"}, {}, {}), d.tables["chunks"])]
    BY DEF Widened, Added
  <2>2. QED
    BY <1>1, <2>1, AddColumnsBecomes
<1>3. PICK f : f = [e EXCEPT !.keys = @ \cup {ChunkKey}]
  OBVIOUS
<1>4. Becomes(f, d, Widened(d.tables, 13), d.keys \cup {ChunkKey})
  BY <1>2, <1>3 DEF Becomes, IsDatabase
<1>5. \E rows : Upgraded(d, 13) = [f EXCEPT !.rows = rows]
  <2> DEFINE image(r) == IF r.table = "chunks"
             THEN [r EXCEPT !.vals = Overlay([x \in {"workspace_id"} |-> Backfill0013(d, r)], @)] ELSE r
  <2>1. Upgraded(d, 13) = Up0013(d)
    BY DEF Upgraded
  <2>2. Up0013(d) = [f EXCEPT !.rows = {image(r) : r \in f.rows}]
    BY <1>1, <1>3 DEF Up0013, Fill, ChunkKey
  <2>3. QED
    BY <2>1, <2>2
<1>6. QED
  BY <1>4, <1>5 DEF Becomes, IsDatabase

LEMMA Becomes14 ==
    ASSUME NEW d, IsDatabase(d)
    PROVE  Becomes(Upgraded(d, 14), d,
                   [Widened(d.tables, 14) EXCEPT !["feedbacks"] = Restrict1(@, {"score"})],
                   {k \in d.keys \cup {FeedbackKey} : ~(k.table = "feedbacks" /\ k.column \in {"score"})})
<1>1. PICK placed : placed = Fill(d, "feedbacks", "workspace_id", LAMBDA r :
          Row(d, "conversations", Row(d, "messages", r.vals.message_id).vals.conversation_id)
              .vals.workspace_id)
  OBVIOUS
<1>2. PICK rated : rated = Fill(placed, "feedbacks", "rating", LAMBDA r : "like")
  OBVIOUS
<1>3. PICK columns : columns = AddColumns(rated, "feedbacks",
          Table({"workspace_id"}, {"rating", "attribution_status"}, {"ragas_scores"}))
  OBVIOUS
<1>4. PICK keyed : keyed = [columns EXCEPT !.keys = @ \cup {FeedbackKey}]
  OBVIOUS
<1>5. Upgraded(d, 14) = DropColumns(keyed, "feedbacks", {"score"})
  <2>1. Upgraded(d, 14) = Up0014(d)
    BY DEF Upgraded
  <2>2. QED
    BY <1>1, <1>2, <1>3, <1>4, <2>1 DEF Up0014, Fill, FeedbackKey
<1>6. Becomes(placed, d, d.tables, d.keys)
  <2>1. \E rows : placed = [d EXCEPT !.rows = rows]
    BY <1>1 DEF Fill
  <2>2. QED
    BY <2>1, RowsBecome
<1>7. Becomes(rated, d, d.tables, d.keys)
  <2>1. \E rows : rated = [placed EXCEPT !.rows = rows]
    BY <1>2 DEF Fill
  <2>2. Becomes(rated, placed, placed.tables, placed.keys)
    BY <1>6, <2>1, RowsBecome DEF Becomes
  <2>3. QED
    BY <1>6, <2>2 DEF Becomes
<1>8. Becomes(columns, d, Widened(d.tables, 14), d.keys)
  <2>1. Widened(d.tables, 14) = [d.tables EXCEPT !["feedbacks"] = Overlay(
            Table({"workspace_id"}, {"rating", "attribution_status"}, {"ragas_scores"}),
            d.tables["feedbacks"])]
    BY DEF Widened, Added
  <2>2. IsDatabase(rated) /\ rated.tables = d.tables /\ rated.keys = d.keys
    BY <1>7 DEF Becomes
  <2>3. Becomes(columns, rated, [rated.tables EXCEPT !["feedbacks"] = Overlay(
            Table({"workspace_id"}, {"rating", "attribution_status"}, {"ragas_scores"}),
            rated.tables["feedbacks"])], rated.keys)
    BY <1>3, <2>2, AddColumnsBecomes
  <2>4. Becomes(columns, rated, Widened(d.tables, 14), d.keys)
    BY <2>1, <2>2, <2>3
  <2>5. QED
    BY <1>7, <2>4 DEF Becomes
<1>9. Becomes(keyed, d, Widened(d.tables, 14), d.keys \cup {FeedbackKey})
  BY <1>4, <1>8 DEF Becomes, IsDatabase
<1>10. PICK f, K : f = keyed.tables /\ K = keyed.keys
  OBVIOUS
<1>11. Becomes(Upgraded(d, 14), keyed, [f EXCEPT !["feedbacks"] = Restrict1(f["feedbacks"], {"score"})],
               {k \in K : ~(k.table = "feedbacks" /\ k.column \in {"score"})})
  <2>1. IsDatabase(keyed)
    BY <1>9 DEF Becomes
  <2>2. QED
    BY <1>5, <1>10, <2>1, DropColumnsBecomes
<1>12. f = Widened(d.tables, 14) /\ K = d.keys \cup {FeedbackKey}
  BY <1>9, <1>10 DEF Becomes
<1>13. Becomes(Upgraded(d, 14), d, [f EXCEPT !["feedbacks"] = Restrict1(f["feedbacks"], {"score"})],
               {k \in K : ~(k.table = "feedbacks" /\ k.column \in {"score"})})
  BY <1>9, <1>11 DEF Becomes
<1>14. QED
  BY <1>12, <1>13

LEMMA Becomes15to16 ==
    ASSUME NEW d, IsDatabase(d)
    PROVE  /\ Becomes(Upgraded(d, 15), d, Widened(d.tables, 15), d.keys)
           /\ Becomes(Upgraded(d, 16), d, Overlay(Tickets, d.tables), d.keys \cup TicketKeys)
<1>1. Upgraded(d, 15) = AddColumns(d, "feedbacks", Table({}, {}, {"comment"}))
  BY DEF Upgraded, Up0015
<1>2. Upgraded(d, 16) = AddTables(d, Tickets, TicketKeys)
  BY DEF Upgraded, Up0016
<1>3. Widened(d.tables, 15) = [d.tables EXCEPT !["feedbacks"] =
          Overlay(Table({}, {}, {"comment"}), d.tables["feedbacks"])]
  BY DEF Widened, Added
<1>4. QED
  BY <1>1, <1>2, <1>3, AddTablesBecomes, AddColumnsBecomes

LEMMA SchemaSteps ==
    /\ Schemas[0] = Nothing0
    /\ Schemas[3] = Schemas[2]
    /\ \A n \in Revisions : Schemas[n] = Upgraded(Schemas[n - 1], n)
    /\ \A n \in 0 .. 17 : IsDatabase(Schemas[n])
<1>1. \A n \in 0 .. 17 :
          Schemas[n] = IF n = 0 THEN Nothing0
                       ELSE IF n \in Revisions THEN Upgraded(Schemas[n - 1], n) ELSE Schemas[n - 1]
  BY SchemasBuilt DEF HeadRev
<1>2. Schemas[0] = Nothing0 /\ Schemas[3] = Schemas[2]
  BY <1>1 DEF Revisions, HeadRev
<1>3. \A n \in Revisions : Schemas[n] = Upgraded(Schemas[n - 1], n)
  BY <1>1 DEF Revisions, HeadRev
<1>4. IsDatabase(Schemas[0])
  BY <1>2 DEF Nothing0, IsDatabase
<1>5. ASSUME NEW n \in 1 .. 17, IsDatabase(Schemas[n - 1]) PROVE IsDatabase(Schemas[n])
  <2>1. Schemas[n] = IF n \in Revisions THEN Upgraded(Schemas[n - 1], n) ELSE Schemas[n - 1]
    BY <1>1
  <2>2. n \in Revisions => IsDatabase(Upgraded(Schemas[n - 1], n))
    BY <1>5, UpgradePreserves
  <2>3. QED
    BY <1>5, <2>1, <2>2
<1>6. IsDatabase(Schemas[1]) /\ IsDatabase(Schemas[2]) /\ IsDatabase(Schemas[3])
      /\ IsDatabase(Schemas[4]) /\ IsDatabase(Schemas[5])
  BY <1>4, <1>5
<1>7. IsDatabase(Schemas[6]) /\ IsDatabase(Schemas[7]) /\ IsDatabase(Schemas[8])
      /\ IsDatabase(Schemas[9]) /\ IsDatabase(Schemas[10])
  BY <1>5, <1>6
<1>8. IsDatabase(Schemas[11]) /\ IsDatabase(Schemas[12]) /\ IsDatabase(Schemas[13])
      /\ IsDatabase(Schemas[14]) /\ IsDatabase(Schemas[15])
  BY <1>5, <1>7
<1>9. IsDatabase(Schemas[16]) /\ IsDatabase(Schemas[17])
  BY <1>5, <1>8
<1>10. ASSUME NEW n \in 0 .. 17 PROVE IsDatabase(Schemas[n])
  BY <1>4, <1>6, <1>7, <1>8, <1>9
<1>11. QED
  BY <1>2, <1>3, <1>10

\* The tables that change, and when.
Wider(f, n) == Overlay(Added(n).columns, f)

UsersAt(n) ==
    IF n < 6 THEN Tables1["users"] ELSE IF n < 7 THEN Wider(Tables1["users"], 6)
    ELSE Wider(Wider(Tables1["users"], 6), 7)
RolesAt(n) == IF n < 4 THEN Tables1["roles"] ELSE Wider(Tables1["roles"], 4)
AlertsAt(n) == IF n < 2 THEN Tables1["drift_alerts"] ELSE Wider(Tables1["drift_alerts"], 2)
CategoriesAt(n) ==
    IF n < 10 THEN Tables1["feedback_categories"] ELSE Wider(Tables1["feedback_categories"], 10)
ChunksAt(n) == IF n < 13 THEN Tables1["chunks"] ELSE Wider(Tables1["chunks"], 13)
Rated == Restrict1(Wider(Tables1["feedbacks"], 14), {"score"})
FeedbacksAt(n) ==
    IF n < 14 THEN Tables1["feedbacks"] ELSE IF n < 15 THEN Rated ELSE Wider(Rated, 15)

\* The tables of revision n.
NamesAt(n) ==
    Names1 \cup (IF n < 5 THEN {} ELSE {"sensitive_values"})
           \cup (IF n < 8 THEN {} ELSE {"api_tokens"})
           \cup (IF n < 9 THEN {} ELSE {"password_reset_audit"})
           \cup (IF n < 10 THEN {} ELSE {"ticket_statuses"})
           \cup (IF n < 16 THEN {} ELSE {"feedback_attributions", "feedback_tickets"})

TableAt(n, t) ==
    CASE t = "users" -> UsersAt(n) [] t = "roles" -> RolesAt(n) [] t = "drift_alerts" -> AlertsAt(n)
      [] t = "feedback_categories" -> CategoriesAt(n) [] t = "chunks" -> ChunksAt(n)
      [] t = "feedbacks" -> FeedbacksAt(n)
      [] t = "sensitive_values" -> SensitiveValues[t] [] t = "api_tokens" -> ApiTokens[t]
      [] t = "password_reset_audit" -> PasswordResets[t] [] t = "ticket_statuses" -> TicketStatuses[t]
      [] t \in {"feedback_attributions", "feedback_tickets"} -> Tickets[t]
      [] OTHER -> Tables1[t]

AreAt(f, n) == DOMAIN f = NamesAt(n) /\ \A t \in NamesAt(n) : f[t] = TableAt(n, t)

LEMMA Names1Tables == DOMAIN Tables1 = Names1
<1>1. /\ DOMAIN Identity = {"users", "workspaces", "roles", "permissions"}
      /\ DOMAIN Memberships = {"role_permissions", "user_roles"}
      /\ DOMAIN Corpus = {"documents", "chunks", "acls"}
      /\ DOMAIN Conversations = {"conversations", "messages", "citations"}
      /\ DOMAIN Feedbacks = {"feedback_tags", "feedback_categories", "feedbacks"}
      /\ DOMAIN Records = {"audit_logs", "evaluation_results", "drift_alerts"}
  BY DEF Identity, Memberships, Corpus, Conversations, Feedbacks, Records
<1>2. PICK a, b : /\ a = Overlay(Identity, Overlay(Memberships, Corpus))
                  /\ b = Overlay(Conversations, Overlay(Feedbacks, Records))
  OBVIOUS
<1>3. DOMAIN a = DOMAIN Identity \cup DOMAIN Memberships \cup DOMAIN Corpus
  BY <1>2 DEF Overlay
<1>4. DOMAIN b = DOMAIN Conversations \cup DOMAIN Feedbacks \cup DOMAIN Records
  BY <1>2 DEF Overlay
<1>5. DOMAIN Tables1 = DOMAIN a \cup DOMAIN b
  BY <1>2 DEF Overlay, Tables1
<1>6. QED
  BY <1>1, <1>3, <1>4, <1>5 DEF Names1

LEMMA At1 == ASSUME NEW f, f = Overlay(Tables1, Nothing0.tables) PROVE AreAt(f, 1)
<1>1. DOMAIN Nothing0.tables = {}
  BY DEF Nothing0
<1>2. DOMAIN f = Names1 /\ \A t \in Names1 : f[t] = Tables1[t]
  BY <1>1, Names1Tables DEF Overlay
<1>3. NamesAt(1) = Names1
  BY DEF NamesAt
<1>4. ASSUME NEW t \in Names1 PROVE TableAt(1, t) = Tables1[t]
  BY DEF TableAt, UsersAt, RolesAt, AlertsAt, CategoriesAt, ChunksAt, FeedbacksAt, Names1
<1>5. QED
  BY <1>2, <1>3, <1>4 DEF AreAt

\* A migration that widens a table, one that adds tables and one that does neither.
LEMMA WidenedAt ==
    ASSUME NEW f, NEW n \in {2, 4, 6, 7, 13, 15}, AreAt(f, IF n = 4 THEN 2 ELSE n - 1)
    PROVE  AreAt(Widened(f, n), n)
<1>1. PICK m, t, g : m = (IF n = 4 THEN 2 ELSE n - 1) /\ t = Added(n).t /\ g = Widened(f, n)
  OBVIOUS
<1>2. t \in Names1 /\ NamesAt(m) = NamesAt(n) /\ Names1 \subseteq NamesAt(m)
  BY <1>1 DEF Added, Names1, NamesAt
<1>3. DOMAIN g = NamesAt(n) /\ \A u \in NamesAt(n) : g[u] = IF u = t THEN Wider(f[t], n) ELSE f[u]
  BY <1>1, <1>2 DEF Widened, Wider, AreAt
<1>4. ASSUME NEW u \in NamesAt(n), u # t PROVE TableAt(n, u) = TableAt(m, u)
  <2>1. CASE n = 2
    <3>1. m = 1 /\ t = "drift_alerts" /\ u # "drift_alerts"
      BY <1>1, <1>4, <2>1 DEF Added
    <3>2. QED
      BY <2>1, <3>1 DEF TableAt, UsersAt, RolesAt, AlertsAt, CategoriesAt, ChunksAt, FeedbacksAt
  <2>2. CASE n = 4
    <3>1. m = 2 /\ t = "roles" /\ u # "roles"
      BY <1>1, <1>4, <2>2 DEF Added
    <3>2. QED
      BY <2>2, <3>1 DEF TableAt, UsersAt, RolesAt, AlertsAt, CategoriesAt, ChunksAt, FeedbacksAt
  <2>3. CASE n = 6
    <3>1. m = 5 /\ t = "users" /\ u # "users"
      BY <1>1, <1>4, <2>3 DEF Added
    <3>2. QED
      BY <2>3, <3>1 DEF TableAt, UsersAt, RolesAt, AlertsAt, CategoriesAt, ChunksAt, FeedbacksAt
  <2>4. CASE n = 7
    <3>1. m = 6 /\ t = "users" /\ u # "users"
      BY <1>1, <1>4, <2>4 DEF Added
    <3>2. QED
      BY <2>4, <3>1 DEF TableAt, UsersAt, RolesAt, AlertsAt, CategoriesAt, ChunksAt, FeedbacksAt
  <2>5. CASE n = 13
    <3>1. m = 12 /\ t = "chunks" /\ u # "chunks"
      BY <1>1, <1>4, <2>5 DEF Added
    <3>2. QED
      BY <2>5, <3>1 DEF TableAt, UsersAt, RolesAt, AlertsAt, CategoriesAt, ChunksAt, FeedbacksAt
  <2>6. CASE n = 15
    <3>1. m = 14 /\ t = "feedbacks" /\ u # "feedbacks"
      BY <1>1, <1>4, <2>6 DEF Added
    <3>2. QED
      BY <2>6, <3>1 DEF TableAt, UsersAt, RolesAt, AlertsAt, CategoriesAt, ChunksAt, FeedbacksAt
  <2>7. QED
    BY <2>1, <2>2, <2>3, <2>4, <2>5, <2>6
<1>5. TableAt(n, t) = Wider(TableAt(m, t), n)
  <2>1. CASE n = 2
    <3>1. m = 1 /\ t = "drift_alerts"
      BY <1>1, <2>1 DEF Added
    <3>2. TableAt(2, "drift_alerts") = AlertsAt(2) /\ TableAt(1, "drift_alerts") = AlertsAt(1)
      BY DEF TableAt
    <3>3. AlertsAt(2) = Wider(AlertsAt(1), 2)
      BY DEF AlertsAt
    <3>4. QED
      BY <2>1, <3>1, <3>2, <3>3
  <2>2. CASE n = 4
    <3>1. m = 2 /\ t = "roles"
      BY <1>1, <2>2 DEF Added
    <3>2. TableAt(4, "roles") = RolesAt(4) /\ TableAt(2, "roles") = RolesAt(2)
      BY DEF TableAt
    <3>3. RolesAt(4) = Wider(RolesAt(2), 4)
      BY DEF RolesAt
    <3>4. QED
      BY <2>2, <3>1, <3>2, <3>3
  <2>3. CASE n = 6
    <3>1. m = 5 /\ t = "users"
      BY <1>1, <2>3 DEF Added
    <3>2. TableAt(6, "users") = UsersAt(6) /\ TableAt(5, "users") = UsersAt(5)
      BY DEF TableAt
    <3>3. UsersAt(6) = Wider(UsersAt(5), 6)
      BY DEF UsersAt
    <3>4. QED
      BY <2>3, <3>1, <3>2, <3>3
  <2>4. CASE n = 7
    <3>1. m = 6 /\ t = "users"
      BY <1>1, <2>4 DEF Added
    <3>2. TableAt(7, "users") = UsersAt(7) /\ TableAt(6, "users") = UsersAt(6)
      BY DEF TableAt
    <3>3. UsersAt(7) = Wider(UsersAt(6), 7)
      BY DEF UsersAt
    <3>4. QED
      BY <2>4, <3>1, <3>2, <3>3
  <2>5. CASE n = 13
    <3>1. m = 12 /\ t = "chunks"
      BY <1>1, <2>5 DEF Added
    <3>2. TableAt(13, "chunks") = ChunksAt(13) /\ TableAt(12, "chunks") = ChunksAt(12)
      BY DEF TableAt
    <3>3. ChunksAt(13) = Wider(ChunksAt(12), 13)
      BY DEF ChunksAt
    <3>4. QED
      BY <2>5, <3>1, <3>2, <3>3
  <2>6. CASE n = 15
    <3>1. m = 14 /\ t = "feedbacks"
      BY <1>1, <2>6 DEF Added
    <3>2. TableAt(15, "feedbacks") = FeedbacksAt(15) /\ TableAt(14, "feedbacks") = FeedbacksAt(14)
      BY DEF TableAt
    <3>3. FeedbacksAt(15) = Wider(FeedbacksAt(14), 15)
      BY DEF FeedbacksAt
    <3>4. QED
      BY <2>6, <3>1, <3>2, <3>3
  <2>7. QED
    BY <2>1, <2>2, <2>3, <2>4, <2>5, <2>6
<1>6. \A u \in NamesAt(n) : f[u] = TableAt(m, u)
  BY <1>1, <1>2 DEF AreAt
<1>7. \A u \in NamesAt(n) : g[u] = TableAt(n, u)
  BY <1>2, <1>3, <1>4, <1>5, <1>6
<1>8. QED
  BY <1>1, <1>3, <1>7 DEF AreAt

LEMMA AddedAt ==
    ASSUME NEW f, NEW n \in {5, 8, 9, 16}, AreAt(f, n - 1), NEW tables,
           tables = IF n = 5 THEN SensitiveValues ELSE IF n = 8 THEN ApiTokens
                    ELSE IF n = 9 THEN PasswordResets ELSE Tickets
    PROVE  AreAt(Overlay(tables, f), n)
<1>1. PICK m, g : m = n - 1 /\ g = Overlay(tables, f)
  OBVIOUS
<1>2. DOMAIN tables = IF n = 5 THEN {"sensitive_values"} ELSE IF n = 8 THEN {"api_tokens"}
                      ELSE IF n = 9 THEN {"password_reset_audit"}
                      ELSE {"feedback_attributions", "feedback_tickets"}
  BY DEF SensitiveValues, ApiTokens, PasswordResets, Tickets
<1>3. NamesAt(n) = DOMAIN tables \cup NamesAt(m)
  BY <1>1, <1>2 DEF NamesAt
<1>4. \A t \in DOMAIN tables : TableAt(n, t) = tables[t]
  BY <1>2 DEF TableAt
<1>5. \A t \in NamesAt(m) \ DOMAIN tables : TableAt(n, t) = TableAt(m, t)
  BY <1>1 DEF TableAt, UsersAt, RolesAt, AlertsAt, CategoriesAt, ChunksAt, FeedbacksAt
<1>6. DOMAIN f = NamesAt(m) /\ \A t \in NamesAt(m) : f[t] = TableAt(m, t)
  BY <1>1 DEF AreAt
<1>7. /\ DOMAIN g = DOMAIN tables \cup NamesAt(m) /\ \A t \in DOMAIN tables : g[t] = tables[t]
      /\ \A t \in NamesAt(m) \ DOMAIN tables : g[t] = f[t]
  BY <1>1, <1>6 DEF Overlay
<1>8. AreAt(g, n)
  BY <1>3, <1>4, <1>5, <1>6, <1>7 DEF AreAt
<1>9. QED
  BY <1>1, <1>8

LEMMA SameAt == ASSUME NEW f, NEW n \in {3, 11, 12, 17}, AreAt(f, n - 1) PROVE AreAt(f, n)
<1>1. NamesAt(n) = NamesAt(n - 1)
  BY DEF NamesAt
<1>2. \A t \in NamesAt(n) : TableAt(n, t) = TableAt(n - 1, t)
  BY DEF TableAt, UsersAt, RolesAt, AlertsAt, CategoriesAt, ChunksAt, FeedbacksAt
<1>3. QED
  BY <1>1, <1>2 DEF AreAt

LEMMA At10 == ASSUME NEW f, AreAt(f, 9) PROVE AreAt(Overlay(TicketStatuses, Widened(f, 10)), 10)
<1>1. PICK g, h : g = Widened(f, 10) /\ h = Overlay(TicketStatuses, g)
  OBVIOUS
<1>2. DOMAIN f = NamesAt(9) /\ \A t \in NamesAt(9) : f[t] = TableAt(9, t)
  BY DEF AreAt
<1>3. /\ NamesAt(10) = NamesAt(9) \cup {"ticket_statuses"} /\ "feedback_categories" \in NamesAt(9)
      /\ "ticket_statuses" \notin NamesAt(9)
  BY DEF NamesAt, Names1
<1>4. /\ DOMAIN g = NamesAt(9) /\ g["feedback_categories"] = Wider(f["feedback_categories"], 10)
      /\ \A t \in NamesAt(9) : t # "feedback_categories" => g[t] = f[t]
  BY <1>1, <1>2, <1>3 DEF Widened, Wider, Added
<1>5. DOMAIN TicketStatuses = {"ticket_statuses"}
  BY DEF TicketStatuses
<1>6. /\ DOMAIN h = NamesAt(10) /\ h["ticket_statuses"] = TicketStatuses["ticket_statuses"]
      /\ \A t \in NamesAt(9) : h[t] = g[t]
  BY <1>1, <1>3, <1>4, <1>5 DEF Overlay
<1>7. ASSUME NEW t \in NamesAt(9), t # "feedback_categories" PROVE TableAt(10, t) = TableAt(9, t)
  BY <1>7 DEF TableAt, UsersAt, RolesAt, AlertsAt, ChunksAt, FeedbacksAt
<1>8. /\ TableAt(10, "feedback_categories") = Wider(TableAt(9, "feedback_categories"), 10)
      /\ TableAt(10, "ticket_statuses") = TicketStatuses["ticket_statuses"]
  BY DEF TableAt, CategoriesAt
<1>9. \A t \in NamesAt(10) : h[t] = TableAt(10, t)
  BY <1>2, <1>3, <1>4, <1>6, <1>7, <1>8
<1>10. AreAt(h, 10)
  BY <1>6, <1>9 DEF AreAt
<1>11. QED
  BY <1>1, <1>10

LEMMA At14 ==
    ASSUME NEW f, AreAt(f, 13)
    PROVE  AreAt([Widened(f, 14) EXCEPT !["feedbacks"] = Restrict1(@, {"score"})], 14)
<1>1. PICK g, h : g = Widened(f, 14) /\ h = [g EXCEPT !["feedbacks"] = Restrict1(@, {"score"})]
  OBVIOUS
<1>2. DOMAIN f = NamesAt(13) /\ \A t \in NamesAt(13) : f[t] = TableAt(13, t)
  BY DEF AreAt
<1>3. NamesAt(14) = NamesAt(13) /\ "feedbacks" \in NamesAt(13)
  BY DEF NamesAt, Names1
<1>4. /\ DOMAIN g = NamesAt(13) /\ g["feedbacks"] = Wider(f["feedbacks"], 14)
      /\ \A t \in NamesAt(13) : t # "feedbacks" => g[t] = f[t]
  BY <1>1, <1>2, <1>3 DEF Widened, Wider, Added
<1>5. /\ DOMAIN h = NamesAt(13) /\ h["feedbacks"] = Restrict1(g["feedbacks"], {"score"})
      /\ \A t \in NamesAt(13) : t # "feedbacks" => h[t] = f[t]
  BY <1>1, <1>3, <1>4
<1>6. ASSUME NEW t \in NamesAt(13), t # "feedbacks" PROVE TableAt(14, t) = TableAt(13, t)
  BY <1>6 DEF TableAt, UsersAt, RolesAt, AlertsAt, ChunksAt, CategoriesAt
<1>7. TableAt(14, "feedbacks") = Rated /\ TableAt(13, "feedbacks") = Tables1["feedbacks"]
  BY DEF TableAt, FeedbacksAt
<1>8. h["feedbacks"] = Rated
  BY <1>2, <1>3, <1>4, <1>5, <1>7 DEF Rated
<1>9. AreAt(h, 14)
  BY <1>2, <1>3, <1>5, <1>6, <1>7, <1>8 DEF AreAt
<1>10. QED
  BY <1>1, <1>9

LEMMA TablesOfRevisions == \A n \in 1 .. 17 : AreAt(Schemas[n].tables, n)
<1> DEFINE f(n) == Schemas[n].tables
<1>1. AreAt(f(1), 1)
  <2>1. IsDatabase(Schemas[0]) /\ Schemas[1] = Upgraded(Schemas[0], 1) /\ Schemas[0] = Nothing0
    BY SchemaSteps DEF Revisions, HeadRev
  <2>2. f(1) = Overlay(Tables1, Nothing0.tables)
    BY <2>1, Becomes1to9 DEF Becomes
  <2>3. QED
    BY <2>2, At1
<1>2. ASSUME NEW n \in {2, 4, 6, 7}, NEW m, m = n - 1, AreAt(f(m), IF n = 4 THEN 2 ELSE n - 1)
      PROVE  AreAt(f(n), n)
  <2>1. IsDatabase(Schemas[m]) /\ Schemas[n] = Upgraded(Schemas[m], n)
    BY <1>2, SchemaSteps DEF Revisions, HeadRev
  <2>2. f(n) = Widened(f(m), n)
    BY <2>1, Becomes1to9 DEF Becomes
  <2>3. AreAt(Widened(f(m), n), n)
    BY <1>2, WidenedAt
  <2>4. QED
    BY <2>2, <2>3
<1>3. ASSUME NEW n \in {13, 15}, NEW m, m = n - 1, AreAt(f(m), n - 1)
      PROVE  AreAt(f(n), n)
  <2>1. IsDatabase(Schemas[m]) /\ Schemas[n] = Upgraded(Schemas[m], n)
    BY <1>3, SchemaSteps DEF Revisions, HeadRev
  <2>2. f(n) = Widened(f(m), n)
    BY <2>1, Becomes13, Becomes15to16 DEF Becomes
  <2>3. AreAt(Widened(f(m), n), n)
    BY <1>3, WidenedAt
  <2>4. QED
    BY <2>2, <2>3
<1>4. ASSUME NEW n \in {5, 8, 9, 16}, NEW m, m = n - 1, AreAt(f(m), n - 1)
      PROVE  AreAt(f(n), n)
  <2>1. IsDatabase(Schemas[m]) /\ Schemas[n] = Upgraded(Schemas[m], n)
    BY <1>4, SchemaSteps DEF Revisions, HeadRev
  <2>2. PICK tables : tables = IF n = 5 THEN SensitiveValues ELSE IF n = 8 THEN ApiTokens
                               ELSE IF n = 9 THEN PasswordResets ELSE Tickets
    OBVIOUS
  <2>3. f(n) = Overlay(tables, f(m))
    BY <2>1, <2>2, Becomes1to9, Becomes15to16 DEF Becomes
  <2>4. AreAt(Overlay(tables, f(m)), n)
    BY <1>4, <2>2, AddedAt
  <2>5. QED
    BY <2>3, <2>4
<1>5. ASSUME NEW n \in {11, 12, 17}, NEW m, m = n - 1, AreAt(f(m), n - 1)
      PROVE  AreAt(f(n), n)
  <2>1. IsDatabase(Schemas[m]) /\ Schemas[n] = Upgraded(Schemas[m], n)
    BY <1>5, SchemaSteps DEF Revisions, HeadRev
  <2>2. f(n) = f(m)
    BY <2>1, Becomes11to12
  <2>3. QED
    BY <1>5, <2>2, SameAt
<1>6. ASSUME AreAt(f(9), 9) PROVE AreAt(f(10), 10)
  <2>1. IsDatabase(Schemas[9]) /\ Schemas[10] = Upgraded(Schemas[9], 10)
    BY SchemaSteps DEF Revisions, HeadRev
  <2>2. f(10) = Overlay(TicketStatuses, Widened(f(9), 10))
    BY <2>1, Becomes10 DEF Becomes
  <2>3. QED
    BY <1>6, <2>2, At10
<1>7. ASSUME AreAt(f(13), 13) PROVE AreAt(f(14), 14)
  <2>1. IsDatabase(Schemas[13]) /\ Schemas[14] = Upgraded(Schemas[13], 14)
    BY SchemaSteps DEF Revisions, HeadRev
  <2>2. f(14) = [Widened(f(13), 14) EXCEPT !["feedbacks"] = Restrict1(@, {"score"})]
    BY <2>1, Becomes14 DEF Becomes
  <2>3. QED
    BY <1>7, <2>2, At14
<1>8. AreAt(f(2), 2) /\ AreAt(f(3), 3) /\ AreAt(f(4), 4)
  <2>1. AreAt(f(2), 2)
    BY <1>1, <1>2
  <2>2. f(3) = f(2)
    BY SchemaSteps
  <2>3. AreAt(f(3), 3)
    BY <2>1, <2>2, SameAt
  <2>4. AreAt(f(4), 4)
    BY <1>2, <2>1, <2>2
  <2>5. QED
    BY <2>1, <2>3, <2>4
<1> HIDE DEF f
<1>9. AreAt(f(5), 5)
  BY <1>4, <1>8
<1>10. AreAt(f(6), 6)
  BY <1>2, <1>9
<1>11. AreAt(f(7), 7)
  BY <1>2, <1>10
<1>12. AreAt(f(8), 8)
  BY <1>4, <1>11
<1>13. AreAt(f(9), 9)
  BY <1>4, <1>12
<1>14. AreAt(f(10), 10)
  BY <1>6, <1>13
<1>15. AreAt(f(11), 11)
  BY <1>5, <1>14
<1>16. AreAt(f(12), 12)
  BY <1>5, <1>15
<1>17. AreAt(f(13), 13)
  BY <1>3, <1>16
<1>18. AreAt(f(14), 14)
  BY <1>7, <1>17
<1>19. AreAt(f(15), 15)
  BY <1>3, <1>18
<1>20. AreAt(f(16), 16)
  BY <1>4, <1>19
<1>21. AreAt(f(17), 17)
  BY <1>5, <1>20
<1>22. \A n \in 1 .. 17 : AreAt(f(n), n)
  BY <1>1, <1>8, <1>9, <1>10, <1>11, <1>12, <1>13, <1>14, <1>15, <1>16, <1>17, <1>18, <1>19,
     <1>20, <1>21
<1>23. QED
  BY <1>22 DEF f

LEMMA TableColumns ==
    ASSUME NEW a, NEW b, NEW c
    PROVE  /\ DOMAIN Table(a, b, c) = a \cup b \cup c
           /\ \A x \in a : Table(a, b, c)[x] = "required"
           /\ \A x \in b \ a : Table(a, b, c)[x] = "defaulted"
           /\ \A x \in c \ (a \cup b) : Table(a, b, c)[x] = "nullable"
  BY DEF Table

LEMMA Sections1 ==
    /\ \A t \in {"users", "workspaces", "roles", "permissions"} : Tables1[t] = Identity[t]
    /\ \A t \in {"role_permissions", "user_roles"} : Tables1[t] = Memberships[t]
    /\ \A t \in {"documents", "chunks", "acls"} : Tables1[t] = Corpus[t]
    /\ \A t \in {"conversations", "messages", "citations"} : Tables1[t] = Conversations[t]
    /\ \A t \in {"feedback_tags", "feedback_categories", "feedbacks"} : Tables1[t] = Feedbacks[t]
    /\ \A t \in {"audit_logs", "evaluation_results", "drift_alerts"} : Tables1[t] = Records[t]
<1>1. /\ DOMAIN Identity = {"users", "workspaces", "roles", "permissions"}
      /\ DOMAIN Memberships = {"role_permissions", "user_roles"}
      /\ DOMAIN Corpus = {"documents", "chunks", "acls"}
      /\ DOMAIN Conversations = {"conversations", "messages", "citations"}
      /\ DOMAIN Feedbacks = {"feedback_tags", "feedback_categories", "feedbacks"}
      /\ DOMAIN Records = {"audit_logs", "evaluation_results", "drift_alerts"}
  BY DEF Identity, Memberships, Corpus, Conversations, Feedbacks, Records
<1>2. PICK a, b, c, e : /\ a = Overlay(Memberships, Corpus) /\ c = Overlay(Identity, a)
                        /\ b = Overlay(Feedbacks, Records) /\ e = Overlay(Conversations, b)
  OBVIOUS
<1>3. /\ DOMAIN a = DOMAIN Memberships \cup DOMAIN Corpus
      /\ \A t \in DOMAIN a : a[t] = IF t \in DOMAIN Memberships THEN Memberships[t] ELSE Corpus[t]
  BY <1>2 DEF Overlay
<1>4. /\ DOMAIN c = DOMAIN Identity \cup DOMAIN a
      /\ \A t \in DOMAIN c : c[t] = IF t \in DOMAIN Identity THEN Identity[t] ELSE a[t]
  BY <1>2 DEF Overlay
<1>5. /\ DOMAIN b = DOMAIN Feedbacks \cup DOMAIN Records
      /\ \A t \in DOMAIN b : b[t] = IF t \in DOMAIN Feedbacks THEN Feedbacks[t] ELSE Records[t]
  BY <1>2 DEF Overlay
<1>6. /\ DOMAIN e = DOMAIN Conversations \cup DOMAIN b
      /\ \A t \in DOMAIN e : e[t] = IF t \in DOMAIN Conversations THEN Conversations[t] ELSE b[t]
  BY <1>2 DEF Overlay
<1>7. /\ DOMAIN Tables1 = DOMAIN c \cup DOMAIN e
      /\ \A t \in DOMAIN Tables1 : Tables1[t] = IF t \in DOMAIN c THEN c[t] ELSE e[t]
  BY <1>2 DEF Overlay, Tables1
<1>8. \A t \in DOMAIN Identity : Tables1[t] = Identity[t]
  BY <1>1, <1>4, <1>7
<1>9. \A t \in DOMAIN Memberships : Tables1[t] = Memberships[t]
  BY <1>1, <1>3, <1>4, <1>7
<1>10. \A t \in DOMAIN Corpus : Tables1[t] = Corpus[t]
  BY <1>1, <1>3, <1>4, <1>7
<1>11. \A t \in DOMAIN Conversations : Tables1[t] = Conversations[t] /\ t \notin DOMAIN c
  BY <1>1, <1>3, <1>4, <1>6, <1>7
<1>12. \A t \in DOMAIN Feedbacks : Tables1[t] = Feedbacks[t]
  <2>1. \A t \in DOMAIN Feedbacks : t \in DOMAIN e /\ t \notin DOMAIN c /\ t \notin DOMAIN Conversations
    BY <1>1, <1>3, <1>4, <1>5, <1>6
  <2>2. QED
    BY <2>1, <1>5, <1>6, <1>7
<1>13. \A t \in DOMAIN Records : Tables1[t] = Records[t]
  <2>1. \A t \in DOMAIN Records :
            t \in DOMAIN e /\ t \notin DOMAIN c /\ t \notin DOMAIN Conversations /\ t \notin DOMAIN Feedbacks
    BY <1>1, <1>3, <1>4, <1>5, <1>6
  <2>2. QED
    BY <2>1, <1>5, <1>6, <1>7
<1>14. QED
  BY <1>1, <1>8, <1>9, <1>10, <1>11, <1>12, <1>13

\* The columns of the tables that change.
LEMMA AddedColumns ==
    /\ DOMAIN Added(2).columns = DriftColumns
    /\ DOMAIN Added(4).columns = {"workspace_scoped"}
    /\ DOMAIN Added(6).columns = {"deleted_at"}
    /\ DOMAIN Added(7).columns = {"display_name", "avatar_url"}
    /\ DOMAIN Added(10).columns = {"name_zh", "is_system", "description"}
    /\ DOMAIN Added(13).columns = {"workspace_id"}
    /\ DOMAIN Added(14).columns = {"workspace_id", "rating", "attribution_status", "ragas_scores"}
    /\ DOMAIN Added(15).columns = {"comment"}
  BY DEF Added, Table

LEMMA WiderColumns ==
    ASSUME NEW f
    PROVE  /\ DOMAIN Wider(f, 2) = DriftColumns \cup DOMAIN f
           /\ DOMAIN Wider(f, 4) = {"workspace_scoped"} \cup DOMAIN f
           /\ DOMAIN Wider(f, 6) = {"deleted_at"} \cup DOMAIN f
           /\ DOMAIN Wider(f, 7) = {"display_name", "avatar_url"} \cup DOMAIN f
           /\ DOMAIN Wider(f, 10) = {"name_zh", "is_system", "description"} \cup DOMAIN f
           /\ DOMAIN Wider(f, 13) = {"workspace_id"} \cup DOMAIN f
           /\ DOMAIN Wider(f, 14) =
                  {"workspace_id", "rating", "attribution_status", "ragas_scores"} \cup DOMAIN f
           /\ DOMAIN Wider(f, 15) = {"comment"} \cup DOMAIN f
<1>1. \A n \in Nat : DOMAIN Wider(f, n) = DOMAIN Added(n).columns \cup DOMAIN f
  BY DEF Wider, Overlay
<1>2. QED
  BY <1>1, AddedColumns

LEMMA Columns1 ==
    /\ DOMAIN Tables1["users"] = {"id", "username", "email", "password_hash", "status",
                                  "is_super_admin", "attributes", "created_at"}
    /\ DOMAIN Tables1["roles"] = {"id", "name", "description", "status", "is_system", "created_at"}
    /\ DOMAIN Tables1["drift_alerts"] = {"id", "category", "baseline", "current", "triggered_at",
                                         "acknowledged", "workspace_id"}
    /\ DOMAIN Tables1["feedback_categories"] = {"id", "key", "label", "auto_classify_prompt",
                                                "is_active", "sort_order", "created_at"}
    /\ DOMAIN Tables1["chunks"] = {"id", "document_id", "chunk_index", "content", "content_hash",
                                   "is_parent", "position", "created_at", "parent_chunk_id"}
    /\ DOMAIN Tables1["feedbacks"] = {"id", "message_id", "user_id", "score", "auto_categorized",
                                      "comment", "created_at", "reason_tag_id", "category_id"}
<1>1. /\ Tables1["users"] = Identity["users"] /\ Tables1["roles"] = Identity["roles"]
      /\ Tables1["drift_alerts"] = Records["drift_alerts"]
      /\ Tables1["feedback_categories"] = Feedbacks["feedback_categories"]
      /\ Tables1["chunks"] = Corpus["chunks"] /\ Tables1["feedbacks"] = Feedbacks["feedbacks"]
  BY Sections1
<1>2. QED
  BY <1>1 DEF Identity, Records, Feedbacks, Corpus, Table

LEMMA ColumnsAt ==
    /\ \A n \in 1 .. 17 :
          /\ DOMAIN UsersAt(n) = DOMAIN Tables1["users"]
                \cup (IF n < 6 THEN {} ELSE {"deleted_at"})
                \cup (IF n < 7 THEN {} ELSE {"display_name", "avatar_url"})
          /\ DOMAIN RolesAt(n) = DOMAIN Tables1["roles"]
                \cup (IF n < 4 THEN {} ELSE {"workspace_scoped"})
          /\ DOMAIN AlertsAt(n) = DOMAIN Tables1["drift_alerts"]
                \cup (IF n < 2 THEN {} ELSE DriftColumns)
          /\ DOMAIN CategoriesAt(n) = DOMAIN Tables1["feedback_categories"]
                \cup (IF n < 10 THEN {} ELSE {"name_zh", "is_system", "description"})
          /\ DOMAIN ChunksAt(n) = DOMAIN Tables1["chunks"]
                \cup (IF n < 13 THEN {} ELSE {"workspace_id"})
    /\ \A n \in 1 .. 17 : DOMAIN FeedbacksAt(n) =
            IF n < 14 THEN DOMAIN Tables1["feedbacks"]
            ELSE (DOMAIN Tables1["feedbacks"] \ {"score"})
                    \cup {"workspace_id", "rating", "attribution_status", "ragas_scores"}
<1>1. ASSUME NEW n \in 1 .. 17
      PROVE  /\ DOMAIN UsersAt(n) = DOMAIN Tables1["users"]
                \cup (IF n < 6 THEN {} ELSE {"deleted_at"})
                \cup (IF n < 7 THEN {} ELSE {"display_name", "avatar_url"})
             /\ DOMAIN RolesAt(n) = DOMAIN Tables1["roles"]
                \cup (IF n < 4 THEN {} ELSE {"workspace_scoped"})
  <2>1. PICK f, g : f = Tables1["users"] /\ g = Wider(f, 6)
    OBVIOUS
  <2>2. DOMAIN g = {"deleted_at"} \cup DOMAIN f
        /\ DOMAIN Wider(g, 7) = {"display_name", "avatar_url"} \cup DOMAIN g
    BY <2>1, WiderColumns
  <2>3. UsersAt(n) = IF n < 6 THEN f ELSE IF n < 7 THEN g ELSE Wider(g, 7)
    BY <2>1 DEF UsersAt
  <2>4. DOMAIN UsersAt(n) = DOMAIN f \cup (IF n < 6 THEN {} ELSE {"deleted_at"})
                              \cup (IF n < 7 THEN {} ELSE {"display_name", "avatar_url"})
    BY <2>2, <2>3
  <2>5. QED
    BY <2>1, <2>4, WiderColumns DEF RolesAt
<1>2. ASSUME NEW n \in 1 .. 17
      PROVE  /\ DOMAIN AlertsAt(n) = DOMAIN Tables1["drift_alerts"]
                \cup (IF n < 2 THEN {} ELSE DriftColumns)
             /\ DOMAIN CategoriesAt(n) = DOMAIN Tables1["feedback_categories"]
                \cup (IF n < 10 THEN {} ELSE {"name_zh", "is_system", "description"})
             /\ DOMAIN ChunksAt(n) = DOMAIN Tables1["chunks"]
                \cup (IF n < 13 THEN {} ELSE {"workspace_id"})
  BY WiderColumns DEF AlertsAt, CategoriesAt, ChunksAt
<1>3. DOMAIN Rated = (DOMAIN Tables1["feedbacks"] \ {"score"})
                       \cup {"workspace_id", "rating", "attribution_status", "ragas_scores"}
  <2>1. PICK f : f = Wider(Tables1["feedbacks"], 14)
    OBVIOUS
  <2>2. DOMAIN f = DOMAIN Tables1["feedbacks"]
                      \cup {"workspace_id", "rating", "attribution_status", "ragas_scores"}
    BY <2>1, WiderColumns
  <2>3. DOMAIN Rated = DOMAIN f \ {"score"}
    BY <2>1 DEF Rated, Restrict1
  <2>4. QED
    BY <2>2, <2>3
<1>4. DOMAIN Wider(Rated, 15) = DOMAIN Rated
  <2>1. "comment" \in DOMAIN Rated
    BY <1>3, Columns1
  <2>2. QED
    BY <2>1, WiderColumns
<1>5. ASSUME NEW n \in 1 .. 17
      PROVE  DOMAIN FeedbacksAt(n) =
                IF n < 14 THEN DOMAIN Tables1["feedbacks"]
                ELSE (DOMAIN Tables1["feedbacks"] \ {"score"})
                        \cup {"workspace_id", "rating", "attribution_status", "ragas_scores"}
  BY <1>3, <1>4 DEF FeedbacksAt
<1>6. QED
  BY <1>1, <1>2, <1>5

-----------------------------------------------------------------------------
(* The foreign keys and the rules of each revision                         *)

TokenKey == Key("api_tokens", "user_id", "users", "CASCADE")

KeysAt(n) ==
    Keys1 \cup (IF n < 5 THEN {} ELSE SensitiveValueKeys)
          \cup (IF n < 8 THEN {} ELSE {TokenKey})
          \cup (IF n < 9 THEN {} ELSE PasswordResetKeys)
          \cup (IF n < 13 THEN {} ELSE {ChunkKey})
          \cup (IF n < 14 THEN {} ELSE {FeedbackKey})
          \cup (IF n < 16 THEN {} ELSE TicketKeys)

\* The fields of a key, to go through those of a section one by one.
Is(k, t, c, p, o) == k.table = t /\ k.column = c /\ k.target = p /\ k.onDelete = o

LEMMA KeyIs == ASSUME NEW t, NEW c, NEW p, NEW o PROVE Is(Key(t, c, p, o), t, c, p, o)
  BY DEF Key, Is

LEMMA IdentityKeysAre ==
    ASSUME NEW k \in IdentityKeys
    PROVE  \/ Is(k, "workspaces", "owner_id", "users", "RESTRICT")
           \/ Is(k, "role_permissions", "role_id", "roles", "CASCADE")
           \/ Is(k, "role_permissions", "permission_id", "permissions", "CASCADE")
           \/ Is(k, "user_roles", "user_id", "users", "CASCADE")
           \/ Is(k, "user_roles", "role_id", "roles", "CASCADE")
           \/ Is(k, "user_roles", "workspace_id", "workspaces", "CASCADE")
           \/ Is(k, "user_roles", "granted_by", "users", "SET NULL")
           \/ Is(k, "user_roles", "invited_by", "users", "SET NULL")
<1>1. \/ k = Key("workspaces", "owner_id", "users", "RESTRICT")
      \/ k = Key("role_permissions", "role_id", "roles", "CASCADE")
      \/ k = Key("role_permissions", "permission_id", "permissions", "CASCADE")
      \/ k = Key("user_roles", "user_id", "users", "CASCADE")
      \/ k = Key("user_roles", "role_id", "roles", "CASCADE")
      \/ k = Key("user_roles", "workspace_id", "workspaces", "CASCADE")
      \/ k = Key("user_roles", "granted_by", "users", "SET NULL")
      \/ k = Key("user_roles", "invited_by", "users", "SET NULL")
  BY Zenon DEF IdentityKeys
<1>2. QED
  BY <1>1, KeyIs

LEMMA CorpusKeysAre ==
    ASSUME NEW k \in CorpusKeys
    PROVE  \/ Is(k, "documents", "workspace_id", "workspaces", "CASCADE")
           \/ Is(k, "documents", "owner_id", "users", "RESTRICT")
           \/ Is(k, "chunks", "document_id", "documents", "CASCADE")
           \/ Is(k, "chunks", "parent_chunk_id", "chunks", "CASCADE")
           \/ Is(k, "acls", "document_id", "documents", "CASCADE")
           \/ Is(k, "acls", "user_id", "users", "CASCADE")
           \/ Is(k, "acls", "workspace_id", "workspaces", "CASCADE")
           \/ Is(k, "acls", "granted_by", "users", "SET NULL")
<1>1. \/ k = Key("documents", "workspace_id", "workspaces", "CASCADE")
      \/ k = Key("documents", "owner_id", "users", "RESTRICT")
      \/ k = Key("chunks", "document_id", "documents", "CASCADE")
      \/ k = Key("chunks", "parent_chunk_id", "chunks", "CASCADE")
      \/ k = Key("acls", "document_id", "documents", "CASCADE")
      \/ k = Key("acls", "user_id", "users", "CASCADE")
      \/ k = Key("acls", "workspace_id", "workspaces", "CASCADE")
      \/ k = Key("acls", "granted_by", "users", "SET NULL")
  BY Zenon DEF CorpusKeys
<1>2. QED
  BY <1>1, KeyIs

LEMMA ConversationKeysAre ==
    ASSUME NEW k \in ConversationKeys
    PROVE  \/ Is(k, "conversations", "user_id", "users", "CASCADE")
           \/ Is(k, "conversations", "workspace_id", "workspaces", "CASCADE")
           \/ Is(k, "messages", "conversation_id", "conversations", "CASCADE")
           \/ Is(k, "citations", "message_id", "messages", "CASCADE")
           \/ Is(k, "citations", "chunk_id", "chunks", "CASCADE")
<1>1. \/ k = Key("conversations", "user_id", "users", "CASCADE")
      \/ k = Key("conversations", "workspace_id", "workspaces", "CASCADE")
      \/ k = Key("messages", "conversation_id", "conversations", "CASCADE")
      \/ k = Key("citations", "message_id", "messages", "CASCADE")
      \/ k = Key("citations", "chunk_id", "chunks", "CASCADE")
  BY Zenon DEF ConversationKeys
<1>2. QED
  BY <1>1, KeyIs

LEMMA FeedbackKeysAre ==
    ASSUME NEW k \in FeedbackKeys
    PROVE  \/ Is(k, "feedbacks", "message_id", "messages", "CASCADE")
           \/ Is(k, "feedbacks", "user_id", "users", "CASCADE")
           \/ Is(k, "feedbacks", "reason_tag_id", "feedback_tags", "SET NULL")
           \/ Is(k, "feedbacks", "category_id", "feedback_categories", "SET NULL")
<1>1. \/ k = Key("feedbacks", "message_id", "messages", "CASCADE")
      \/ k = Key("feedbacks", "user_id", "users", "CASCADE")
      \/ k = Key("feedbacks", "reason_tag_id", "feedback_tags", "SET NULL")
      \/ k = Key("feedbacks", "category_id", "feedback_categories", "SET NULL")
  BY Zenon DEF FeedbackKeys
<1>2. QED
  BY <1>1, KeyIs

LEMMA RecordKeysAre ==
    ASSUME NEW k \in RecordKeys
    PROVE  \/ Is(k, "audit_logs", "user_id", "users", "SET NULL")
           \/ Is(k, "audit_logs", "workspace_id", "workspaces", "SET NULL")
           \/ Is(k, "evaluation_results", "message_id", "messages", "CASCADE")
           \/ Is(k, "drift_alerts", "workspace_id", "workspaces", "SET NULL")
<1>1. \/ k = Key("audit_logs", "user_id", "users", "SET NULL")
      \/ k = Key("audit_logs", "workspace_id", "workspaces", "SET NULL")
      \/ k = Key("evaluation_results", "message_id", "messages", "CASCADE")
      \/ k = Key("drift_alerts", "workspace_id", "workspaces", "SET NULL")
  BY Zenon DEF RecordKeys
<1>2. QED
  BY <1>1, KeyIs

LEMMA SensitiveValueKeysAre ==
    ASSUME NEW k \in SensitiveValueKeys
    PROVE  \/ Is(k, "sensitive_values", "added_by", "users", "SET NULL")
           \/ Is(k, "sensitive_values", "last_audit_id", "audit_logs", "SET NULL")
<1>1. \/ k = Key("sensitive_values", "added_by", "users", "SET NULL")
      \/ k = Key("sensitive_values", "last_audit_id", "audit_logs", "SET NULL")
  BY Zenon DEF SensitiveValueKeys
<1>2. QED
  BY <1>1, KeyIs

LEMMA PasswordResetKeysAre ==
    ASSUME NEW k \in PasswordResetKeys
    PROVE  \/ Is(k, "password_reset_audit", "user_id", "users", "CASCADE")
           \/ Is(k, "password_reset_audit", "reset_by", "users", "SET NULL")
<1>1. \/ k = Key("password_reset_audit", "user_id", "users", "CASCADE")
      \/ k = Key("password_reset_audit", "reset_by", "users", "SET NULL")
  BY Zenon DEF PasswordResetKeys
<1>2. QED
  BY <1>1, KeyIs

LEMMA TicketKeysAre ==
    ASSUME NEW k \in TicketKeys
    PROVE  \/ Is(k, "feedback_attributions", "feedback_id", "feedbacks", "CASCADE")
           \/ Is(k, "feedback_attributions", "category_id", "feedback_categories", "NO ACTION")
           \/ Is(k, "feedback_tickets", "feedback_id", "feedbacks", "CASCADE")
           \/ Is(k, "feedback_tickets", "status", "ticket_statuses", "RESTRICT")
<1>1. \/ k = Key("feedback_attributions", "feedback_id", "feedbacks", "CASCADE")
      \/ k = Key("feedback_attributions", "category_id", "feedback_categories", "NO ACTION")
      \/ k = Key("feedback_tickets", "feedback_id", "feedbacks", "CASCADE")
      \/ k = Key("feedback_tickets", "status", "ticket_statuses", "RESTRICT")
  BY Zenon DEF TicketKeys
<1>2. QED
  BY <1>1, KeyIs

LEMMA SingleKeysAre ==
    /\ Is(TokenKey, "api_tokens", "user_id", "users", "CASCADE")
    /\ Is(ChunkKey, "chunks", "workspace_id", "workspaces", "CASCADE")
    /\ Is(FeedbackKey, "feedbacks", "workspace_id", "workspaces", "CASCADE")
  BY KeyIs DEF TokenKey, ChunkKey, FeedbackKey

LEMMA NoScoreKey == \A k \in KeysAt(14) : ~(k.table = "feedbacks" /\ k.column \in {"score"})
<1>1. \A k \in IdentityKeys \cup CorpusKeys : k.table # "feedbacks"
  BY IdentityKeysAre, CorpusKeysAre DEF Is
<1>2. \A k \in ConversationKeys \cup RecordKeys : k.table # "feedbacks"
  BY ConversationKeysAre, RecordKeysAre DEF Is
<1>3. \A k \in FeedbackKeys : k.column # "score"
  BY FeedbackKeysAre DEF Is
<1>4. \A k \in SensitiveValueKeys \cup PasswordResetKeys : k.table # "feedbacks"
  BY SensitiveValueKeysAre, PasswordResetKeysAre DEF Is
<1>5. TokenKey.table # "feedbacks" /\ ChunkKey.table # "feedbacks" /\ FeedbackKey.column # "score"
  BY SingleKeysAre DEF Is
<1>6. QED
  BY <1>1, <1>2, <1>3, <1>4, <1>5 DEF KeysAt, Keys1

LEMMA KeysOfRevisions == \A n \in 1 .. 17 : Schemas[n].keys = KeysAt(n)
<1> DEFINE K(n) == Schemas[n].keys
<1>1. K(1) = Keys1
  <2>1. IsDatabase(Schemas[0]) /\ Schemas[1] = Upgraded(Schemas[0], 1) /\ Schemas[0].keys = {}
    <3>1. Schemas[0].keys = {}
      BY SchemaSteps DEF Nothing0
    <3>2. 1 \in Revisions /\ 0 \in 0 .. 17 /\ 1 - 1 = 0
      BY DEF Revisions, HeadRev
    <3>3. IsDatabase(Schemas[0]) /\ Schemas[1] = Upgraded(Schemas[1 - 1], 1)
      BY <3>2, SchemaSteps, Zenon
    <3>4. QED
      BY <3>1, <3>2, <3>3
  <2>2. PICK d : d = Schemas[0]
    OBVIOUS
  <2>3. Upgraded(d, 1).keys = d.keys \cup Keys1
    BY <2>1, <2>2, Becomes1to9 DEF Becomes
  <2>4. QED
    BY <2>1, <2>2, <2>3
<1>2. ASSUME NEW n \in Revisions \ {1}
      PROVE  K(n) = IF n = 5 THEN K(4) \cup SensitiveValueKeys
                    ELSE IF n = 8 THEN K(7) \cup {TokenKey}
                    ELSE IF n = 9 THEN K(8) \cup PasswordResetKeys
                    ELSE IF n = 13 THEN K(12) \cup {ChunkKey}
                    ELSE IF n = 14 THEN {k \in K(13) \cup {FeedbackKey} :
                                            ~(k.table = "feedbacks" /\ k.column \in {"score"})}
                    ELSE IF n = 16 THEN K(15) \cup TicketKeys
                    ELSE K(n - 1)
  <2>1. PICK m : m = n - 1
    OBVIOUS
  <2>a. PICK d : d = Schemas[m]
    OBVIOUS
  <2>2. IsDatabase(d) /\ Schemas[n] = Upgraded(d, n) /\ K(n) = Upgraded(d, n).keys /\ K(m) = d.keys
    BY <1>2, <2>1, <2>a, SchemaSteps DEF Revisions, HeadRev
  <2> HIDE DEF K
  <2>3. CASE n \in {2, 4, 6, 7}
    <3>1. Becomes(Upgraded(d, n), d, Widened(d.tables, n), d.keys)
      BY <2>2, <2>3, Becomes1to9
    <3>2. Upgraded(d, n).keys = d.keys
      BY <3>1 DEF Becomes
    <3>3. QED
      BY <2>1, <2>2, <2>3, <3>2
  <2>4. CASE n \in {5, 8, 9}
    <3>1. /\ Upgraded(d, 5).keys = d.keys \cup SensitiveValueKeys
          /\ Upgraded(d, 8).keys = d.keys \cup {TokenKey}
          /\ Upgraded(d, 9).keys = d.keys \cup PasswordResetKeys
      BY <2>2, Becomes1to9 DEF Becomes, TokenKey
    <3>2. CASE n = 5
      BY <2>1, <2>2, <3>1, <3>2
    <3>3. CASE n = 8
      BY <2>1, <2>2, <3>1, <3>3
    <3>4. CASE n = 9
      BY <2>1, <2>2, <3>1, <3>4
    <3>5. QED
      BY <2>4, <3>2, <3>3, <3>4
  <2>5. CASE n \in {10, 11, 12, 17}
    <3>1. Upgraded(d, n).keys = d.keys
      BY <2>2, <2>5, Becomes10, Becomes11to12 DEF Becomes
    <3>2. QED
      BY <2>1, <2>2, <2>5, <3>1
  <2>6. CASE n \in {13, 14}
    <3>1. CASE n = 13
      BY <2>1, <2>2, <3>1, Becomes13 DEF Becomes
    <3>2. CASE n = 14
      <4>1. Upgraded(d, 14).keys =
              {k \in d.keys \cup {FeedbackKey} : ~(k.table = "feedbacks" /\ k.column \in {"score"})}
        BY <2>2, Becomes14 DEF Becomes
      <4>2. QED
        BY <2>1, <2>2, <3>2, <4>1
    <3>3. QED
      BY <2>6, <3>1, <3>2
  <2>7. CASE n \in {15, 16}
    <3>1. /\ Upgraded(d, 15).keys = d.keys /\ Upgraded(d, 16).keys = d.keys \cup TicketKeys
      BY <2>2, Becomes15to16 DEF Becomes
    <3>2. CASE n = 15
      BY <2>1, <2>2, <3>1, <3>2
    <3>3. CASE n = 16
      BY <2>1, <2>2, <3>1, <3>3
    <3>4. QED
      BY <2>7, <3>2, <3>3
  <2>8. QED
    BY <2>3, <2>4, <2>5, <2>6, <2>7 DEF Revisions, HeadRev
<1>3. K(3) = K(2)
  BY SchemaSteps
<1> HIDE DEF K
<1>4. K(2) = Keys1 /\ K(3) = Keys1 /\ K(4) = Keys1
  BY <1>1, <1>2, <1>3 DEF Revisions, HeadRev
<1>5. K(5) = KeysAt(5) /\ K(6) = KeysAt(6) /\ K(7) = KeysAt(7)
  BY <1>4, <1>2 DEF Revisions, HeadRev, KeysAt
<1>6. K(8) = KeysAt(8) /\ K(9) = KeysAt(9)
  BY <1>5, <1>2 DEF Revisions, HeadRev, KeysAt
<1>7. K(10) = KeysAt(10) /\ K(11) = KeysAt(11) /\ K(12) = KeysAt(12)
  BY <1>6, <1>2 DEF Revisions, HeadRev, KeysAt
<1>8. K(13) = KeysAt(13)
  BY <1>7, <1>2 DEF Revisions, HeadRev, KeysAt
<1>9. K(14) = KeysAt(14)
  <2>1. K(14) = {k \in KeysAt(13) \cup {FeedbackKey} : ~(k.table = "feedbacks" /\ k.column \in {"score"})}
    BY <1>8, <1>2 DEF Revisions, HeadRev
  <2>2. KeysAt(14) = KeysAt(13) \cup {FeedbackKey}
    BY DEF KeysAt
  <2>3. QED
    BY <2>1, <2>2, NoScoreKey
<1>10. K(15) = KeysAt(15)
  BY <1>9, <1>2 DEF Revisions, HeadRev, KeysAt
<1>11. K(16) = KeysAt(16) /\ K(17) = KeysAt(17)
  BY <1>10, <1>2 DEF Revisions, HeadRev, KeysAt
<1>12. K(1) = KeysAt(1) /\ K(2) = KeysAt(2) /\ K(3) = KeysAt(3) /\ K(4) = KeysAt(4)
  BY <1>1, <1>4 DEF KeysAt
<1>13. \A n \in 1 .. 17 : K(n) = KeysAt(n)
  BY <1>5, <1>6, <1>7, <1>8, <1>9, <1>10, <1>11, <1>12
<1>14. QED
  BY <1>13 DEF K

ActionsAt(n) == IF n = 11 THEN Whitelist8 ELSE AuditActions
RulesIn(n) ==
    (IF n < 11 THEN {} ELSE AppendOnly) \cup (IF n < 12 THEN {} ELSE {OnePerPair})
        \cup (IF n < 17 THEN {} ELSE {"orphan_safety"})

LEMMA RulesOfRevisions ==
    \A n \in 0 .. 17 : Schemas[n].actions = ActionsAt(n) /\ Schemas[n].rules = RulesIn(n)
<1> DEFINE RulesAt(n) == Schemas[n].actions = ActionsAt(n) /\ Schemas[n].rules = RulesIn(n)
<1>1. RulesAt(0)
  BY SchemaSteps DEF Nothing0, ActionsAt, RulesIn
<1>2. ASSUME NEW n \in Revisions, n \notin {11, 12, 17}, NEW m, m = n - 1, RulesAt(m)
      PROVE  RulesAt(n)
  <2>1. PICK d : d = Schemas[m]
    OBVIOUS
  <2>2. IsDatabase(d) /\ Schemas[n] = Upgraded(d, n)
    BY <1>2, <2>1, SchemaSteps DEF Revisions, HeadRev
  <2>3. Upgraded(d, n).actions = d.actions /\ Upgraded(d, n).rules = d.rules
    <3>1. CASE n \in {1, 2, 4, 5, 6, 7, 8, 9}
      BY <2>2, <3>1, Becomes1to9 DEF Becomes
    <3>2. CASE n \in {10, 13, 14, 15, 16}
      <4>1. Upgraded(d, 10).actions = d.actions /\ Upgraded(d, 10).rules = d.rules
        BY <2>2, Becomes10 DEF Becomes
      <4>2. Upgraded(d, 13).actions = d.actions /\ Upgraded(d, 13).rules = d.rules
        BY <2>2, Becomes13 DEF Becomes
      <4>3. Upgraded(d, 14).actions = d.actions /\ Upgraded(d, 14).rules = d.rules
        BY <2>2, Becomes14 DEF Becomes
      <4>4. /\ Upgraded(d, 15).actions = d.actions /\ Upgraded(d, 15).rules = d.rules
            /\ Upgraded(d, 16).actions = d.actions /\ Upgraded(d, 16).rules = d.rules
        BY <2>2, Becomes15to16 DEF Becomes
      <4>5. QED
        BY <3>2, <4>1, <4>2, <4>3, <4>4
    <3>3. QED
      BY <1>2, <3>1, <3>2 DEF Revisions, HeadRev
  <2>4. ActionsAt(n) = ActionsAt(m) /\ RulesIn(n) = RulesIn(m)
    BY <1>2 DEF Revisions, HeadRev, ActionsAt, RulesIn
  <2>5. PICK e : e = Upgraded(d, n)
    OBVIOUS
  <2>6. e.actions = ActionsAt(n) /\ e.rules = RulesIn(n)
    BY <1>2, <2>1, <2>3, <2>4, <2>5
  <2>7. QED
    BY <2>2, <2>5, <2>6
<1>3. ASSUME NEW n \in {11, 12, 17}, NEW m, m = n - 1, RulesAt(m) PROVE RulesAt(n)
  <2>1. PICK d : d = Schemas[m]
    OBVIOUS
  <2>2. IsDatabase(d) /\ Schemas[n] = Upgraded(d, n)
    BY <1>3, <2>1, SchemaSteps DEF Revisions, HeadRev
  <2>3. /\ Upgraded(d, 11).actions = Whitelist8
        /\ Upgraded(d, 11).rules = d.rules \cup {"no_delete", "no_update"}
        /\ Upgraded(d, 12).actions = AuditActions /\ Upgraded(d, 12).rules = d.rules \cup {OnePerPair}
        /\ Upgraded(d, 17).actions = d.actions
        /\ Upgraded(d, 17).rules = d.rules \cup {"orphan_safety"}
    BY <2>2, Becomes11to12
  <2>4. d.actions = ActionsAt(m) /\ d.rules = RulesIn(m)
    BY <1>3, <2>1
  <2>5. CASE n = 11
    BY <1>3, <2>2, <2>3, <2>4, <2>5 DEF ActionsAt, RulesIn, AppendOnly
  <2>6. CASE n = 12
    BY <1>3, <2>2, <2>3, <2>4, <2>6 DEF ActionsAt, RulesIn, AppendOnly
  <2>7. CASE n = 17
    BY <1>3, <2>2, <2>3, <2>4, <2>7 DEF ActionsAt, RulesIn, AppendOnly
  <2>8. QED
    BY <1>3, <2>5, <2>6, <2>7
<1>4. ASSUME RulesAt(2) PROVE RulesAt(3)
  BY <1>4, SchemaSteps DEF ActionsAt, RulesIn
<1> HIDE DEF RulesAt
<1>5. RulesAt(1) /\ RulesAt(2) /\ RulesAt(3) /\ RulesAt(4)
  <2>1. RulesAt(1)
    BY <1>1, <1>2 DEF Revisions, HeadRev
  <2>2. RulesAt(2)
    BY <2>1, <1>2 DEF Revisions, HeadRev
  <2>3. RulesAt(4)
    BY <2>2, <1>4, <1>2 DEF Revisions, HeadRev
  <2>4. QED
    BY <2>1, <2>2, <2>3, <1>4
<1>6. RulesAt(5) /\ RulesAt(6) /\ RulesAt(7)
  BY <1>5, <1>2 DEF Revisions, HeadRev
<1>7. RulesAt(8) /\ RulesAt(9) /\ RulesAt(10)
  BY <1>6, <1>2 DEF Revisions, HeadRev
<1>8. RulesAt(11) /\ RulesAt(12)
  BY <1>7, <1>3
<1>9. RulesAt(13) /\ RulesAt(14)
  BY <1>8, <1>2 DEF Revisions, HeadRev
<1>10. RulesAt(15) /\ RulesAt(16)
  BY <1>9, <1>2 DEF Revisions, HeadRev
<1>11. RulesAt(17)
  BY <1>10, <1>3
<1>12. \A n \in 0 .. 17 : RulesAt(n)
  BY <1>1, <1>5, <1>6, <1>7, <1>8, <1>9, <1>10, <1>11
<1>13. QED
  BY <1>12 DEF RulesAt

\* Every key is one of these.
LEMMA KeyColumns1 ==
    ASSUME NEW k \in Keys1
    PROVE  /\ k.table \in Names1 /\ k.target \in Names1 /\ k.column \in DOMAIN Tables1[k.table]
           /\ k.column # "score"
<1>1. CASE k \in IdentityKeys
  <2>1. /\ Tables1["workspaces"] = Identity["workspaces"]
        /\ Tables1["role_permissions"] = Memberships["role_permissions"]
        /\ Tables1["user_roles"] = Memberships["user_roles"]
    BY Sections1
  <2>2. /\ "owner_id" \in DOMAIN Tables1["workspaces"]
        /\ {"role_id", "permission_id"} \subseteq DOMAIN Tables1["role_permissions"]
        /\ {"user_id", "role_id", "workspace_id", "granted_by", "invited_by"}
              \subseteq DOMAIN Tables1["user_roles"]
    BY <2>1 DEF Identity, Memberships, Table
  <2>3. QED
    BY <1>1, <2>2, IdentityKeysAre DEF Is, Names1
<1>2. CASE k \in CorpusKeys
  <2>1. /\ Tables1["documents"] = Corpus["documents"] /\ Tables1["chunks"] = Corpus["chunks"]
        /\ Tables1["acls"] = Corpus["acls"]
    BY Sections1
  <2>2. /\ {"workspace_id", "owner_id"} \subseteq DOMAIN Tables1["documents"]
        /\ {"document_id", "parent_chunk_id"} \subseteq DOMAIN Tables1["chunks"]
        /\ {"document_id", "user_id", "workspace_id", "granted_by"} \subseteq DOMAIN Tables1["acls"]
    BY <2>1 DEF Corpus, Table
  <2>3. QED
    BY <1>2, <2>2, CorpusKeysAre DEF Is, Names1
<1>3. CASE k \in ConversationKeys
  <2>1. /\ Tables1["conversations"] = Conversations["conversations"]
        /\ Tables1["messages"] = Conversations["messages"]
        /\ Tables1["citations"] = Conversations["citations"]
    BY Sections1
  <2>2. /\ {"user_id", "workspace_id"} \subseteq DOMAIN Tables1["conversations"]
        /\ "conversation_id" \in DOMAIN Tables1["messages"]
        /\ {"message_id", "chunk_id"} \subseteq DOMAIN Tables1["citations"]
    BY <2>1 DEF Conversations, Table
  <2>3. QED
    BY <1>3, <2>2, ConversationKeysAre DEF Is, Names1
<1>4. CASE k \in FeedbackKeys
  BY <1>4, Columns1, FeedbackKeysAre DEF Is, Names1
<1>5. CASE k \in RecordKeys
  <2>1. /\ Tables1["audit_logs"] = Records["audit_logs"]
        /\ Tables1["evaluation_results"] = Records["evaluation_results"]
        /\ Tables1["drift_alerts"] = Records["drift_alerts"]
    BY Sections1
  <2>2. /\ {"user_id", "workspace_id"} \subseteq DOMAIN Tables1["audit_logs"]
        /\ "message_id" \in DOMAIN Tables1["evaluation_results"]
        /\ "workspace_id" \in DOMAIN Tables1["drift_alerts"]
    BY <2>1 DEF Records, Table
  <2>3. QED
    BY <1>5, <2>2, RecordKeysAre DEF Is, Names1
<1>6. QED
  BY <1>1, <1>2, <1>3, <1>4, <1>5 DEF Keys1

\* No migration takes a column away but for score.
LEMMA TablesGrow ==
    ASSUME NEW n \in 1 .. 17, NEW t \in Names1
    PROVE  DOMAIN Tables1[t] \subseteq DOMAIN TableAt(n, t) \cup {"score"}
<1>1. CASE t = "users"
  <2>1. TableAt(n, t) = UsersAt(n)
    BY <1>1 DEF TableAt
  <2>2. QED
    BY <1>1, <2>1, ColumnsAt
<1>2. CASE t = "roles"
  <2>1. TableAt(n, t) = RolesAt(n)
    BY <1>2 DEF TableAt
  <2>2. QED
    BY <1>2, <2>1, ColumnsAt
<1>3. CASE t = "drift_alerts"
  <2>1. TableAt(n, t) = AlertsAt(n)
    BY <1>3 DEF TableAt
  <2>2. QED
    BY <1>3, <2>1, ColumnsAt
<1>4. CASE t = "feedback_categories"
  <2>1. TableAt(n, t) = CategoriesAt(n)
    BY <1>4 DEF TableAt
  <2>2. QED
    BY <1>4, <2>1, ColumnsAt
<1>5. CASE t = "chunks"
  <2>1. TableAt(n, t) = ChunksAt(n)
    BY <1>5 DEF TableAt
  <2>2. QED
    BY <1>5, <2>1, ColumnsAt
<1>6. CASE t = "feedbacks"
  <2>1. TableAt(n, t) = FeedbacksAt(n)
    BY <1>6 DEF TableAt
  <2>2. DOMAIN FeedbacksAt(n) =
            IF n < 14 THEN DOMAIN Tables1["feedbacks"]
            ELSE (DOMAIN Tables1["feedbacks"] \ {"score"})
                    \cup {"workspace_id", "rating", "attribution_status", "ragas_scores"}
    BY ColumnsAt
  <2>3. QED
    BY <1>6, <2>1, <2>2
<1>7. CASE t \in Names1 \ {"users", "roles", "drift_alerts", "feedback_categories", "chunks", "feedbacks"}
  <2>1. TableAt(n, t) = Tables1[t]
    BY <1>7 DEF TableAt, Names1
  <2>2. QED
    BY <2>1
<1>8. QED
  BY <1>1, <1>2, <1>3, <1>4, <1>5, <1>6, <1>7

\* The columns of the other tables with keys.
LEMMA LaterColumns ==
    /\ {"added_by", "last_audit_id"} \subseteq DOMAIN SensitiveValues["sensitive_values"]
    /\ "user_id" \in DOMAIN ApiTokens["api_tokens"]
    /\ {"user_id", "reset_by"} \subseteq DOMAIN PasswordResets["password_reset_audit"]
    /\ {"feedback_id", "category_id"} \subseteq DOMAIN Tickets["feedback_attributions"]
    /\ {"feedback_id", "status"} \subseteq DOMAIN Tickets["feedback_tickets"]
<1>1. "user_id" \in DOMAIN ApiTokens["api_tokens"]
  BY DEF ApiTokens, Table
<1>2. {"added_by", "last_audit_id"} \subseteq DOMAIN SensitiveValues["sensitive_values"]
  BY DEF SensitiveValues, Table
<1>3. {"user_id", "reset_by"} \subseteq DOMAIN PasswordResets["password_reset_audit"]
  BY DEF PasswordResets, Table
<1>4. {"feedback_id", "category_id"} \subseteq DOMAIN Tickets["feedback_attributions"]
  BY DEF Tickets, Table
<1>5. {"feedback_id", "status"} \subseteq DOMAIN Tickets["feedback_tickets"]
  BY DEF Tickets, Table
<1>6. QED
  BY <1>1, <1>2, <1>3, <1>4, <1>5

\* Every key of a revision is between tables of that revision.
LEMMA KeysOfTables ==
    ASSUME NEW n \in 1 .. 17, NEW k \in KeysAt(n)
    PROVE  /\ k.table \in NamesAt(n) /\ k.target \in NamesAt(n)
           /\ k.column \in DOMAIN TableAt(n, k.table)
<1>1. Names1 \subseteq NamesAt(n)
  BY DEF NamesAt
<1>2. CASE k \in Keys1
  BY <1>1, <1>2, KeyColumns1, TablesGrow
<1>3. CASE n >= 5 /\ k \in SensitiveValueKeys
  <2>1. k.table = "sensitive_values" /\ k.column \in {"added_by", "last_audit_id"}
        /\ k.target \in {"users", "audit_logs"}
    BY <1>3, SensitiveValueKeysAre DEF Is
  <2>2. TableAt(n, "sensitive_values") = SensitiveValues["sensitive_values"]
    BY DEF TableAt
  <2>3. QED
    BY <1>3, <2>1, <2>2, LaterColumns DEF NamesAt, Names1
<1>4. CASE n >= 8 /\ k = TokenKey
  <2>1. k.table = "api_tokens" /\ k.column = "user_id" /\ k.target = "users"
    BY <1>4, SingleKeysAre DEF Is
  <2>2. TableAt(n, "api_tokens") = ApiTokens["api_tokens"]
    BY DEF TableAt
  <2>3. QED
    BY <1>4, <2>1, <2>2, LaterColumns DEF NamesAt, Names1
<1>5. CASE n >= 9 /\ k \in PasswordResetKeys
  <2>1. k.table = "password_reset_audit" /\ k.column \in {"user_id", "reset_by"} /\ k.target = "users"
    BY <1>5, PasswordResetKeysAre DEF Is
  <2>2. TableAt(n, "password_reset_audit") = PasswordResets["password_reset_audit"]
    BY DEF TableAt
  <2>3. QED
    BY <1>5, <2>1, <2>2, LaterColumns DEF NamesAt, Names1
<1>6. CASE n >= 13 /\ k = ChunkKey
  <2>1. k.table = "chunks" /\ k.column = "workspace_id" /\ k.target = "workspaces"
    BY <1>6, SingleKeysAre DEF Is
  <2>2. TableAt(n, "chunks") = ChunksAt(n)
    BY DEF TableAt
  <2>3. DOMAIN ChunksAt(n) = DOMAIN Tables1["chunks"] \cup (IF n < 13 THEN {} ELSE {"workspace_id"})
    BY ColumnsAt
  <2>4. QED
    BY <1>6, <2>1, <2>2, <2>3 DEF NamesAt, Names1
<1>7. CASE n >= 14 /\ k = FeedbackKey
  <2>1. k.table = "feedbacks" /\ k.column = "workspace_id" /\ k.target = "workspaces"
    BY <1>7, SingleKeysAre DEF Is
  <2>2. TableAt(n, "feedbacks") = FeedbacksAt(n)
    BY DEF TableAt
  <2>3. "workspace_id" \in DOMAIN FeedbacksAt(n)
    <3>1. DOMAIN FeedbacksAt(n) =
            IF n < 14 THEN DOMAIN Tables1["feedbacks"]
            ELSE (DOMAIN Tables1["feedbacks"] \ {"score"})
                    \cup {"workspace_id", "rating", "attribution_status", "ragas_scores"}
      BY ColumnsAt
    <3>2. QED
      BY <1>7, <3>1
  <2>4. QED
    BY <1>7, <2>1, <2>2, <2>3 DEF NamesAt, Names1
<1>8. CASE n >= 16 /\ k \in TicketKeys
  <2>1. \/ /\ k.table = "feedback_attributions" /\ k.column \in {"feedback_id", "category_id"}
           /\ k.target \in {"feedbacks", "feedback_categories"}
        \/ /\ k.table = "feedback_tickets" /\ k.column \in {"feedback_id", "status"}
           /\ k.target \in {"feedbacks", "ticket_statuses"}
    BY <1>8, TicketKeysAre DEF Is
  <2>2. /\ TableAt(n, "feedback_attributions") = Tickets["feedback_attributions"]
        /\ TableAt(n, "feedback_tickets") = Tickets["feedback_tickets"]
    BY DEF TableAt
  <2>3. QED
    BY <1>8, <2>1, <2>2, LaterColumns DEF NamesAt, Names1
<1>9. \/ k \in Keys1 \/ (n >= 5 /\ k \in SensitiveValueKeys) \/ (n >= 8 /\ k = TokenKey)
      \/ (n >= 9 /\ k \in PasswordResetKeys) \/ (n >= 13 /\ k = ChunkKey)
      \/ (n >= 14 /\ k = FeedbackKey) \/ (n >= 16 /\ k \in TicketKeys)
  BY DEF KeysAt
<1>10. QED
  BY <1>2, <1>3, <1>4, <1>5, <1>6, <1>7, <1>8, <1>9

\* A key of the head is one of every revision that has its column.
LEMMA KeysCover ==
    ASSUME NEW n \in 1 .. 17, NEW k \in KeysAt(17), k.table \in NamesAt(n),
           k.column \in DOMAIN TableAt(n, k.table)
    PROVE  k \in KeysAt(n)
<1>1. CASE k \in Keys1
  BY <1>1 DEF KeysAt
<1>2. CASE k \in SensitiveValueKeys
  <2>1. k.table = "sensitive_values"
    BY <1>2, SensitiveValueKeysAre DEF Is
  <2>2. n >= 5
    BY <2>1 DEF NamesAt, Names1
  <2>3. QED
    BY <1>2, <2>2 DEF KeysAt
<1>3. CASE k = TokenKey
  <2>1. k.table = "api_tokens"
    BY <1>3, SingleKeysAre DEF Is
  <2>2. n >= 8
    BY <2>1 DEF NamesAt, Names1
  <2>3. QED
    BY <1>3, <2>2 DEF KeysAt
<1>4. CASE k \in PasswordResetKeys
  <2>1. k.table = "password_reset_audit"
    BY <1>4, PasswordResetKeysAre DEF Is
  <2>2. n >= 9
    BY <2>1 DEF NamesAt, Names1
  <2>3. QED
    BY <1>4, <2>2 DEF KeysAt
<1>5. CASE k = ChunkKey
  <2>1. k.table = "chunks" /\ k.column = "workspace_id"
    BY <1>5, SingleKeysAre DEF Is
  <2>2. TableAt(n, "chunks") = ChunksAt(n)
    BY DEF TableAt
  <2>3. DOMAIN ChunksAt(n) = DOMAIN Tables1["chunks"] \cup (IF n < 13 THEN {} ELSE {"workspace_id"})
    BY ColumnsAt
  <2>4. n >= 13
    BY <2>1, <2>2, <2>3, Columns1
  <2>5. QED
    BY <1>5, <2>4 DEF KeysAt
<1>6. CASE k = FeedbackKey
  <2>1. k.table = "feedbacks" /\ k.column = "workspace_id"
    BY <1>6, SingleKeysAre DEF Is
  <2>2. TableAt(n, "feedbacks") = FeedbacksAt(n)
    BY DEF TableAt
  <2>3. DOMAIN FeedbacksAt(n) =
            IF n < 14 THEN DOMAIN Tables1["feedbacks"]
            ELSE (DOMAIN Tables1["feedbacks"] \ {"score"})
                    \cup {"workspace_id", "rating", "attribution_status", "ragas_scores"}
    BY ColumnsAt
  <2>4. n >= 14
    BY <2>1, <2>2, <2>3, Columns1
  <2>5. QED
    BY <1>6, <2>4 DEF KeysAt
<1>7. CASE k \in TicketKeys
  <2>1. k.table \in {"feedback_attributions", "feedback_tickets"}
    BY <1>7, TicketKeysAre DEF Is
  <2>2. n >= 16
    BY <2>1 DEF NamesAt, Names1
  <2>3. QED
    BY <1>7, <2>2 DEF KeysAt
<1>8. QED
  BY <1>1, <1>2, <1>3, <1>4, <1>5, <1>6, <1>7 DEF KeysAt

LEMMA SchemasHaveColumns == \A n \in 0 .. 17 : KeysHaveColumns(Schemas[n])
<1>1. KeysHaveColumns(Schemas[0])
  BY SchemaSteps DEF KeysHaveColumns, Nothing0
<1>2. ASSUME NEW n \in 1 .. 17 PROVE KeysHaveColumns(Schemas[n])
  <2>1. PICK d : d = Schemas[n]
    OBVIOUS
  <2>2. d.keys = KeysAt(n)
    BY <2>1, KeysOfRevisions
  <2>3. AreAt(d.tables, n)
    BY <2>1, TablesOfRevisions
  <2>4. ASSUME NEW k \in d.keys PROVE k.table \in DOMAIN d.tables /\ k.column \in DOMAIN d.tables[k.table]
    BY <2>2, <2>3, KeysOfTables DEF AreAt
  <2>5. QED
    BY <2>1, <2>4 DEF KeysHaveColumns
<1>3. QED
  BY <1>1, <1>2

-----------------------------------------------------------------------------
(* An upgrade, or a downgrade, of databases with the same schema           *)

LEMMA SameTablesSym == ASSUME NEW f, NEW g, SameTables(f, g) PROVE SameTables(g, f)
  BY DEF SameTables

LEMMA SameBecomes ==
    ASSUME NEW d, NEW e, SameSchema(d, e), NEW u, NEW v, NEW f, NEW g, NEW keys,
           Becomes(u, d, f, keys), Becomes(v, e, g, keys), SameTables(f, g)
    PROVE  SameSchema(u, v)
  BY DEF SameSchema, Becomes

LEMMA SameWidened ==
    ASSUME NEW f, NEW g, SameTables(f, g), NEW n
    PROVE  SameTables(Widened(f, n), Widened(g, n))
<1>1. PICK t, columns : t = Added(n).t /\ columns = Added(n).columns
  OBVIOUS
<1>2. PICK p, q : p = Overlay(columns, f[t]) /\ q = Overlay(columns, g[t])
  OBVIOUS
<1>3. ASSUME t \in DOMAIN f
      PROVE  /\ DOMAIN p = DOMAIN q
             /\ \A c \in DOMAIN p : p[c] = q[c] \/ (t = "feedbacks" /\ c = "score")
  <2>1. PICK a, b : a = f[t] /\ b = g[t]
    OBVIOUS
  <2>2. DOMAIN a = DOMAIN b /\ \A c \in DOMAIN a : a[c] = b[c] \/ (t = "feedbacks" /\ c = "score")
    BY <1>3, <2>1 DEF SameTables
  <2>3. /\ DOMAIN p = DOMAIN columns \cup DOMAIN a /\ \A x \in DOMAIN columns : p[x] = columns[x]
        /\ \A x \in DOMAIN a \ DOMAIN columns : p[x] = a[x]
    BY <1>2, <2>1 DEF Overlay
  <2>4. /\ DOMAIN q = DOMAIN columns \cup DOMAIN b /\ \A x \in DOMAIN columns : q[x] = columns[x]
        /\ \A x \in DOMAIN b \ DOMAIN columns : q[x] = b[x]
    BY <1>2, <2>1 DEF Overlay
  <2>5. QED
    BY <2>2, <2>3, <2>4
<1>4. SameTables([f EXCEPT ![t] = p], [g EXCEPT ![t] = q])
  BY <1>3, SameReplaced
<1>5. Widened(f, n) = [f EXCEPT ![t] = p] /\ Widened(g, n) = [g EXCEPT ![t] = q]
  BY <1>1, <1>2 DEF Widened
<1>6. QED
  BY <1>4, <1>5

LEMMA SameRestricted ==
    ASSUME NEW f, NEW g, SameTables(f, g), NEW t, NEW names
    PROVE  SameTables([f EXCEPT ![t] = Restrict1(@, names)], [g EXCEPT ![t] = Restrict1(@, names)])
<1>1. PICK p, q : p = Restrict1(f[t], names) /\ q = Restrict1(g[t], names)
  OBVIOUS
<1>2. ASSUME t \in DOMAIN f
      PROVE  /\ DOMAIN p = DOMAIN q
             /\ \A c \in DOMAIN p : p[c] = q[c] \/ (t = "feedbacks" /\ c = "score")
  <2>1. PICK a, b : a = f[t] /\ b = g[t]
    OBVIOUS
  <2>2. DOMAIN a = DOMAIN b /\ \A c \in DOMAIN a : a[c] = b[c] \/ (t = "feedbacks" /\ c = "score")
    BY <1>2, <2>1 DEF SameTables
  <2>3. DOMAIN p = DOMAIN a \ names /\ \A x \in DOMAIN a \ names : p[x] = a[x]
    BY <1>1, <2>1 DEF Restrict1
  <2>4. DOMAIN q = DOMAIN b \ names /\ \A x \in DOMAIN b \ names : q[x] = b[x]
    BY <1>1, <2>1 DEF Restrict1
  <2>5. QED
    BY <2>2, <2>3, <2>4
<1>3. SameTables([f EXCEPT ![t] = p], [g EXCEPT ![t] = q])
  BY <1>2, SameReplaced
<1>4. QED
  BY <1>1, <1>3

LEMMA SameUpgraded ==
    ASSUME NEW d, NEW e, SameSchema(d, e), NEW n \in Revisions
    PROVE  SameSchema(Upgraded(d, n), Upgraded(e, n))
<1>1. PICK f, g : f = d.tables /\ g = e.tables
  OBVIOUS
<1>2. /\ IsDatabase(d) /\ IsDatabase(e) /\ SameTables(f, g)
      /\ d.keys = e.keys /\ d.actions = e.actions /\ d.rules = e.rules
  BY <1>1 DEF SameSchema
<1>3. CASE n \in {2, 4, 6, 7}
  <2>1. Becomes(Upgraded(d, n), d, Widened(f, n), d.keys)
    BY <1>1, <1>2, <1>3, Becomes1to9
  <2>2. Becomes(Upgraded(e, n), e, Widened(g, n), d.keys)
    BY <1>1, <1>2, <1>3, Becomes1to9
  <2>3. SameTables(Widened(f, n), Widened(g, n))
    BY <1>2, SameWidened
  <2>4. QED
    BY <2>1, <2>2, <2>3, SameBecomes
<1>9. CASE n = 5
  <2>1. Becomes(Upgraded(d, 5), d, Overlay(SensitiveValues, f), d.keys \cup SensitiveValueKeys)
    BY <1>1, <1>2, Becomes1to9
  <2>2. Becomes(Upgraded(e, 5), e, Overlay(SensitiveValues, g), d.keys \cup SensitiveValueKeys)
    BY <1>1, <1>2, Becomes1to9
  <2>3. SameTables(Overlay(SensitiveValues, f), Overlay(SensitiveValues, g))
    BY <1>2, SameOverlay
  <2>4. QED
    BY <1>9, <2>1, <2>2, <2>3, SameBecomes
<1>4. CASE n \in {1, 8, 9, 16}
  <2>1. PICK tables, keys :
            /\ tables = IF n = 1 THEN Tables1
                        ELSE IF n = 8 THEN ApiTokens ELSE IF n = 9 THEN PasswordResets ELSE Tickets
            /\ keys = IF n = 1 THEN Keys1
                      ELSE IF n = 8 THEN {Key("api_tokens", "user_id", "users", "CASCADE")}
                      ELSE IF n = 9 THEN PasswordResetKeys ELSE TicketKeys
    OBVIOUS
  <2>2. ASSUME NEW x PROVE Upgraded(x, n) = AddTables(x, tables, keys)
    BY <1>4, <2>1 DEF Upgraded, Up0001, Up0008, Up0009, Up0016, Tables1, Keys1
  <2>3. SameSchema(AddTables(d, tables, keys), AddTables(e, tables, keys))
    BY SameAddTables
  <2>4. QED
    BY <2>2, <2>3
<1>5. CASE n = 10
  <2>1. Becomes(Upgraded(d, 10), d, Overlay(TicketStatuses, Widened(f, 10)), d.keys)
    BY <1>1, <1>2, Becomes10
  <2>2. Becomes(Upgraded(e, 10), e, Overlay(TicketStatuses, Widened(g, 10)), d.keys)
    BY <1>1, <1>2, Becomes10
  <2>3. PICK u, v : u = Widened(f, 10) /\ v = Widened(g, 10)
    OBVIOUS
  <2>4. SameTables(u, v)
    BY <1>2, <2>3, SameWidened
  <2>5. SameTables(Overlay(TicketStatuses, u), Overlay(TicketStatuses, v))
    BY <2>4, SameOverlay
  <2>6. QED
    BY <1>5, <2>1, <2>2, <2>3, <2>5, SameBecomes
<1>6. CASE n \in {11, 12, 17}
  <2>1. /\ IsDatabase(Upgraded(d, n)) /\ Upgraded(d, n).tables = f /\ Upgraded(d, n).keys = d.keys
        /\ IsDatabase(Upgraded(e, n)) /\ Upgraded(e, n).tables = g /\ Upgraded(e, n).keys = e.keys
    BY <1>1, <1>2, <1>6, Becomes11to12
  <2>2. /\ Upgraded(d, n).actions = IF n = 11 THEN Whitelist8
                                    ELSE IF n = 12 THEN AuditActions ELSE d.actions
        /\ Upgraded(e, n).actions = IF n = 11 THEN Whitelist8
                                    ELSE IF n = 12 THEN AuditActions ELSE e.actions
    BY <1>2, <1>6, Becomes11to12
  <2>3. PICK more : more = IF n = 11 THEN {"no_delete", "no_update"}
                           ELSE IF n = 12 THEN {OnePerPair} ELSE {"orphan_safety"}
    OBVIOUS
  <2>4. Upgraded(d, n).rules = d.rules \cup more
    BY <1>2, <1>6, <2>3, Becomes11to12
  <2>5. Upgraded(e, n).rules = e.rules \cup more
    BY <1>2, <1>6, <2>3, Becomes11to12
  <2>6. QED
    BY <1>2, <2>1, <2>2, <2>4, <2>5 DEF SameSchema
<1>7. CASE n \in {13, 15}
  <2>1. PICK keys : keys = IF n = 13 THEN d.keys \cup {ChunkKey} ELSE d.keys
    OBVIOUS
  <2>2. Becomes(Upgraded(d, n), d, Widened(f, n), keys)
    BY <1>1, <1>2, <1>7, <2>1, Becomes13, Becomes15to16
  <2>3. Becomes(Upgraded(e, n), e, Widened(g, n), keys)
    BY <1>1, <1>2, <1>7, <2>1, Becomes13, Becomes15to16
  <2>4. SameTables(Widened(f, n), Widened(g, n))
    BY <1>2, SameWidened
  <2>5. QED
    BY <2>2, <2>3, <2>4, SameBecomes
<1>8. CASE n = 14
  <2>1. PICK keys : keys = {k \in d.keys \cup {FeedbackKey} :
                              ~(k.table = "feedbacks" /\ k.column \in {"score"})}
    OBVIOUS
  <2>2. PICK u, v : u = Widened(f, 14) /\ v = Widened(g, 14)
    OBVIOUS
  <2>3. Becomes(Upgraded(d, 14), d, [u EXCEPT !["feedbacks"] = Restrict1(@, {"score"})], keys)
    BY <1>1, <1>2, <2>1, <2>2, Becomes14
  <2>4. Becomes(Upgraded(e, 14), e, [v EXCEPT !["feedbacks"] = Restrict1(@, {"score"})], keys)
    BY <1>1, <1>2, <2>1, <2>2, Becomes14
  <2>5. SameTables(u, v)
    BY <1>2, <2>2, SameWidened
  <2>6. SameTables([u EXCEPT !["feedbacks"] = Restrict1(@, {"score"})],
                   [v EXCEPT !["feedbacks"] = Restrict1(@, {"score"})])
    BY <2>5, SameRestricted
  <2>7. QED
    BY <1>8, <2>3, <2>4, <2>6, SameBecomes
<1>10. QED
  BY <1>3, <1>4, <1>5, <1>6, <1>7, <1>8, <1>9 DEF Revisions, HeadRev

LEMMA SameDowngraded ==
    ASSUME NEW d, NEW e, SameSchema(d, e), NEW n \in Revisions
    PROVE  SameSchema(Downgraded(d, n), Downgraded(e, n))
<1>1. CASE n \in {1, 5, 8, 9, 16}
  <2>1. PICK names :
            names = IF n = 1 THEN DOMAIN d.tables ELSE IF n = 5 THEN {"sensitive_values"}
                    ELSE IF n = 8 THEN {"api_tokens"} ELSE IF n = 9 THEN {"password_reset_audit"}
                    ELSE {"feedback_attributions", "feedback_tickets"}
    OBVIOUS
  <2>2. DOMAIN d.tables = DOMAIN e.tables
    BY DEF SameSchema, SameTables
  <2>3. Downgraded(d, n) = DropTables(d, names) /\ Downgraded(e, n) = DropTables(e, names)
    BY <1>1, <2>1, <2>2 DEF Downgraded, Down0001, Down0005, Down0008, Down0009, Down0016
  <2>4. QED
    BY <2>3, SameDropTables
<1>2. CASE n \in {2, 4, 6, 7, 13}
  <2>1. PICK t, names :
            /\ t = IF n = 2 THEN "drift_alerts" ELSE IF n = 4 THEN "roles"
                   ELSE IF n = 13 THEN "chunks" ELSE "users"
            /\ names = IF n = 2 THEN DriftColumns ELSE IF n = 4 THEN {"workspace_scoped"}
                       ELSE IF n = 13 THEN {"workspace_id"} ELSE IF n = 6 THEN {"deleted_at"}
                       ELSE {"display_name", "avatar_url"}
    OBVIOUS
  <2>2. ASSUME NEW x PROVE Downgraded(x, n) = DropColumns(x, t, names)
    BY <1>2, <2>1 DEF Downgraded, Down0002, Down0004, Down0006, Down0007, Down0013
  <2>3. QED
    BY <2>2, SameDropColumns
<1>3. CASE n = 10
  <2>1. PICK u, v : u = DropTables(d, {"ticket_statuses"}) /\ v = DropTables(e, {"ticket_statuses"})
    OBVIOUS
  <2>2. SameSchema(u, v)
    BY <2>1, SameDropTables
  <2>3. PICK names : names = {"name_zh", "is_system", "description"}
    OBVIOUS
  <2>4. SameSchema(DropColumns(u, "feedback_categories", names), DropColumns(v, "feedback_categories", names))
    BY <2>2, SameDropColumns
  <2>5. /\ Downgraded(d, n) = DropColumns(u, "feedback_categories", names)
        /\ Downgraded(e, n) = DropColumns(v, "feedback_categories", names)
    BY <1>3, <2>1, <2>3 DEF Downgraded, Down0010
  <2>6. QED
    BY <2>4, <2>5
<1>4. CASE n \in {11, 12, 17}
  <2>1. ASSUME NEW x, IsDatabase(x)
        PROVE  /\ IsDatabase(Downgraded(x, n)) /\ Downgraded(x, n).tables = x.tables
               /\ Downgraded(x, n).keys = x.keys
               /\ Downgraded(x, n).actions = IF n = 11 THEN AuditActions
                                             ELSE IF n = 12 THEN Whitelist8 ELSE x.actions
               /\ Downgraded(x, n).rules = IF n = 11 THEN x.rules \ {"no_delete", "no_update"}
                                              ELSE IF n = 12 THEN x.rules \ {OnePerPair}
                                              ELSE x.rules \ {"orphan_safety"}
    <3>1. CASE n = 11
      <4>1. Downgraded(x, 11) = [x EXCEPT !.actions = AuditActions,
                                          !.rules = @ \ {"no_delete", "no_update"}]
        BY DEF Downgraded, Down0011
      <4>2. QED
        BY <2>1, <3>1, <4>1 DEF IsDatabase
    <3>2. CASE n = 12
      <4>1. PICK y : y = Downgraded(x, 12)
        OBVIOUS
      <4>2. y = [x EXCEPT !.actions = Whitelist8, !.rules = @ \ {OnePerPair}]
        BY <4>1 DEF Downgraded, Down0012
      <4>3. /\ IsDatabase(y) /\ y.tables = x.tables /\ y.keys = x.keys /\ y.actions = Whitelist8
            /\ y.rules = x.rules \ {OnePerPair}
        BY <2>1, <4>2 DEF IsDatabase
      <4>4. QED
        BY <3>2, <4>1, <4>3
    <3>3. CASE n = 17
      <4>1. Downgraded(x, 17) = [x EXCEPT !.rules = @ \ {"orphan_safety"}]
        BY DEF Downgraded, Down0017
      <4>2. QED
        BY <2>1, <3>3, <4>1 DEF IsDatabase
    <3>4. QED
      BY <1>4, <3>1, <3>2, <3>3
  <2>2. QED
    BY <2>1 DEF SameSchema
<1>5. CASE n = 14
  <2>1. PICK names : names = {"workspace_id", "rating", "attribution_status", "ragas_scores"}
    OBVIOUS
  <2>2. PICK u, v : u = DropColumns(d, "feedbacks", names) /\ v = DropColumns(e, "feedbacks", names)
    OBVIOUS
  <2>3. SameSchema(u, v)
    BY <2>2, SameDropColumns
  <2>4. PICK columns : columns = Table({}, {"score"}, {})
    OBVIOUS
  <2>5. SameSchema(AddColumns(u, "feedbacks", columns), AddColumns(v, "feedbacks", columns))
    BY <2>3, SameAddColumns
  <2>6. /\ Downgraded(d, n) = AddColumns(u, "feedbacks", columns)
        /\ Downgraded(e, n) = AddColumns(v, "feedbacks", columns)
    BY <1>5, <2>1, <2>2, <2>4 DEF Downgraded, Down0014
  <2>7. QED
    BY <2>5, <2>6
<1>6. CASE n = 15
  <2>1. PICK columns : columns = Table({}, {"comment"}, {})
    OBVIOUS
  <2>2. ASSUME NEW x PROVE Downgraded(x, n) = AddColumns(x, "feedbacks", columns)
    BY <1>6, <2>1 DEF Downgraded, Down0015
  <2>3. QED
    BY <2>2, SameAddColumns
<1>7. QED
  BY <1>1, <1>2, <1>3, <1>4, <1>5, <1>6 DEF Revisions, HeadRev

-----------------------------------------------------------------------------
(* A downgrade takes back what the upgrade did                             *)

\* Columns, and keys on them, that are taken away again.
LEMMA KeyedColumnsTakenBack ==
    ASSUME NEW d, IsDatabase(d), KeysHaveColumns(d), NEW t \in DOMAIN d.tables, NEW columns, NEW names,
           names = DOMAIN columns, names \cap DOMAIN d.tables[t] = {}, NEW keys,
           \A k \in keys : k.table = t /\ k.column \in names,
           NEW e, Becomes(e, d, [d.tables EXCEPT ![t] = Overlay(columns, d.tables[t])], d.keys \cup keys)
    PROVE  SameSchema(DropColumns(e, t, names), d)
<1>1. PICK f, g : f = DropColumns(e, t, names) /\ g = d.tables
  OBVIOUS
<1>2. IsDatabase(e) /\ e.tables = [g EXCEPT ![t] = Overlay(columns, g[t])] /\ e.keys = d.keys \cup keys
      /\ e.actions = d.actions /\ e.rules = d.rules
  BY <1>1 DEF Becomes
<1>3. IsDatabase(f) /\ f.tables = [e.tables EXCEPT ![t] = Restrict1(e.tables[t], names)]
      /\ f.keys = {k \in e.keys : ~(k.table = t /\ k.column \in names)}
      /\ f.actions = d.actions /\ f.rules = d.rules
  BY <1>1, <1>2, DropColumnsSchema
<1>4. DOMAIN f.tables = DOMAIN g /\ \A u \in DOMAIN g : u # t => f.tables[u] = g[u]
  BY <1>2, <1>3
<1>5. DOMAIN f.tables[t] = DOMAIN g[t] /\ \A c \in DOMAIN g[t] : f.tables[t][c] = g[t][c]
  <2>1. PICK a, u, v : a = g[t] /\ u = Overlay(columns, a) /\ v = Restrict1(u, names)
    OBVIOUS
  <2>2. DOMAIN u = DOMAIN columns \cup DOMAIN a /\ \A x \in DOMAIN a \ DOMAIN columns : u[x] = a[x]
    BY <2>1 DEF Overlay
  <2>3. DOMAIN v = DOMAIN u \ names /\ \A x \in DOMAIN u \ names : v[x] = u[x]
    BY <2>1 DEF Restrict1
  <2>4. DOMAIN v = DOMAIN a /\ \A x \in DOMAIN a : v[x] = a[x]
    <3>1. names = DOMAIN columns /\ names \cap DOMAIN a = {}
      BY <1>1, <2>1
    <3>2. QED
      BY <3>1, <2>2, <2>3
  <2>5. f.tables[t] = v
    BY <1>1, <1>2, <1>3, <2>1
  <2>6. QED
    BY <2>1, <2>4, <2>5
<1>6. SameTables(f.tables, g)
  BY <1>4, <1>5 DEF SameTables
<1>7. f.keys = d.keys
  <2>1. ASSUME NEW k \in d.keys, k.table = t PROVE k.column \notin names
    <3>1. k.column \in DOMAIN d.tables[t]
      BY <2>1 DEF KeysHaveColumns
    <3>2. QED
      BY <3>1
  <2>2. QED
    BY <1>2, <1>3, <2>1
<1>8. QED
  BY <1>1, <1>3, <1>6, <1>7 DEF SameSchema

\* The schema that migration n is applied to.
Before(d, n) ==
    /\ IsDatabase(d) /\ KeysHaveColumns(d)
    /\ d.actions = ActionsAt(n - 1) /\ d.rules = RulesIn(n - 1)
    /\ n > 1 => d.keys = KeysAt(n - 1) /\ AreAt(d.tables, n - 1)
    /\ n = 1 => d = Nothing0

LEMMA BeforeSchema == ASSUME NEW n \in Revisions, NEW m, m = n - 1 PROVE Before(Schemas[m], n)
<1>1. m \in 0 .. 17 /\ (n > 1 => m \in 1 .. 17) /\ (n = 1 => m = 0)
  BY DEF Revisions, HeadRev
<1>2. IsDatabase(Schemas[m]) /\ KeysHaveColumns(Schemas[m])
  BY <1>1, SchemaSteps, SchemasHaveColumns
<1>3. Schemas[m].actions = ActionsAt(m) /\ Schemas[m].rules = RulesIn(m)
  BY <1>1, RulesOfRevisions
<1>4. n > 1 => Schemas[m].keys = KeysAt(m) /\ AreAt(Schemas[m].tables, m)
  BY <1>1, KeysOfRevisions, TablesOfRevisions
<1>5. n = 1 => Schemas[m] = Nothing0
  BY <1>1, SchemaSteps
<1>6. QED
  BY <1>2, <1>3, <1>4, <1>5 DEF Before

LEMMA TakenBack1 ==
    ASSUME NEW d, Before(d, 1) PROVE SameSchema(Downgraded(Upgraded(d, 1), 1), d)
<1>1. PICK e, f : e = Upgraded(d, 1) /\ f = Downgraded(e, 1)
  OBVIOUS
<1>2. IsDatabase(d) /\ d.tables = Nothing0.tables /\ DOMAIN d.tables = {} /\ d.keys = {}
  BY DEF Before, Nothing0
<1>3. /\ IsDatabase(e) /\ e.actions = d.actions /\ e.rules = d.rules
      /\ e.tables = Overlay(Tables1, d.tables) /\ e.keys = d.keys \cup Keys1
  BY <1>1, <1>2, Becomes1to9 DEF Becomes
<1>4. f = DropTables(e, DOMAIN e.tables)
  BY <1>1 DEF Downgraded, Down0001
<1>5. PICK names : names = DOMAIN e.tables
  OBVIOUS
<1>6. /\ IsDatabase(f) /\ f.actions = e.actions /\ f.rules = e.rules
      /\ f.tables = Restrict1(e.tables, names)
      /\ f.keys = {k \in e.keys : k.table \notin names}
  BY <1>3, <1>4, <1>5, DropTablesSchema
<1>7. names = Names1
  BY <1>2, <1>3, <1>5, Names1Tables DEF Overlay
<1>8. f.keys = {}
  BY <1>2, <1>3, <1>6, <1>7, KeyColumns1
<1>9. DOMAIN f.tables = {}
  BY <1>5, <1>6 DEF Restrict1
<1>10. QED
  BY <1>1, <1>2, <1>3, <1>6, <1>8, <1>9 DEF SameSchema, SameTables

\* The columns that 0002, 0004, 0006, 0007, 0010, 0013 and 0014 add are not there before.
LEMMA NotBefore ==
    ASSUME NEW n \in {2, 4, 6, 7, 10, 13, 14}, NEW f, AreAt(f, n - 1)
    PROVE  /\ Added(n).t \in DOMAIN f
           /\ DOMAIN Added(n).columns \cap DOMAIN f[Added(n).t] = {}
<1>1. PICK m, t, names : m = n - 1 /\ t = Added(n).t /\ names = DOMAIN Added(n).columns
  OBVIOUS
<1>2. t \in Names1
  BY <1>1 DEF Added, Names1
<1>3. t \in DOMAIN f /\ f[t] = TableAt(m, t)
  BY <1>1, <1>2 DEF AreAt, NamesAt
<1>4. CASE n = 2
  <2>1. t = "drift_alerts" /\ m = 1 /\ names = {"kind", "metric_name", "scope", "drift_pct", "severity"}
    BY <1>1, <1>4, AddedColumns DEF Added, DriftColumns
  <2>2. f[t] = Tables1["drift_alerts"]
    BY <1>3, <2>1 DEF TableAt, AlertsAt
  <2>3. QED
    BY <1>1, <1>3, <2>1, <2>2, Columns1
<1>5. CASE n = 4
  <2>1. t = "roles" /\ m = 3 /\ names = {"workspace_scoped"}
    BY <1>1, <1>5, AddedColumns DEF Added
  <2>2. f[t] = Tables1["roles"]
    BY <1>3, <2>1 DEF TableAt, RolesAt
  <2>3. QED
    BY <1>1, <1>3, <2>1, <2>2, Columns1
<1>6. CASE n = 6
  <2>1. t = "users" /\ m = 5 /\ names = {"deleted_at"}
    BY <1>1, <1>6, AddedColumns DEF Added
  <2>2. f[t] = Tables1["users"]
    BY <1>3, <2>1 DEF TableAt, UsersAt
  <2>3. QED
    BY <1>1, <1>3, <2>1, <2>2, Columns1
<1>7. CASE n = 7
  <2>1. t = "users" /\ m = 6 /\ names = {"display_name", "avatar_url"}
    BY <1>1, <1>7, AddedColumns DEF Added
  <2>2. f[t] = UsersAt(6)
    BY <1>3, <2>1 DEF TableAt
  <2>3. DOMAIN UsersAt(6) = DOMAIN Tables1["users"] \cup {"deleted_at"}
    BY ColumnsAt
  <2>4. QED
    BY <1>1, <1>3, <2>1, <2>2, <2>3, Columns1
<1>8. CASE n = 10
  <2>1. t = "feedback_categories" /\ m = 9 /\ names = {"name_zh", "is_system", "description"}
    BY <1>1, <1>8, AddedColumns DEF Added
  <2>2. f[t] = Tables1["feedback_categories"]
    BY <1>3, <2>1 DEF TableAt, CategoriesAt
  <2>3. QED
    BY <1>1, <1>3, <2>1, <2>2, Columns1
<1>9. CASE n = 13
  <2>1. t = "chunks" /\ m = 12 /\ names = {"workspace_id"}
    BY <1>1, <1>9, AddedColumns DEF Added
  <2>2. f[t] = Tables1["chunks"]
    BY <1>3, <2>1 DEF TableAt, ChunksAt
  <2>3. QED
    BY <1>1, <1>3, <2>1, <2>2, Columns1
<1>10. CASE n = 14
  <2>1. /\ t = "feedbacks" /\ m = 13
        /\ names = {"workspace_id", "rating", "attribution_status", "ragas_scores"}
    BY <1>1, <1>10, AddedColumns DEF Added
  <2>2. f[t] = Tables1["feedbacks"]
    BY <1>3, <2>1 DEF TableAt, FeedbacksAt
  <2>3. QED
    BY <1>1, <1>3, <2>1, <2>2, Columns1
<1>11. QED
  BY <1>4, <1>5, <1>6, <1>7, <1>8, <1>9, <1>10

LEMMA TakenBackColumns ==
    ASSUME NEW n \in {2, 4, 6, 7, 13}, NEW d, Before(d, n)
    PROVE  SameSchema(Downgraded(Upgraded(d, n), n), d)
<1>1. PICK t, columns, names : /\ t = Added(n).t /\ columns = Added(n).columns
                               /\ names = DOMAIN columns
  OBVIOUS
<1>2. IsDatabase(d) /\ KeysHaveColumns(d) /\ AreAt(d.tables, n - 1)
  BY DEF Before
<1>3. t \in DOMAIN d.tables /\ names \cap DOMAIN d.tables[t] = {}
  BY <1>1, <1>2, NotBefore
<1>4. PICK keys, e : keys = (IF n = 13 THEN {ChunkKey} ELSE {}) /\ e = Upgraded(d, n)
  OBVIOUS
<1>5. Becomes(e, d, [d.tables EXCEPT ![t] = Overlay(columns, d.tables[t])], d.keys \cup keys)
  <2>1. Widened(d.tables, n) = [d.tables EXCEPT ![t] = Overlay(columns, d.tables[t])]
    BY <1>1 DEF Widened
  <2>2. CASE n = 13
    <3>1. Becomes(Upgraded(d, 13), d, Widened(d.tables, 13), d.keys \cup {ChunkKey})
      BY <1>2, Becomes13
    <3>2. QED
      BY <1>4, <2>1, <2>2, <3>1
  <2>3. CASE n # 13
    <3>1. Becomes(Upgraded(d, n), d, Widened(d.tables, n), d.keys)
      BY <1>2, <2>3, Becomes1to9
    <3>2. d.keys = d.keys \cup keys
      BY <1>4, <2>3
    <3>3. QED
      BY <1>4, <2>1, <3>1, <3>2
  <2>4. QED
    BY <2>2, <2>3
<1>6. \A k \in keys : k.table = t /\ k.column \in names
  <2>1. n = 13 => t = "chunks" /\ names = {"workspace_id"}
    BY <1>1, AddedColumns DEF Added
  <2>2. QED
    BY <1>4, <2>1, SingleKeysAre DEF Is
<1>7. SameSchema(DropColumns(e, t, names), d)
  BY <1>1, <1>2, <1>3, <1>5, <1>6, KeyedColumnsTakenBack
<1>8. Downgraded(e, n) = DropColumns(e, t, names)
  <2>1. CASE n = 2
    <3>1. t = "drift_alerts" /\ names = DriftColumns
      BY <1>1, <2>1, AddedColumns DEF Added
    <3>2. QED
      BY <2>1, <3>1 DEF Downgraded, Down0002
  <2>2. CASE n = 4
    <3>1. t = "roles" /\ names = {"workspace_scoped"}
      BY <1>1, <2>2, AddedColumns DEF Added
    <3>2. QED
      BY <2>2, <3>1 DEF Downgraded, Down0004
  <2>3. CASE n = 6
    <3>1. t = "users" /\ names = {"deleted_at"}
      BY <1>1, <2>3, AddedColumns DEF Added
    <3>2. QED
      BY <2>3, <3>1 DEF Downgraded, Down0006
  <2>4. CASE n = 7
    <3>1. t = "users" /\ names = {"display_name", "avatar_url"}
      BY <1>1, <2>4, AddedColumns DEF Added
    <3>2. QED
      BY <2>4, <3>1 DEF Downgraded, Down0007
  <2>5. CASE n = 13
    <3>1. t = "chunks" /\ names = {"workspace_id"}
      BY <1>1, <2>5, AddedColumns DEF Added
    <3>2. QED
      BY <2>5, <3>1 DEF Downgraded, Down0013
  <2>6. QED
    BY <2>1, <2>2, <2>3, <2>4, <2>5
<1>9. QED
  BY <1>4, <1>7, <1>8

LEMMA TakenBackTables ==
    ASSUME NEW n \in {5, 8, 9, 16}, NEW d, Before(d, n)
    PROVE  SameSchema(Downgraded(Upgraded(d, n), n), d)
<1>1. PICK tables, keys, names :
          /\ tables = IF n = 5 THEN SensitiveValues ELSE IF n = 8 THEN ApiTokens
                      ELSE IF n = 9 THEN PasswordResets ELSE Tickets
          /\ keys = IF n = 5 THEN SensitiveValueKeys ELSE IF n = 8 THEN {TokenKey}
                    ELSE IF n = 9 THEN PasswordResetKeys ELSE TicketKeys
          /\ names = IF n = 5 THEN {"sensitive_values"} ELSE IF n = 8 THEN {"api_tokens"}
                     ELSE IF n = 9 THEN {"password_reset_audit"}
                     ELSE {"feedback_attributions", "feedback_tickets"}
  OBVIOUS
<1>2. IsDatabase(d) /\ KeysHaveColumns(d) /\ DOMAIN d.tables = NamesAt(n - 1)
  BY DEF Before, AreAt
<1>3. names = DOMAIN tables
  BY <1>1 DEF SensitiveValues, ApiTokens, PasswordResets, Tickets
<1>4. names \cap DOMAIN d.tables = {}
  BY <1>1, <1>2 DEF NamesAt, Names1
<1>5. \A k \in keys : k.table \in names
  <2>1. CASE n = 5
    <3>1. keys = SensitiveValueKeys /\ names = {"sensitive_values"}
      BY <1>1, <2>1
    <3>2. QED
      BY <3>1, SensitiveValueKeysAre DEF Is
  <2>2. CASE n = 8
    <3>1. keys = {TokenKey} /\ names = {"api_tokens"}
      BY <1>1, <2>2
    <3>2. QED
      BY <3>1, SingleKeysAre DEF Is
  <2>3. CASE n = 9
    <3>1. keys = PasswordResetKeys /\ names = {"password_reset_audit"}
      BY <1>1, <2>3
    <3>2. QED
      BY <3>1, PasswordResetKeysAre DEF Is
  <2>4. CASE n = 16
    <3>1. keys = TicketKeys /\ names = {"feedback_attributions", "feedback_tickets"}
      BY <1>1, <2>4
    <3>2. QED
      BY <3>1, TicketKeysAre DEF Is
  <2>5. QED
    BY <2>1, <2>2, <2>3, <2>4
<1>6. SameSchema(DropTables(AddTables(d, tables, keys), names), d)
  BY <1>2, <1>3, <1>4, <1>5, TablesTakenBack
<1>8. ASSUME NEW x PROVE Downgraded(x, n) = DropTables(x, names)
  BY <1>1 DEF Downgraded, Down0005, Down0008, Down0009, Down0016
<1>7. SameSchema(DropTables(Upgraded(d, n), names), DropTables(AddTables(d, tables, keys), names))
  <2>1. PICK e : e = AddTables(d, tables, keys)
    OBVIOUS
  <2>2. IsDatabase(e)
    BY <1>2, <2>1, AddTablesSchema
  <2>3. CASE n = 5
    <3>1. Upgraded(d, n) = Insert(e, Presets)
      BY <1>1, <2>1, <2>3 DEF Upgraded, Up0005
    <3>2. SameSchema(Insert(e, Presets), e)
      BY <2>2 DEF Insert, IsDatabase, SameSchema, SameTables
    <3>3. QED
      BY <2>1, <3>1, <3>2, SameDropTables
  <2>4. CASE n \in {8, 9, 16}
    <3>1. Upgraded(d, n) = e
      BY <1>1, <2>1, <2>4 DEF Upgraded, Up0008, Up0009, Up0016, TokenKey
    <3>2. QED
      BY <2>1, <2>2, <3>1, SameSchemaRefl, SameDropTables
  <2>5. QED
    BY <2>3, <2>4
<1>9. QED
  BY <1>6, <1>7, <1>8, SameSchemaTrans

LEMMA TakenBack10 ==
    ASSUME NEW d, Before(d, 10) PROVE SameSchema(Downgraded(Upgraded(d, 10), 10), d)
<1>1. PICK t, columns, names, e :
          /\ t = "feedback_categories" /\ columns = Table({"name_zh", "is_system"}, {}, {"description"})
          /\ names = {"name_zh", "is_system", "description"} /\ e = AddColumns(d, t, columns)
  OBVIOUS
<1>2. IsDatabase(d) /\ KeysHaveColumns(d) /\ AreAt(d.tables, 9)
  BY DEF Before
<1>3. Added(10).t = t /\ Added(10).columns = columns /\ names = DOMAIN columns
  BY <1>1, AddedColumns DEF Added
<1>4. t \in DOMAIN d.tables /\ names \cap DOMAIN d.tables[t] = {}
  <2>1. /\ Added(10).t \in DOMAIN d.tables
        /\ DOMAIN Added(10).columns \cap DOMAIN d.tables[Added(10).t] = {}
    BY <1>2, NotBefore
  <2>2. QED
    BY <1>3, <2>1
<1>5. SameSchema(DropColumns(e, t, names), d)
  <2>1. SameSchema(DropColumns(AddColumns(d, t, columns), t, names), d)
    BY <1>2, <1>3, <1>4, ColumnsTakenBack
  <2>2. QED
    BY <1>1, <2>1
<1>6. PICK f, gone : f = DropTables(AddTables(e, TicketStatuses, {}), gone) /\ gone = {"ticket_statuses"}
  OBVIOUS
<1>7. SameSchema(f, e)
  <2>1. IsDatabase(e) /\ e.keys = d.keys /\ e.tables = [d.tables EXCEPT ![t] = Overlay(columns, d.tables[t])]
    BY <1>1, <1>2 DEF AddColumns, IsDatabase
  <2>2. DOMAIN e.tables = DOMAIN d.tables
    BY <2>1
  <2>3. KeysHaveColumns(e)
    <3>1. PICK a, b : a = d.tables[t] /\ b = Overlay(columns, a)
      OBVIOUS
    <3>2. DOMAIN a \subseteq DOMAIN b
      BY <3>1 DEF Overlay
    <3>3. \A u \in DOMAIN d.tables : DOMAIN d.tables[u] \subseteq DOMAIN e.tables[u]
      BY <2>1, <3>1, <3>2
    <3>4. QED
      BY <1>2, <2>1, <2>2, <3>3 DEF KeysHaveColumns
  <2>4. gone = DOMAIN TicketStatuses
    BY <1>6 DEF TicketStatuses
  <2>5. gone \cap DOMAIN e.tables = {}
    BY <1>2, <1>6, <2>2 DEF AreAt, NamesAt, Names1
  <2>6. \A k \in {} : k.table \in gone
    OBVIOUS
  <2>7. SameSchema(DropTables(AddTables(e, TicketStatuses, {}), gone), e)
    BY <2>1, <2>3, <2>4, <2>5, <2>6, TablesTakenBack
  <2>8. QED
    BY <1>6, <2>7
<1>8. SameSchema(DropColumns(f, t, names), DropColumns(e, t, names))
  BY <1>7, SameDropColumns
<1>9. SameSchema(DropColumns(f, t, names), d)
  BY <1>5, <1>8, SameSchemaTrans
<1>10. Downgraded(Upgraded(d, 10), 10) = DropColumns(f, t, names)
  <2>1. Upgraded(d, 10) = AddTables(e, TicketStatuses, {})
    BY <1>1 DEF Upgraded, Up0010
  <2>2. ASSUME NEW x PROVE Downgraded(x, 10) = DropColumns(DropTables(x, gone), t, names)
    BY <1>1, <1>6 DEF Downgraded, Down0010
  <2>3. QED
    BY <1>6, <2>1, <2>2
<1>11. QED
  BY <1>9, <1>10

LEMMA TakenBackRules ==
    ASSUME NEW n \in {11, 12, 17}, NEW d, Before(d, n)
    PROVE  SameSchema(Downgraded(Upgraded(d, n), n), d)
<1>1. IsDatabase(d) /\ d.actions = ActionsAt(n - 1) /\ d.rules = RulesIn(n - 1)
  BY DEF Before
<1>2. CASE n = 11
  <2>1. Upgraded(d, 11) = [d EXCEPT !.actions = Whitelist8, !.rules = @ \cup {"no_delete", "no_update"}]
    BY DEF Upgraded, Up0011
  <2>2. Downgraded(Upgraded(d, 11), 11) =
            [Upgraded(d, 11) EXCEPT !.actions = AuditActions, !.rules = @ \ {"no_delete", "no_update"}]
    BY DEF Downgraded, Down0011
  <2>3. d.actions = AuditActions /\ d.rules = {}
    BY <1>1, <1>2 DEF ActionsAt, RulesIn
  <2>4. PICK f : f = Downgraded(Upgraded(d, 11), 11)
    OBVIOUS
  <2>5. /\ IsDatabase(f) /\ f.tables = d.tables /\ f.keys = d.keys
        /\ f.actions = AuditActions /\ f.rules = {}
    <3>1. PICK e : e = Upgraded(d, 11)
      OBVIOUS
    <3>2. /\ IsDatabase(e) /\ e.tables = d.tables /\ e.keys = d.keys
          /\ e.rules = {"no_delete", "no_update"}
      BY <1>1, <2>1, <2>3, <3>1 DEF IsDatabase
    <3>3. f = [e EXCEPT !.actions = AuditActions, !.rules = {}]
      BY <2>2, <2>4, <3>1, <3>2
    <3>4. QED
      BY <3>2, <3>3 DEF IsDatabase
  <2>6. QED
    BY <1>1, <1>2, <2>3, <2>4, <2>5 DEF SameSchema, SameTables
<1>3. CASE n = 12
  <2>1. Upgraded(d, 12) = [d EXCEPT !.actions = AuditActions, !.rules = @ \cup {OnePerPair}]
    BY DEF Upgraded, Up0012
  <2>2. Downgraded(Upgraded(d, 12), 12) =
            [Upgraded(d, 12) EXCEPT !.actions = Whitelist8, !.rules = @ \ {OnePerPair}]
    BY DEF Downgraded, Down0012
  <2>3. d.actions = Whitelist8 /\ OnePerPair \notin d.rules
    BY <1>1, <1>3 DEF ActionsAt, RulesIn, AppendOnly, OnePerPair
  <2>4. PICK f : f = Downgraded(Upgraded(d, 12), 12)
    OBVIOUS
  <2>5. /\ IsDatabase(f) /\ f.tables = d.tables /\ f.keys = d.keys
        /\ f.actions = Whitelist8 /\ f.rules = d.rules
    <3>1. PICK e : e = Upgraded(d, 12)
      OBVIOUS
    <3>2. /\ IsDatabase(e) /\ e.tables = d.tables /\ e.keys = d.keys
          /\ e.rules = d.rules \cup {OnePerPair}
      BY <1>1, <2>1, <3>1 DEF IsDatabase
    <3>3. f = [e EXCEPT !.actions = Whitelist8, !.rules = @ \ {OnePerPair}]
      BY <2>2, <2>4, <3>1
    <3>4. IsDatabase(f) /\ f.tables = e.tables /\ f.keys = e.keys /\ f.actions = Whitelist8
      BY <3>2, <3>3 DEF IsDatabase
    <3>5. f.rules = e.rules \ {OnePerPair}
      BY <3>2, <3>3 DEF IsDatabase
    <3>6. f.rules = d.rules
      BY <2>3, <3>2, <3>5
    <3>7. QED
      BY <3>2, <3>4, <3>6
  <2>6. QED
    BY <1>1, <1>3, <2>3, <2>4, <2>5 DEF SameSchema, SameTables
<1>4. CASE n = 17
  <2>1. Upgraded(d, 17) = [d EXCEPT !.rules = @ \cup {"orphan_safety"}]
    BY DEF Upgraded, Up0017
  <2>2. Downgraded(Upgraded(d, 17), 17) = [Upgraded(d, 17) EXCEPT !.rules = @ \ {"orphan_safety"}]
    BY DEF Downgraded, Down0017
  <2>3. "orphan_safety" \notin d.rules
    BY <1>1, <1>4 DEF RulesIn, AppendOnly, OnePerPair
  <2>4. PICK f : f = Downgraded(Upgraded(d, 17), 17)
    OBVIOUS
  <2>5. /\ IsDatabase(f) /\ f.tables = d.tables /\ f.keys = d.keys
        /\ f.actions = d.actions /\ f.rules = d.rules
    BY <1>1, <2>1, <2>2, <2>3, <2>4 DEF IsDatabase
  <2>6. QED
    BY <1>1, <1>4, <2>4, <2>5 DEF SameSchema, SameTables
<1>5. QED
  BY <1>2, <1>3, <1>4

LEMMA TakenBack14 ==
    ASSUME NEW d, Before(d, 14) PROVE SameSchema(Downgraded(Upgraded(d, 14), 14), d)
<1>1. PICK names, score, t, f, g :
          /\ names = {"workspace_id", "rating", "attribution_status", "ragas_scores"}
          /\ score = Table({}, {"score"}, {}) /\ t = "feedbacks"
          /\ f = d.tables /\ g = Widened(f, 14)
  OBVIOUS
<1>2. /\ IsDatabase(d) /\ KeysHaveColumns(d) /\ d.keys = KeysAt(13) /\ AreAt(f, 13)
  BY <1>1 DEF Before
<1>3. PICK a : a = f[t]
  OBVIOUS
<1>4. t \in DOMAIN f /\ names \cap DOMAIN a = {} /\ "score" \in DOMAIN a
  <2>1. /\ Added(14).t \in DOMAIN f /\ DOMAIN Added(14).columns \cap DOMAIN f[Added(14).t] = {}
    BY <1>2, NotBefore
  <2>2. Added(14).t = t /\ DOMAIN Added(14).columns = names
    BY <1>1, AddedColumns DEF Added
  <2>3. a = Tables1["feedbacks"]
    BY <1>1, <1>2, <1>3 DEF AreAt, TableAt, FeedbacksAt, NamesAt, Names1
  <2>4. QED
    BY <1>3, <2>1, <2>2, <2>3, Columns1
<1>5. PICK e : e = Upgraded(d, 14)
  OBVIOUS
<1>6. /\ IsDatabase(e) /\ e.actions = d.actions /\ e.rules = d.rules
      /\ e.tables = [g EXCEPT !["feedbacks"] = Restrict1(@, {"score"})]
      /\ e.keys = {k \in d.keys \cup {FeedbackKey} : ~(k.table = "feedbacks" /\ k.column \in {"score"})}
  BY <1>1, <1>2, <1>5, Becomes14 DEF Becomes
<1>7. PICK dropped : dropped = DropColumns(e, t, names)
  OBVIOUS
<1>8. /\ IsDatabase(dropped) /\ dropped.actions = d.actions /\ dropped.rules = d.rules
      /\ dropped.tables = [e.tables EXCEPT ![t] = Restrict1(e.tables[t], names)]
      /\ dropped.keys = {k \in e.keys : ~(k.table = t /\ k.column \in names)}
  <2>1. /\ IsDatabase(dropped) /\ dropped.actions = e.actions /\ dropped.rules = e.rules
        /\ dropped.tables = [e.tables EXCEPT ![t] = Restrict1(e.tables[t], names)]
        /\ dropped.keys = {k \in e.keys : ~(k.table = t /\ k.column \in names)}
    BY <1>6, <1>7 DEF DropColumns, IsDatabase
  <2>2. QED
    BY <1>6, <2>1
<1>9. PICK back : back = AddColumns(dropped, t, score)
  OBVIOUS
<1>10. /\ IsDatabase(back) /\ back.actions = d.actions /\ back.rules = d.rules
       /\ back.tables = [dropped.tables EXCEPT ![t] = Overlay(score, dropped.tables[t])]
       /\ back.keys = dropped.keys
  <2>1. /\ IsDatabase(back) /\ back.actions = dropped.actions /\ back.rules = dropped.rules
        /\ back.tables = [dropped.tables EXCEPT ![t] = Overlay(score, dropped.tables[t])]
        /\ back.keys = dropped.keys
    BY <1>8, <1>9 DEF AddColumns, IsDatabase
  <2>2. QED
    BY <1>8, <2>1
<1>11. Downgraded(e, 14) = back
  <2>1. Downgraded(e, 14) = AddColumns(DropColumns(e, t, names), t, score)
    BY <1>1 DEF Downgraded, Down0014
  <2>2. QED
    BY <1>7, <1>9, <2>1
<1>12. back.keys = d.keys
  <2>1. FeedbackKey.table = t /\ FeedbackKey.column \in names
    BY <1>1, SingleKeysAre DEF Is
  <2>2. ASSUME NEW k \in d.keys, k.table = t PROVE k.column \notin names
    <3>1. k.column \in DOMAIN f[t]
      BY <1>1, <1>2, <2>2 DEF KeysHaveColumns
    <3>2. QED
      BY <1>3, <1>4, <3>1
  <2>3. ASSUME NEW k \in d.keys PROVE ~(k.table = "feedbacks" /\ k.column \in {"score"})
    <3>1. k \in KeysAt(14)
      BY <1>2 DEF KeysAt
    <3>2. QED
      BY <3>1, NoScoreKey
  <2>4. QED
    BY <1>6, <1>8, <1>10, <2>1, <2>2, <2>3
<1>13. DOMAIN g = DOMAIN f /\ \A u \in DOMAIN f : u # t => g[u] = f[u]
  BY <1>1 DEF Widened, Added
<1>14. DOMAIN back.tables = DOMAIN f /\ \A u \in DOMAIN f : u # t => back.tables[u] = f[u]
  BY <1>1, <1>6, <1>8, <1>10, <1>13
<1>15. /\ DOMAIN back.tables[t] = DOMAIN a
       /\ \A c \in DOMAIN a : c # "score" => back.tables[t][c] = a[c]
  <2>1. PICK wide, rated, less, last :
            /\ wide = Overlay(Added(14).columns, a) /\ rated = Restrict1(wide, {"score"})
            /\ less = Restrict1(rated, names) /\ last = Overlay(score, less)
    OBVIOUS
  <2>2. g[t] = wide
    BY <1>1, <1>3, <1>4, <2>1 DEF Widened, Added
  <2>3. e.tables[t] = rated
    BY <1>1, <1>4, <1>6, <1>13, <2>1, <2>2
  <2>4. dropped.tables[t] = less
    BY <1>4, <1>6, <1>8, <1>13, <2>1, <2>3
  <2>5. back.tables[t] = last
    BY <1>4, <1>6, <1>8, <1>10, <1>13, <2>1, <2>4
  <2>6. /\ DOMAIN wide = names \cup DOMAIN a /\ \A c \in DOMAIN a \ names : wide[c] = a[c]
    <3>1. DOMAIN Added(14).columns = names
      BY <1>1, AddedColumns
    <3>2. QED
      BY <2>1, <3>1 DEF Overlay
  <2>7. DOMAIN rated = DOMAIN wide \ {"score"} /\ \A c \in DOMAIN wide \ {"score"} : rated[c] = wide[c]
    BY <2>1 DEF Restrict1
  <2>8. DOMAIN less = DOMAIN rated \ names /\ \A c \in DOMAIN rated \ names : less[c] = rated[c]
    BY <2>1 DEF Restrict1
  <2>9. DOMAIN last = {"score"} \cup DOMAIN less /\ \A c \in DOMAIN less \ {"score"} : last[c] = less[c]
    <3>1. DOMAIN score = {"score"}
      BY <1>1 DEF Table
    <3>2. QED
      BY <2>1, <3>1 DEF Overlay
  <2>10. DOMAIN less = DOMAIN a \ {"score"} /\ \A c \in DOMAIN a \ {"score"} : less[c] = a[c]
    BY <1>4, <2>6, <2>7, <2>8
  <2>11. QED
    BY <1>4, <2>5, <2>9, <2>10
<1>16. SameTables(back.tables, f)
  BY <1>1, <1>3, <1>14, <1>15 DEF SameTables
<1>17. SameSchema(back, d)
  BY <1>1, <1>2, <1>10, <1>12, <1>16 DEF SameSchema
<1>18. QED
  BY <1>5, <1>11, <1>17

LEMMA TakenBack15 ==
    ASSUME NEW d, Before(d, 15) PROVE SameSchema(Downgraded(Upgraded(d, 15), 15), d)
<1>1. PICK up, down, t, f, a :
          /\ up = Table({}, {}, {"comment"}) /\ down = Table({}, {"comment"}, {})
          /\ t = "feedbacks" /\ f = d.tables /\ a = f[t]
  OBVIOUS
<1>2. IsDatabase(d) /\ AreAt(f, 14)
  BY <1>1 DEF Before
<1>3. t \in DOMAIN f /\ "comment" \in DOMAIN a /\ a["comment"] = "defaulted"
  <2>1. t \in DOMAIN f /\ a = Rated
    BY <1>1, <1>2 DEF AreAt, TableAt, FeedbacksAt, NamesAt, Names1
  <2>2. PICK old, wide : old = Tables1["feedbacks"] /\ wide = Wider(old, 14)
    OBVIOUS
  <2>3. "comment" \in DOMAIN old /\ old["comment"] = "defaulted"
    <3>1. old = Feedbacks["feedbacks"]
      BY <2>2, Sections1
    <3>2. old = Table({"id", "message_id", "user_id", "score"},
        {"auto_categorized", "comment", "created_at"}, {"reason_tag_id", "category_id"})
      BY <3>1 DEF Feedbacks
    <3>3. QED
      BY <3>2 DEF Table
  <2>4. "comment" \in DOMAIN wide /\ wide["comment"] = "defaulted"
    <3>1. DOMAIN Added(14).columns = {"workspace_id", "rating", "attribution_status", "ragas_scores"}
      BY AddedColumns
    <3>2. wide = Overlay(Added(14).columns, old)
      BY <2>2 DEF Wider
    <3>3. QED
      BY <2>3, <3>1, <3>2 DEF Overlay
  <2>5. Rated = Restrict1(wide, {"score"})
    BY <2>2 DEF Rated
  <2>6. QED
    BY <2>1, <2>4, <2>5 DEF Restrict1
<1>4. PICK e, back : e = AddColumns(d, t, up) /\ back = AddColumns(e, t, down)
  OBVIOUS
<1>5. /\ IsDatabase(e) /\ e.actions = d.actions /\ e.rules = d.rules
      /\ e.tables = [f EXCEPT ![t] = Overlay(up, f[t])] /\ e.keys = d.keys
  BY <1>1, <1>2, <1>4 DEF AddColumns, IsDatabase
<1>6. /\ IsDatabase(back) /\ back.actions = d.actions /\ back.rules = d.rules
      /\ back.tables = [e.tables EXCEPT ![t] = Overlay(down, e.tables[t])] /\ back.keys = d.keys
  <2>1. /\ IsDatabase(back) /\ back.actions = e.actions /\ back.rules = e.rules
        /\ back.tables = [e.tables EXCEPT ![t] = Overlay(down, e.tables[t])] /\ back.keys = e.keys
    BY <1>4, <1>5 DEF AddColumns, IsDatabase
  <2>2. QED
    BY <1>5, <2>1
<1>7. DOMAIN back.tables = DOMAIN f /\ \A u \in DOMAIN f : u # t => back.tables[u] = f[u]
  BY <1>5, <1>6
<1>8. DOMAIN back.tables[t] = DOMAIN a /\ \A c \in DOMAIN a : back.tables[t][c] = a[c]
  <2>1. PICK mid, last : mid = Overlay(up, a) /\ last = Overlay(down, mid)
    OBVIOUS
  <2>2. back.tables[t] = last
    BY <1>1, <1>3, <1>5, <1>6, <2>1
  <2>3. DOMAIN up = {"comment"} /\ DOMAIN down = {"comment"} /\ down["comment"] = "defaulted"
    BY <1>1 DEF Table
  <2>4. /\ DOMAIN mid = {"comment"} \cup DOMAIN a /\ \A c \in DOMAIN a \ {"comment"} : mid[c] = a[c]
    BY <2>1, <2>3 DEF Overlay
  <2>5. /\ DOMAIN last = {"comment"} \cup DOMAIN mid /\ last["comment"] = "defaulted"
        /\ \A c \in DOMAIN mid \ {"comment"} : last[c] = mid[c]
    BY <2>1, <2>3 DEF Overlay
  <2>6. QED
    BY <1>3, <2>2, <2>4, <2>5
<1>9. SameTables(back.tables, f)
  BY <1>1, <1>7, <1>8 DEF SameTables
<1>10. Downgraded(Upgraded(d, 15), 15) = back
  <2>1. Upgraded(d, 15) = e
    BY <1>1, <1>4 DEF Upgraded, Up0015
  <2>2. ASSUME NEW x PROVE Downgraded(x, 15) = AddColumns(x, t, down)
    BY <1>1 DEF Downgraded, Down0015
  <2>3. QED
    BY <1>4, <2>1, <2>2
<1>11. SameSchema(back, d)
  BY <1>1, <1>2, <1>6, <1>9 DEF SameSchema
<1>12. QED
  BY <1>10, <1>11

LEMMA TakenBack ==
    ASSUME NEW n \in Revisions, NEW d, Before(d, n)
    PROVE  SameSchema(Downgraded(Upgraded(d, n), n), d)
<1>1. CASE n = 1
  BY <1>1, TakenBack1
<1>2. CASE n \in {2, 4, 6, 7, 13}
  BY <1>2, TakenBackColumns
<1>3. CASE n \in {5, 8, 9, 16}
  BY <1>3, TakenBackTables
<1>4. CASE n = 10
  BY <1>4, TakenBack10
<1>5. CASE n \in {11, 12, 17}
  BY <1>5, TakenBackRules
<1>6. CASE n = 14
  BY <1>6, TakenBack14
<1>7. CASE n = 15
  BY <1>7, TakenBack15
<1>8. QED
  BY <1>1, <1>2, <1>3, <1>4, <1>5, <1>6, <1>7 DEF Revisions, HeadRev

-----------------------------------------------------------------------------
(* However a revision is reached, its schema is the same                   *)

AsSchema == SameSchema(database, Schemas[revision]) /\ revision \in Revisions \cup {0}

LEMMA UpgradedAsSchema == ASSUME AsSchema, Upgrade PROVE AsSchema'
<1>1. PICK n, m : n = Above(revision) /\ m = n - 1
  OBVIOUS
<1>2. /\ revision \in Revisions \cup {0} /\ revision < 17 /\ revision' = n
      /\ database' = Upgraded(database, n)
  BY <1>1 DEF AsSchema, Upgrade, HeadRev
<1>3. n \in Revisions /\ Schemas[n] = Upgraded(Schemas[m], n) /\ Schemas[m] = Schemas[revision]
  <2>1. n \in Revisions /\ (m = revision \/ (m = 3 /\ revision = 2))
    BY <1>1, <1>2 DEF Above, Revisions, HeadRev
  <2>2. QED
    BY <1>1, <2>1, SchemaSteps
<1>4. PICK d, e : d = database /\ e = Schemas[m]
  OBVIOUS
<1>5. SameSchema(d, e)
  BY <1>3, <1>4 DEF AsSchema
<1>6. SameSchema(Upgraded(d, n), Upgraded(e, n))
  BY <1>3, <1>5, SameUpgraded
<1>7. QED
  BY <1>2, <1>3, <1>4, <1>6 DEF AsSchema

LEMMA DowngradedAsSchema == ASSUME AsSchema, Downgrade PROVE AsSchema'
<1>1. PICK n, m : n = revision /\ m = n - 1
  OBVIOUS
<1>2. /\ n \in Revisions /\ revision' = Below(n) /\ database' = Downgraded(database, n)
  BY <1>1 DEF AsSchema, Downgrade, Revisions
<1>3. Below(n) \in Revisions \cup {0} /\ Schemas[Below(n)] = Schemas[m]
  <2>1. Below(n) \in Revisions \cup {0} /\ (m = Below(n) \/ (m = 3 /\ Below(n) = 2))
    BY <1>1, <1>2 DEF Below, Revisions, HeadRev
  <2>2. QED
    BY <2>1, SchemaSteps
<1>4. PICK d, e, f : d = database /\ e = Schemas[n] /\ f = Schemas[m]
  OBVIOUS
<1>5. SameSchema(d, e)
  BY <1>1, <1>4 DEF AsSchema
<1>6. SameSchema(Downgraded(d, n), Downgraded(e, n))
  BY <1>2, <1>5, SameDowngraded
<1>7. e = Upgraded(f, n)
  BY <1>1, <1>2, <1>4, SchemaSteps
<1>8. Before(f, n)
  BY <1>1, <1>2, <1>4, BeforeSchema
<1>9. SameSchema(Downgraded(Upgraded(f, n), n), f)
  BY <1>2, <1>8, TakenBack
<1>10. SameSchema(Downgraded(e, n), f)
  BY <1>7, <1>9
<1>11. SameSchema(Downgraded(d, n), f)
  BY <1>6, <1>10, SameSchemaTrans
<1>12. QED
  BY <1>2, <1>3, <1>4, <1>11 DEF AsSchema

LEMMA RowsAsSchema ==
    ASSUME AsSchema, NEW rows, database' = [database EXCEPT !.rows = rows], revision' = revision
    PROVE  AsSchema'
<1>1. PICK d, e, f : d = database /\ e = Schemas[revision] /\ f = [d EXCEPT !.rows = rows]
  OBVIOUS
<1>2. SameSchema(d, e) /\ IsDatabase(d)
  BY <1>1 DEF AsSchema, SameSchema
<1>3. SameSchema(f, d)
  BY <1>1, <1>2, SameRows
<1>4. SameSchema(f, e)
  BY <1>2, <1>3, SameSchemaTrans
<1>5. QED
  BY <1>1, <1>4 DEF AsSchema

LEMMA WriteAsSchema == ASSUME AsSchema, NEW r, Write(r) PROVE AsSchema'
<1>1. revision' = revision /\ database' = [database EXCEPT !.rows = database.rows \cup {r}]
  BY DEF Write
<1>2. QED
  BY <1>1, RowsAsSchema

LEMMA DeleteAsSchema == ASSUME AsSchema, NEW r, Delete(r) PROVE AsSchema'
<1>1. revision' = revision /\ \E rows : database' = [database EXCEPT !.rows = rows]
  BY DEF Delete
<1>2. QED
  BY <1>1, RowsAsSchema

LEMMA StartsAsSchema == SchemaInit => AsSchema
<1>1. SUFFICES ASSUME SchemaInit PROVE AsSchema
  OBVIOUS
<1>2. revision \in Revisions \cup {0} /\ revision \in 0 .. 17 /\ database = Schemas[revision]
  BY <1>1 DEF SchemaInit, Schema, Revisions, HeadRev
<1>3. PICK d : d = Schemas[revision]
  OBVIOUS
<1>4. SameSchema(d, d)
  BY <1>2, <1>3, SchemaSteps, SameSchemaRefl
<1>5. QED
  BY <1>2, <1>3, <1>4 DEF AsSchema

LEMMA StepsAsSchema == AsSchema /\ [SchemaNext]_schemaVars => AsSchema'
<1>1. ASSUME AsSchema, UNCHANGED schemaVars PROVE AsSchema'
  BY <1>1 DEF AsSchema, schemaVars
<1>2. QED
  BY <1>1, UpgradedAsSchema, DowngradedAsSchema, WriteAsSchema, DeleteAsSchema DEF SchemaNext

LEMMA AlwaysAsSchema == SchemaSpec => []AsSchema
  BY StartsAsSchema, StepsAsSchema, PTL DEF SchemaSpec

LEMMA AsSchemaIsSchema == AsSchema => RevisionIsSchema
<1>1. SUFFICES ASSUME AsSchema PROVE RevisionIsSchema
  OBVIOUS
<1>2. PICK d, e : d = database /\ e = Schemas[revision]
  OBVIOUS
<1>3. SameSchema(d, e)
  BY <1>1, <1>2 DEF AsSchema
<1>4. Shape(d) = Shape(e)
  BY <1>3, SameShape
<1>5. QED
  BY <1>2, <1>4 DEF RevisionIsSchema, Schema, Shape

-----------------------------------------------------------------------------
(* The models fit the tables of the head                                   *)

\* Rows of the model can be written to the table, and read from it.
FitsColumns(table, model) ==
    /\ \A c \in DOMAIN model :
          /\ c \in DOMAIN table
          /\ model[c] = "nullable" => table[c] = "nullable"
    /\ \A c \in DOMAIN table : table[c] = "required" => c \in DOMAIN model

LEMMA IdentityFits ==
    /\ FitsColumns(Identity["workspaces"], IdentityModels["workspaces"])
    /\ FitsColumns(ApiTokens["api_tokens"], IdentityModels["api_tokens"])
    /\ FitsColumns(PasswordResets["password_reset_audit"], IdentityModels["password_reset_audit"])
    /\ FitsColumns(Identity["permissions"], RoleModels["permissions"])
    /\ FitsColumns(Memberships["role_permissions"], RoleModels["role_permissions"])
    /\ FitsColumns(Memberships["user_roles"], RoleModels["user_roles"])
<1>1. FitsColumns(Identity["workspaces"], IdentityModels["workspaces"])
  BY DEF Identity, IdentityModels, FitsColumns, Table, Model
<1>2. FitsColumns(ApiTokens["api_tokens"], IdentityModels["api_tokens"])
  BY DEF ApiTokens, IdentityModels, FitsColumns, Table, Model
<1>3. FitsColumns(PasswordResets["password_reset_audit"], IdentityModels["password_reset_audit"])
  BY DEF PasswordResets, IdentityModels, FitsColumns, Table, Model
<1>4. FitsColumns(Identity["permissions"], RoleModels["permissions"])
  BY DEF Identity, RoleModels, FitsColumns, Table, Model
<1>5. FitsColumns(Memberships["role_permissions"], RoleModels["role_permissions"])
  BY DEF Memberships, RoleModels, FitsColumns, Table, Model
<1>6. FitsColumns(Memberships["user_roles"], RoleModels["user_roles"])
  BY DEF Memberships, RoleModels, FitsColumns, Table, Model
<1>7. QED
  BY <1>1, <1>2, <1>3, <1>4, <1>5, <1>6

LEMMA CorpusFits ==
    /\ FitsColumns(Corpus["documents"], CorpusModels["documents"])
    /\ FitsColumns(Corpus["acls"], CorpusModels["acls"])
    /\ FitsColumns(Conversations["conversations"], ConversationModels["conversations"])
    /\ FitsColumns(Conversations["messages"], ConversationModels["messages"])
    /\ FitsColumns(Conversations["citations"], ConversationModels["citations"])
<1>1. FitsColumns(Corpus["documents"], CorpusModels["documents"])
  BY DEF Corpus, CorpusModels, FitsColumns, Table, Model
<1>2. FitsColumns(Corpus["acls"], CorpusModels["acls"])
  BY DEF Corpus, CorpusModels, FitsColumns, Table, Model
<1>3. FitsColumns(Conversations["conversations"], ConversationModels["conversations"])
  BY DEF Conversations, ConversationModels, FitsColumns, Table, Model
<1>4. FitsColumns(Conversations["messages"], ConversationModels["messages"])
  BY DEF Conversations, ConversationModels, FitsColumns, Table, Model
<1>5. FitsColumns(Conversations["citations"], ConversationModels["citations"])
  BY DEF Conversations, ConversationModels, FitsColumns, Table, Model
<1>6. QED
  BY <1>1, <1>2, <1>3, <1>4, <1>5

LEMMA RecordFits ==
    /\ FitsColumns(Records["audit_logs"], RecordModels["audit_logs"])
    /\ FitsColumns(Records["evaluation_results"], RecordModels["evaluation_results"])
    /\ FitsColumns(SensitiveValues["sensitive_values"], RecordModels["sensitive_values"])
    /\ FitsColumns(TicketStatuses["ticket_statuses"], FeedbackModels["ticket_statuses"])
    /\ FitsColumns(Tickets["feedback_attributions"], FeedbackModels["feedback_attributions"])
    /\ FitsColumns(Tickets["feedback_tickets"], FeedbackModels["feedback_tickets"])
<1>1. FitsColumns(Records["audit_logs"], RecordModels["audit_logs"])
  BY DEF Records, RecordModels, FitsColumns, Table, Model
<1>2. FitsColumns(Records["evaluation_results"], RecordModels["evaluation_results"])
  BY DEF Records, RecordModels, FitsColumns, Table, Model
<1>3. FitsColumns(SensitiveValues["sensitive_values"], RecordModels["sensitive_values"])
  BY DEF SensitiveValues, RecordModels, FitsColumns, Table, Model
<1>4. FitsColumns(TicketStatuses["ticket_statuses"], FeedbackModels["ticket_statuses"])
  BY DEF TicketStatuses, FeedbackModels, FitsColumns, Table, Model
<1>5. FitsColumns(Tickets["feedback_attributions"], FeedbackModels["feedback_attributions"])
  BY DEF Tickets, FeedbackModels, FitsColumns, Table, Model
<1>6. FitsColumns(Tickets["feedback_tickets"], FeedbackModels["feedback_tickets"])
  BY DEF Tickets, FeedbackModels, FitsColumns, Table, Model
<1>7. QED
  BY <1>1, <1>2, <1>3, <1>4, <1>5, <1>6

\* The tables that a migration has widened.
LEMMA WideTables ==
    /\ UsersAt(17) = Overlay(Table({}, {}, {"display_name", "avatar_url"}),
                             Overlay(Table({}, {}, {"deleted_at"}), Identity["users"]))
    /\ RolesAt(17) = Overlay(Table({}, {"workspace_scoped"}, {}), Identity["roles"])
    /\ AlertsAt(17) = Overlay(Table({}, DriftColumns, {}), Records["drift_alerts"])
    /\ CategoriesAt(17) = Overlay(Table({"name_zh", "is_system"}, {}, {"description"}),
                                  Feedbacks["feedback_categories"])
    /\ ChunksAt(17) = Overlay(Table({"workspace_id"}, {}, {}), Corpus["chunks"])
    /\ FeedbacksAt(17) = Overlay(Table({}, {}, {"comment"}),
          Restrict1(Overlay(Table({"workspace_id"}, {"rating", "attribution_status"}, {"ragas_scores"}),
                            Feedbacks["feedbacks"]), {"score"}))
<1>1. /\ Tables1["users"] = Identity["users"] /\ Tables1["roles"] = Identity["roles"]
      /\ Tables1["drift_alerts"] = Records["drift_alerts"]
      /\ Tables1["feedback_categories"] = Feedbacks["feedback_categories"]
      /\ Tables1["chunks"] = Corpus["chunks"] /\ Tables1["feedbacks"] = Feedbacks["feedbacks"]
  BY Sections1
<1>2. /\ Added(2).columns = Table({}, DriftColumns, {})
      /\ Added(4).columns = Table({}, {"workspace_scoped"}, {})
      /\ Added(6).columns = Table({}, {}, {"deleted_at"})
      /\ Added(7).columns = Table({}, {}, {"display_name", "avatar_url"})
      /\ Added(10).columns = Table({"name_zh", "is_system"}, {}, {"description"})
      /\ Added(13).columns = Table({"workspace_id"}, {}, {})
      /\ Added(14).columns = Table({"workspace_id"}, {"rating", "attribution_status"}, {"ragas_scores"})
      /\ Added(15).columns = Table({}, {}, {"comment"})
  BY DEF Added
<1>3. UsersAt(17) = Wider(Wider(Identity["users"], 6), 7)
  BY <1>1 DEF UsersAt
<1>4. /\ RolesAt(17) = Wider(Identity["roles"], 4) /\ AlertsAt(17) = Wider(Records["drift_alerts"], 2)
      /\ CategoriesAt(17) = Wider(Feedbacks["feedback_categories"], 10)
      /\ ChunksAt(17) = Wider(Corpus["chunks"], 13)
  BY <1>1 DEF RolesAt, AlertsAt, CategoriesAt, ChunksAt
<1>5. FeedbacksAt(17) = Wider(Restrict1(Wider(Feedbacks["feedbacks"], 14), {"score"}), 15)
  BY <1>1 DEF FeedbacksAt, Rated
<1>6. QED
  BY <1>2, <1>3, <1>4, <1>5 DEF Wider

LEMMA WideFits ==
    /\ FitsColumns(UsersAt(17), IdentityModels["users"])
    /\ FitsColumns(RolesAt(17), RoleModels["roles"])
    /\ FitsColumns(AlertsAt(17), RecordModels["drift_alerts"])
    /\ FitsColumns(CategoriesAt(17), FeedbackModels["feedback_categories"])
    /\ FitsColumns(ChunksAt(17), CorpusModels["chunks"])
    /\ FitsColumns(FeedbacksAt(17), FeedbackModels["feedbacks"])
<1>1. FitsColumns(UsersAt(17), IdentityModels["users"])
  BY WideTables DEF Identity, IdentityModels, FitsColumns, Table, Model, Overlay
<1>2. FitsColumns(RolesAt(17), RoleModels["roles"])
  BY WideTables DEF Identity, RoleModels, FitsColumns, Table, Model, Overlay
<1>3. FitsColumns(AlertsAt(17), RecordModels["drift_alerts"])
  BY WideTables DEF Records, RecordModels, FitsColumns, Table, Model, Overlay, DriftColumns
<1>4. FitsColumns(CategoriesAt(17), FeedbackModels["feedback_categories"])
  BY WideTables DEF Feedbacks, FeedbackModels, FitsColumns, Table, Model, Overlay
<1>5. FitsColumns(ChunksAt(17), CorpusModels["chunks"])
  BY WideTables DEF Corpus, CorpusModels, FitsColumns, Table, Model, Overlay
<1>6. FitsColumns(FeedbacksAt(17), FeedbackModels["feedbacks"])
  <2>1. PICK old, new, wide, rated, comment :
            /\ old = Feedbacks["feedbacks"]
            /\ new = Table({"workspace_id"}, {"rating", "attribution_status"}, {"ragas_scores"})
            /\ wide = Overlay(new, old) /\ rated = Restrict1(wide, {"score"})
            /\ comment = Table({}, {}, {"comment"})
    OBVIOUS
  <2>2. /\ DOMAIN old = {"id", "message_id", "user_id", "score", "auto_categorized", "comment",
                         "created_at", "reason_tag_id", "category_id"}
        /\ \A c \in DOMAIN old : old[c] = "required" => c \in {"id", "message_id", "user_id", "score"}
    BY <2>1 DEF Feedbacks, Table
  <2>3. /\ DOMAIN new = {"workspace_id", "rating", "attribution_status", "ragas_scores"}
        /\ \A c \in DOMAIN new : new[c] = "required" => c = "workspace_id"
        /\ new["ragas_scores"] = "nullable"
    BY <2>1 DEF Table
  <2>4. /\ DOMAIN rated = (DOMAIN new \cup DOMAIN old) \ {"score"}
        /\ \A c \in DOMAIN rated : rated[c] = IF c \in DOMAIN new THEN new[c] ELSE old[c]
    BY <2>1 DEF Overlay, Restrict1
  <2>5. DOMAIN comment = {"comment"} /\ comment["comment"] = "nullable"
    BY <2>1 DEF Table
  <2>6. PICK table : table = FeedbacksAt(17)
    OBVIOUS
  <2>7. /\ DOMAIN table = {"comment"} \cup DOMAIN rated
        /\ table["comment"] = "nullable"
        /\ \A c \in DOMAIN rated \ {"comment"} : table[c] = rated[c]
    <3>1. table = Overlay(comment, rated)
      BY <2>1, <2>6, WideTables
    <3>2. QED
      BY <2>5, <3>1 DEF Overlay
  <2>8. /\ DOMAIN table = {"id", "message_id", "user_id", "auto_categorized", "comment", "created_at",
                           "reason_tag_id", "category_id", "workspace_id", "rating",
                           "attribution_status", "ragas_scores"}
        /\ table["comment"] = "nullable" /\ table["ragas_scores"] = "nullable"
    BY <2>2, <2>3, <2>4, <2>7
  <2>9. \A c \in DOMAIN table :
            table[c] = "required" => c \in {"id", "message_id", "user_id", "workspace_id"}
    BY <2>2, <2>3, <2>4, <2>7
  <2>10. PICK model : model = FeedbackModels["feedbacks"]
    OBVIOUS
  <2>11. /\ DOMAIN model = {"id", "message_id", "user_id", "workspace_id", "rating",
                            "attribution_status", "comment", "ragas_scores"}
         /\ \A c \in DOMAIN model : model[c] = "nullable" => c \in {"comment", "ragas_scores"}
    BY <2>10 DEF FeedbackModels, Model
  <2>12. FitsColumns(table, model)
    BY <2>8, <2>9, <2>11 DEF FitsColumns
  <2>13. QED
    BY <2>6, <2>10, <2>12
<1>7. QED
  BY <1>1, <1>2, <1>3, <1>4, <1>5, <1>6

\* Each model, by the section it is in.
LEMMA ModelSections ==
    /\ DOMAIN Models = (Names1 \ {"feedback_tags"})
                          \cup {"api_tokens", "password_reset_audit", "sensitive_values", "ticket_statuses",
                                "feedback_attributions", "feedback_tickets"}
    /\ \A t \in {"users", "workspaces", "api_tokens", "password_reset_audit"} : Models[t] = IdentityModels[t]
    /\ \A t \in {"roles", "permissions", "role_permissions", "user_roles"} : Models[t] = RoleModels[t]
    /\ \A t \in {"documents", "chunks", "acls"} : Models[t] = CorpusModels[t]
    /\ \A t \in {"conversations", "messages", "citations"} : Models[t] = ConversationModels[t]
    /\ \A t \in {"audit_logs", "evaluation_results", "drift_alerts", "sensitive_values"} :
          Models[t] = RecordModels[t]
    /\ \A t \in {"feedback_categories", "ticket_statuses", "feedbacks", "feedback_attributions",
                 "feedback_tickets"} : Models[t] = FeedbackModels[t]
<1>1. /\ DOMAIN IdentityModels = {"users", "workspaces", "api_tokens", "password_reset_audit"}
      /\ DOMAIN RoleModels = {"roles", "permissions", "role_permissions", "user_roles"}
      /\ DOMAIN CorpusModels = {"documents", "chunks", "acls"}
      /\ DOMAIN ConversationModels = {"conversations", "messages", "citations"}
      /\ DOMAIN RecordModels = {"audit_logs", "evaluation_results", "drift_alerts", "sensitive_values"}
      /\ DOMAIN FeedbackModels = {"feedback_categories", "ticket_statuses", "feedbacks",
                                  "feedback_attributions", "feedback_tickets"}
  BY DEF IdentityModels, RoleModels, CorpusModels, ConversationModels, RecordModels, FeedbackModels
<1>2. PICK a, b, c, e : /\ a = Overlay(RoleModels, CorpusModels) /\ c = Overlay(IdentityModels, a)
                        /\ b = Overlay(RecordModels, FeedbackModels) /\ e = Overlay(ConversationModels, b)
  OBVIOUS
<1>3. /\ DOMAIN a = DOMAIN RoleModels \cup DOMAIN CorpusModels
      /\ \A t \in DOMAIN a : a[t] = IF t \in DOMAIN RoleModels THEN RoleModels[t] ELSE CorpusModels[t]
  BY <1>2 DEF Overlay
<1>4. /\ DOMAIN c = DOMAIN IdentityModels \cup DOMAIN a
      /\ \A t \in DOMAIN c : c[t] = IF t \in DOMAIN IdentityModels THEN IdentityModels[t] ELSE a[t]
  BY <1>2 DEF Overlay
<1>5. /\ DOMAIN b = DOMAIN RecordModels \cup DOMAIN FeedbackModels
      /\ \A t \in DOMAIN b : b[t] = IF t \in DOMAIN RecordModels THEN RecordModels[t] ELSE FeedbackModels[t]
  BY <1>2 DEF Overlay
<1>6. /\ DOMAIN e = DOMAIN ConversationModels \cup DOMAIN b
      /\ \A t \in DOMAIN e : e[t] = IF t \in DOMAIN ConversationModels THEN ConversationModels[t] ELSE b[t]
  BY <1>2 DEF Overlay
<1>7. /\ DOMAIN Models = DOMAIN c \cup DOMAIN e
      /\ \A t \in DOMAIN Models : Models[t] = IF t \in DOMAIN c THEN c[t] ELSE e[t]
  BY <1>2 DEF Overlay, Models
<1>8. \A t \in DOMAIN IdentityModels : Models[t] = IdentityModels[t]
  BY <1>1, <1>4, <1>7
<1>9. \A t \in DOMAIN RoleModels : Models[t] = RoleModels[t]
  BY <1>1, <1>3, <1>4, <1>7
<1>10. \A t \in DOMAIN CorpusModels : Models[t] = CorpusModels[t]
  BY <1>1, <1>3, <1>4, <1>7
<1>11. \A t \in DOMAIN ConversationModels : Models[t] = ConversationModels[t]
  <2>1. \A t \in DOMAIN ConversationModels : t \in DOMAIN e /\ t \notin DOMAIN c
    BY <1>1, <1>3, <1>4, <1>6
  <2>2. QED
    BY <2>1, <1>6, <1>7
<1>12. \A t \in DOMAIN RecordModels : Models[t] = RecordModels[t]
  <2>1. \A t \in DOMAIN RecordModels : t \in DOMAIN e /\ t \notin DOMAIN c /\ t \notin DOMAIN ConversationModels
    BY <1>1, <1>3, <1>4, <1>5, <1>6
  <2>2. QED
    BY <2>1, <1>5, <1>6, <1>7
<1>13. \A t \in DOMAIN FeedbackModels : Models[t] = FeedbackModels[t]
  <2>1. \A t \in DOMAIN FeedbackModels :
            t \in DOMAIN e /\ t \notin DOMAIN c /\ t \notin DOMAIN ConversationModels /\ t \notin DOMAIN RecordModels
    BY <1>1, <1>3, <1>4, <1>5, <1>6
  <2>2. QED
    BY <2>1, <1>5, <1>6, <1>7
<1>14. DOMAIN Models = (Names1 \ {"feedback_tags"})
                          \cup {"api_tokens", "password_reset_audit", "sensitive_values", "ticket_statuses",
                                "feedback_attributions", "feedback_tickets"}
  <2>1. DOMAIN Models = DOMAIN IdentityModels \cup DOMAIN RoleModels \cup DOMAIN CorpusModels
                          \cup DOMAIN ConversationModels \cup DOMAIN RecordModels \cup DOMAIN FeedbackModels
    BY <1>3, <1>4, <1>5, <1>6, <1>7
  <2>2. QED
    BY <1>1, <2>1 DEF Names1
<1>15. QED
  BY <1>1, <1>8, <1>9, <1>10, <1>11, <1>12, <1>13, <1>14

LEMMA ModelsFit ==
    ASSUME NEW t \in DOMAIN Models
    PROVE  t \in NamesAt(17) /\ FitsColumns(TableAt(17, t), Models[t])
<1>1. t \in NamesAt(17)
  BY ModelSections DEF NamesAt
<1>2. CASE t \in {"users", "roles", "drift_alerts"}
  <2>1. /\ TableAt(17, "users") = UsersAt(17) /\ TableAt(17, "roles") = RolesAt(17)
        /\ TableAt(17, "drift_alerts") = AlertsAt(17)
    BY DEF TableAt
  <2>2. /\ Models["users"] = IdentityModels["users"] /\ Models["roles"] = RoleModels["roles"]
        /\ Models["drift_alerts"] = RecordModels["drift_alerts"]
    BY ModelSections
  <2>3. QED
    BY <1>1, <1>2, <2>1, <2>2, WideFits
<1>3. CASE t \in {"feedback_categories", "chunks", "feedbacks"}
  <2>1. /\ TableAt(17, "feedback_categories") = CategoriesAt(17)
        /\ TableAt(17, "chunks") = ChunksAt(17) /\ TableAt(17, "feedbacks") = FeedbacksAt(17)
    BY DEF TableAt
  <2>2. /\ Models["feedback_categories"] = FeedbackModels["feedback_categories"]
        /\ Models["chunks"] = CorpusModels["chunks"] /\ Models["feedbacks"] = FeedbackModels["feedbacks"]
    BY ModelSections
  <2>3. QED
    BY <1>1, <1>3, <2>1, <2>2, WideFits
<1>4. CASE t \in {"workspaces", "permissions", "role_permissions", "user_roles"}
  <2>1. TableAt(17, t) = Tables1[t]
    BY <1>4 DEF TableAt
  <2>2. /\ Tables1["workspaces"] = Identity["workspaces"] /\ Tables1["permissions"] = Identity["permissions"]
        /\ Tables1["role_permissions"] = Memberships["role_permissions"]
        /\ Tables1["user_roles"] = Memberships["user_roles"]
    BY Sections1
  <2>3. /\ Models["workspaces"] = IdentityModels["workspaces"] /\ Models["permissions"] = RoleModels["permissions"]
        /\ Models["role_permissions"] = RoleModels["role_permissions"]
        /\ Models["user_roles"] = RoleModels["user_roles"]
    BY ModelSections
  <2>4. QED
    BY <1>1, <1>4, <2>1, <2>2, <2>3, IdentityFits
<1>5. CASE t \in {"api_tokens", "password_reset_audit"}
  <2>1. /\ TableAt(17, "api_tokens") = ApiTokens["api_tokens"]
        /\ TableAt(17, "password_reset_audit") = PasswordResets["password_reset_audit"]
    BY DEF TableAt
  <2>2. /\ Models["api_tokens"] = IdentityModels["api_tokens"]
        /\ Models["password_reset_audit"] = IdentityModels["password_reset_audit"]
    BY ModelSections
  <2>3. QED
    BY <1>1, <1>5, <2>1, <2>2, IdentityFits
<1>6. CASE t \in {"documents", "acls", "conversations", "messages", "citations"}
  <2>1. TableAt(17, t) = Tables1[t]
    BY <1>6 DEF TableAt
  <2>2. /\ Tables1["documents"] = Corpus["documents"] /\ Tables1["acls"] = Corpus["acls"]
        /\ Tables1["conversations"] = Conversations["conversations"]
        /\ Tables1["messages"] = Conversations["messages"]
        /\ Tables1["citations"] = Conversations["citations"]
    BY Sections1
  <2>3. /\ Models["documents"] = CorpusModels["documents"] /\ Models["acls"] = CorpusModels["acls"]
        /\ Models["conversations"] = ConversationModels["conversations"]
        /\ Models["messages"] = ConversationModels["messages"]
        /\ Models["citations"] = ConversationModels["citations"]
    BY ModelSections
  <2>4. QED
    BY <1>1, <1>6, <2>1, <2>2, <2>3, CorpusFits
<1>7. CASE t \in {"audit_logs", "evaluation_results"}
  <2>1. TableAt(17, t) = Tables1[t]
    BY <1>7 DEF TableAt
  <2>2. /\ Tables1["audit_logs"] = Records["audit_logs"]
        /\ Tables1["evaluation_results"] = Records["evaluation_results"]
    BY Sections1
  <2>3. /\ Models["audit_logs"] = RecordModels["audit_logs"]
        /\ Models["evaluation_results"] = RecordModels["evaluation_results"]
    BY ModelSections
  <2>4. QED
    BY <1>1, <1>7, <2>1, <2>2, <2>3, RecordFits
<1>8. CASE t \in {"sensitive_values", "ticket_statuses", "feedback_attributions", "feedback_tickets"}
  <2>1. /\ TableAt(17, "sensitive_values") = SensitiveValues["sensitive_values"]
        /\ TableAt(17, "ticket_statuses") = TicketStatuses["ticket_statuses"]
        /\ TableAt(17, "feedback_attributions") = Tickets["feedback_attributions"]
        /\ TableAt(17, "feedback_tickets") = Tickets["feedback_tickets"]
    BY DEF TableAt
  <2>2. /\ Models["sensitive_values"] = RecordModels["sensitive_values"]
        /\ Models["ticket_statuses"] = FeedbackModels["ticket_statuses"]
        /\ Models["feedback_attributions"] = FeedbackModels["feedback_attributions"]
        /\ Models["feedback_tickets"] = FeedbackModels["feedback_tickets"]
    BY ModelSections
  <2>3. QED
    BY <1>1, <1>8, <2>1, <2>2, RecordFits
<1>9. QED
  BY <1>2, <1>3, <1>4, <1>5, <1>6, <1>7, <1>8, ModelSections DEF Names1

LEMMA AsSchemaFits == AsSchema => HeadFitsModels
<1>1. SUFFICES ASSUME AsSchema, revision = HeadRev, NEW t \in DOMAIN Models PROVE Fits(database.tables, t)
  BY DEF HeadFitsModels
<1>2. PICK f, g : f = database.tables /\ g = Schemas[17].tables
  OBVIOUS
<1>3. SameTables(f, g) /\ AreAt(g, 17)
  BY <1>1, <1>2, TablesOfRevisions DEF AsSchema, SameSchema, HeadRev
<1>4. /\ t \in NamesAt(17) /\ FitsColumns(TableAt(17, t), Models[t])
  BY <1>1, ModelsFit
<1>5. PICK a, b, model : a = f[t] /\ b = TableAt(17, t) /\ model = Models[t]
  OBVIOUS
<1>6. t \in DOMAIN f /\ DOMAIN a = DOMAIN b
      /\ \A c \in DOMAIN a : a[c] = b[c] \/ (t = "feedbacks" /\ c = "score")
  BY <1>3, <1>4, <1>5 DEF SameTables, AreAt
<1>7. ~(t = "feedbacks" /\ "score" \in DOMAIN b)
  <2>1. t = "feedbacks" => b = FeedbacksAt(17)
    BY <1>5 DEF TableAt
  <2>2. DOMAIN FeedbacksAt(17) = (DOMAIN Tables1["feedbacks"] \ {"score"})
                    \cup {"workspace_id", "rating", "attribution_status", "ragas_scores"}
    BY ColumnsAt
  <2>3. QED
    BY <2>1, <2>2
<1>8. FitsColumns(b, model)
  BY <1>4, <1>5
<1>9. FitsColumns(a, model)
  BY <1>6, <1>7, <1>8 DEF FitsColumns
<1>10. QED
  BY <1>2, <1>5, <1>6, <1>9 DEF Fits, FitsColumns

-----------------------------------------------------------------------------
(* The rows                                                                *)

Columns(n, t) == DOMAIN TableAt(n, t)

\* Every row is of a table of the revision, and has columns of it.
RowsPlaced(rows, n) ==
    \A r \in rows : /\ DOMAIN r = {"table", "id", "vals"}
                    /\ r.table \in NamesAt(n) /\ DOMAIN r.vals \subseteq Columns(n, r.table)

RowsUnique(rows) == \A p \in rows, q \in rows : p.table = q.table /\ p.id = q.id => p = q

\* No migration changes these; chunks and feedbacks keep what they belong to.
RowsOwned(rows) ==
    \A r \in rows :
        /\ r.table \in {"documents", "conversations", "messages"} => r \in Given
        /\ r.table = "chunks" => "document_id" \in DOMAIN r.vals /\ r.vals.document_id # "NULL"
        /\ r.table = "feedbacks" => "message_id" \in DOMAIN r.vals /\ r.vals.message_id # "NULL"

RowsReferred(rows) ==
    \A r \in rows, k \in KeysAt(17) :
        k.table = r.table /\ k.column \in DOMAIN r.vals /\ r.vals[k.column] # "NULL" =>
            \E p \in rows : Refers(k, r, p)

ChunksAgree(rows) ==
    \A r \in rows, p \in rows :
        /\ r.table = "chunks" /\ "workspace_id" \in DOMAIN r.vals
        /\ p.table = "documents" /\ p.id = r.vals.document_id
        => r.vals.workspace_id = p.vals.workspace_id

FeedbacksAgree(rows) ==
    \A r \in rows, m \in rows, c \in rows :
        /\ r.table = "feedbacks" /\ "workspace_id" \in DOMAIN r.vals
        /\ m.table = "messages" /\ m.id = r.vals.message_id
        /\ c.table = "conversations" /\ c.id = m.vals.conversation_id
        => r.vals.workspace_id = c.vals.workspace_id

RowsHold(rows, n) ==
    /\ IsFiniteSet(rows) /\ RowsPlaced(rows, n) /\ RowsUnique(rows) /\ RowsOwned(rows)
    /\ RowsReferred(rows) /\ ChunksAgree(rows) /\ FeedbacksAgree(rows)
    /\ n = 0 => rows = {}

\* Rows that are the images of some of the rows before: what there is to show of them.
ImagesPlaced(some, g, m) ==
    \A r \in some : /\ DOMAIN g[r] = {"table", "id", "vals"} /\ g[r].table = r.table /\ g[r].id = r.id
                    /\ r.table \in NamesAt(m) /\ DOMAIN g[r].vals \subseteq Columns(m, r.table)

ImagesOwned(some, g) ==
    \A r \in some :
        /\ r.table \in {"documents", "conversations", "messages"} => g[r] = r
        /\ r.table = "chunks" => "document_id" \in DOMAIN g[r].vals /\ g[r].vals.document_id = r.vals.document_id
        /\ r.table = "feedbacks" => "message_id" \in DOMAIN g[r].vals /\ g[r].vals.message_id = r.vals.message_id

ImagesReferred(some, g) ==
    \A r \in some, k \in KeysAt(17) :
        k.table = r.table /\ k.column \in DOMAIN g[r].vals /\ g[r].vals[k.column] # "NULL" =>
            \E p \in some : p.table = k.target /\ p.id = g[r].vals[k.column]

ImagesAgree(some, g) ==
    /\ \A r \in some, p \in some :
          /\ r.table = "chunks" /\ "workspace_id" \in DOMAIN g[r].vals
          /\ p.table = "documents" /\ p.id = r.vals.document_id
          => g[r].vals.workspace_id = p.vals.workspace_id
    /\ \A r \in some, m \in some, c \in some :
          /\ r.table = "feedbacks" /\ "workspace_id" \in DOMAIN g[r].vals
          /\ m.table = "messages" /\ m.id = r.vals.message_id
          /\ c.table = "conversations" /\ c.id = m.vals.conversation_id
          => g[r].vals.workspace_id = c.vals.workspace_id

LEMMA ImagesHold ==
    ASSUME NEW rows, NEW n \in 1 .. 17, RowsHold(rows, n), NEW some \in SUBSET rows, NEW g, NEW m \in 1 .. 17,
           ImagesPlaced(some, g, m), ImagesOwned(some, g), ImagesReferred(some, g), ImagesAgree(some, g),
           NEW after, after = {g[r] : r \in some}
    PROVE  RowsHold(after, m)
<1>1. /\ IsFiniteSet(rows) /\ RowsUnique(rows) /\ RowsOwned(rows)
  BY DEF RowsHold
<1>2. IsFiniteSet(after)
  <2>1. IsFiniteSet(some)
    BY <1>1, FS_Subset
  <2> DEFINE f == [r \in some |-> g[r]]
  <2>2. f \in Surjection(some, after)
    BY DEF Surjection
  <2> HIDE DEF f
  <2>3. QED
    BY <2>1, <2>2, FS_Surjection
<1>3. RowsPlaced(after, m)
  <2>1. ASSUME NEW q \in after
        PROVE  /\ DOMAIN q = {"table", "id", "vals"}
               /\ q.table \in NamesAt(m) /\ DOMAIN q.vals \subseteq Columns(m, q.table)
    <3>1. PICK r \in some : q = g[r]
      OBVIOUS
    <3>2. /\ DOMAIN g[r] = {"table", "id", "vals"} /\ g[r].table = r.table
          /\ r.table \in NamesAt(m) /\ DOMAIN g[r].vals \subseteq Columns(m, r.table)
      BY DEF ImagesPlaced
    <3>3. QED
      BY <3>1, <3>2
  <2>2. QED
    BY <2>1 DEF RowsPlaced
<1>4. RowsUnique(after)
  <2>1. ASSUME NEW p \in after, NEW q \in after, p.table = q.table, p.id = q.id PROVE p = q
    <3>1. PICK r \in some : p = g[r]
      OBVIOUS
    <3>2. PICK s \in some : q = g[s]
      OBVIOUS
    <3>3. r.table = s.table /\ r.id = s.id
      BY <2>1, <3>1, <3>2 DEF ImagesPlaced
    <3>4. r = s
      BY <1>1, <3>3 DEF RowsUnique
    <3>5. QED
      BY <3>1, <3>2, <3>4
  <2>2. QED
    BY <2>1 DEF RowsUnique
<1>5. RowsOwned(after)
  <2>1. ASSUME NEW p \in after
        PROVE  /\ p.table \in {"documents", "conversations", "messages"} => p \in Given
               /\ p.table = "chunks" => "document_id" \in DOMAIN p.vals /\ p.vals.document_id # "NULL"
               /\ p.table = "feedbacks" => "message_id" \in DOMAIN p.vals /\ p.vals.message_id # "NULL"
    <3>1. PICK r \in some : p = g[r]
      OBVIOUS
    <3>2. p.table = r.table
      BY <3>1 DEF ImagesPlaced
    <3>3. r \in rows
      OBVIOUS
    <3>4. QED
      BY <1>1, <3>1, <3>2, <3>3 DEF RowsOwned, ImagesOwned
  <2>2. QED
    BY <2>1 DEF RowsOwned
<1>6. RowsReferred(after)
  <2>1. ASSUME NEW q \in after, NEW k \in KeysAt(17), k.table = q.table, k.column \in DOMAIN q.vals,
               q.vals[k.column] # "NULL"
        PROVE  \E p \in after : Refers(k, q, p)
    <3>1. PICK r \in some : q = g[r]
      OBVIOUS
    <3>2. k.table = r.table
      BY <2>1, <3>1 DEF ImagesPlaced
    <3>3. PICK p \in some : p.table = k.target /\ p.id = g[r].vals[k.column]
      BY <2>1, <3>1, <3>2 DEF ImagesReferred
    <3>4. g[p] \in after /\ g[p].table = p.table /\ g[p].id = p.id
      BY DEF ImagesPlaced
    <3>5. QED
      BY <3>1, <3>3, <3>4 DEF Refers
  <2>2. QED
    BY <2>1 DEF RowsReferred
<1>7. ASSUME NEW p \in after, p.table \in {"documents", "conversations", "messages"} PROVE p \in some
  <2>1. PICK r \in some : p = g[r]
    OBVIOUS
  <2>2. p.table = r.table
    BY <2>1 DEF ImagesPlaced
  <2>3. QED
    BY <1>7, <2>1, <2>2 DEF ImagesOwned
<1>8. ChunksAgree(after)
  <2>1. ASSUME NEW q \in after, NEW p \in after, q.table = "chunks", "workspace_id" \in DOMAIN q.vals,
               p.table = "documents", p.id = q.vals.document_id
        PROVE  q.vals.workspace_id = p.vals.workspace_id
    <3>1. PICK r \in some : q = g[r]
      OBVIOUS
    <3>2. r.table = "chunks"
      BY <2>1, <3>1 DEF ImagesPlaced
    <3>3. q.vals.document_id = r.vals.document_id
      BY <3>1, <3>2 DEF ImagesOwned
    <3>4. p \in some
      BY <1>7, <2>1
    <3>5. QED
      BY <2>1, <3>1, <3>2, <3>3, <3>4 DEF ImagesAgree
  <2>2. QED
    BY <2>1 DEF ChunksAgree
<1>9. FeedbacksAgree(after)
  <2>1. ASSUME NEW q \in after, NEW x \in after, NEW c \in after,
               q.table = "feedbacks", "workspace_id" \in DOMAIN q.vals,
               x.table = "messages", x.id = q.vals.message_id,
               c.table = "conversations", c.id = x.vals.conversation_id
        PROVE  q.vals.workspace_id = c.vals.workspace_id
    <3>1. PICK r \in some : q = g[r]
      OBVIOUS
    <3>2. r.table = "feedbacks"
      BY <2>1, <3>1 DEF ImagesPlaced
    <3>3. q.vals.message_id = r.vals.message_id
      BY <3>1, <3>2 DEF ImagesOwned
    <3>4. x \in some /\ c \in some
      BY <1>7, <2>1
    <3>5. QED
      BY <2>1, <3>1, <3>2, <3>3, <3>4 DEF ImagesAgree
  <2>2. QED
    BY <2>1 DEF FeedbacksAgree
<1>10. QED
  BY <1>2, <1>3, <1>4, <1>5, <1>6, <1>8, <1>9 DEF RowsHold

\* No migration but 0014 takes a column or a table away.
LEMMA TablesStay ==
    ASSUME NEW n \in 1 .. 17, NEW m \in 1 .. 17, m <= n
    PROVE  /\ NamesAt(m) \subseteq NamesAt(n)
           /\ \A t \in NamesAt(m) : Columns(m, t) \subseteq Columns(n, t) \cup {"score"}
<1>1. NamesAt(m) \subseteq NamesAt(n)
  BY DEF NamesAt
<1>2. ASSUME NEW t \in NamesAt(m) PROVE Columns(m, t) \subseteq Columns(n, t) \cup {"score"}
  <2>1. CASE t = "users"
    <3>1. TableAt(n, t) = UsersAt(n) /\ TableAt(m, t) = UsersAt(m)
      BY <2>1 DEF TableAt
    <3>2. QED
      BY <3>1, ColumnsAt DEF Columns
  <2>2. CASE t = "roles"
    <3>1. TableAt(n, t) = RolesAt(n) /\ TableAt(m, t) = RolesAt(m)
      BY <2>2 DEF TableAt
    <3>2. QED
      BY <3>1, ColumnsAt DEF Columns
  <2>3. CASE t = "drift_alerts"
    <3>1. TableAt(n, t) = AlertsAt(n) /\ TableAt(m, t) = AlertsAt(m)
      BY <2>3 DEF TableAt
    <3>2. QED
      BY <3>1, ColumnsAt DEF Columns
  <2>4. CASE t = "feedback_categories"
    <3>1. TableAt(n, t) = CategoriesAt(n) /\ TableAt(m, t) = CategoriesAt(m)
      BY <2>4 DEF TableAt
    <3>2. QED
      BY <3>1, ColumnsAt DEF Columns
  <2>5. CASE t = "chunks"
    <3>1. TableAt(n, t) = ChunksAt(n) /\ TableAt(m, t) = ChunksAt(m)
      BY <2>5 DEF TableAt
    <3>2. QED
      BY <3>1, ColumnsAt DEF Columns
  <2>6. CASE t = "feedbacks"
    <3>1. TableAt(n, t) = FeedbacksAt(n) /\ TableAt(m, t) = FeedbacksAt(m)
      BY <2>6 DEF TableAt
    <3>2. \A x \in 1 .. 17 : DOMAIN FeedbacksAt(x) =
              IF x < 14 THEN DOMAIN Tables1["feedbacks"]
              ELSE (DOMAIN Tables1["feedbacks"] \ {"score"})
                      \cup {"workspace_id", "rating", "attribution_status", "ragas_scores"}
      BY ColumnsAt
    <3>3. QED
      BY <3>1, <3>2 DEF Columns
  <2>7. CASE t \notin {"users", "roles", "drift_alerts", "feedback_categories", "chunks", "feedbacks"}
    <3>1. TableAt(n, t) = TableAt(m, t)
      BY <2>7 DEF TableAt
    <3>2. QED
      BY <3>1 DEF Columns
  <2>8. QED
    BY <2>1, <2>2, <2>3, <2>4, <2>5, <2>6, <2>7
<1>3. QED
  BY <1>1, <1>2

LEMMA NoScore ==
    ASSUME NEW n \in 1 .. 17, NEW t \in {"users", "roles", "drift_alerts", "feedback_categories", "chunks"}
    PROVE  "score" \notin Columns(n, t)
<1>1. "score" \notin DOMAIN UsersAt(n)
  <2>1. DOMAIN UsersAt(n) = DOMAIN Tables1["users"]
            \cup (IF n < 6 THEN {} ELSE {"deleted_at"})
            \cup (IF n < 7 THEN {} ELSE {"display_name", "avatar_url"})
    BY ColumnsAt
  <2>2. "score" \notin DOMAIN Tables1["users"]
    BY Columns1
  <2>3. QED
    BY <2>1, <2>2
<1>5. "score" \notin DOMAIN RolesAt(n)
  <2>1. DOMAIN RolesAt(n) = DOMAIN Tables1["roles"]
            \cup (IF n < 4 THEN {} ELSE {"workspace_scoped"})
    BY ColumnsAt
  <2>2. "score" \notin DOMAIN Tables1["roles"]
    BY Columns1
  <2>3. QED
    BY <2>1, <2>2
<1>6. "score" \notin DOMAIN AlertsAt(n)
  <2>1. DOMAIN AlertsAt(n) = DOMAIN Tables1["drift_alerts"]
            \cup (IF n < 2 THEN {} ELSE DriftColumns)
    BY ColumnsAt
  <2>2. "score" \notin DOMAIN Tables1["drift_alerts"]
    BY Columns1
  <2>3. QED
    BY <2>1, <2>2 DEF DriftColumns
<1>2. "score" \notin DOMAIN CategoriesAt(n)
  <2>1. DOMAIN CategoriesAt(n) = DOMAIN Tables1["feedback_categories"]
            \cup (IF n < 10 THEN {} ELSE {"name_zh", "is_system", "description"})
    BY ColumnsAt
  <2>2. "score" \notin DOMAIN Tables1["feedback_categories"]
    BY Columns1
  <2>3. QED
    BY <2>1, <2>2
<1>7. "score" \notin DOMAIN ChunksAt(n)
  <2>1. DOMAIN ChunksAt(n) = DOMAIN Tables1["chunks"]
            \cup (IF n < 13 THEN {} ELSE {"workspace_id"})
    BY ColumnsAt
  <2>2. "score" \notin DOMAIN Tables1["chunks"]
    BY Columns1
  <2>3. QED
    BY <2>1, <2>2
<1>3. /\ TableAt(n, "users") = UsersAt(n) /\ TableAt(n, "roles") = RolesAt(n)
      /\ TableAt(n, "drift_alerts") = AlertsAt(n) /\ TableAt(n, "chunks") = ChunksAt(n)
      /\ TableAt(n, "feedback_categories") = CategoriesAt(n)
  BY DEF TableAt
<1>4. QED
  BY <1>1, <1>2, <1>3, <1>5, <1>6, <1>7 DEF Columns

\* Of the columns of a table only score of feedbacks ever goes.
LEMMA ColumnsStay ==
    ASSUME NEW n \in 1 .. 17, NEW m \in 1 .. 17, n <= m, NEW t \in NamesAt(n),
           t # "feedbacks" \/ ~(n < 14 /\ m >= 14)
    PROVE  t \in NamesAt(m) /\ Columns(n, t) \subseteq Columns(m, t)
<1>1. t \in NamesAt(m) /\ Columns(n, t) \subseteq Columns(m, t) \cup {"score"}
  BY TablesStay
<1>2. ASSUME "score" \in Columns(n, t) PROVE "score" \in Columns(m, t)
  <2>1. CASE t = "feedbacks"
    <3>1. TableAt(n, t) = FeedbacksAt(n) /\ TableAt(m, t) = FeedbacksAt(m)
      BY <2>1 DEF TableAt
    <3>2. \A x \in 1 .. 17 : DOMAIN FeedbacksAt(x) =
              IF x < 14 THEN DOMAIN Tables1["feedbacks"]
              ELSE (DOMAIN Tables1["feedbacks"] \ {"score"})
                      \cup {"workspace_id", "rating", "attribution_status", "ragas_scores"}
      BY ColumnsAt
    <3>3. n < 14 /\ m < 14
      BY <1>2, <2>1, <3>1, <3>2 DEF Columns
    <3>4. QED
      BY <3>1, <3>2, <3>3, Columns1 DEF Columns
  <2>2. CASE t \in {"users", "roles", "drift_alerts", "feedback_categories", "chunks"}
    BY <1>2, <2>2, NoScore
  <2>3. CASE t \notin {"users", "roles", "drift_alerts", "feedback_categories", "chunks", "feedbacks"}
    <3>1. TableAt(n, t) = TableAt(m, t)
      BY <2>3 DEF TableAt
    <3>2. QED
      BY <1>2, <3>1 DEF Columns
  <2>4. QED
    BY <2>1, <2>2, <2>3
<1>3. QED
  BY <1>1, <1>2

LEMMA RowsStayUpwards ==
    ASSUME NEW rows, NEW n \in 1 .. 17, RowsHold(rows, n), NEW m \in 1 .. 17, n <= m, ~(n < 14 /\ m >= 14)
    PROVE  RowsHold(rows, m)
<1>1. \A t \in NamesAt(n) : t \in NamesAt(m) /\ Columns(n, t) \subseteq Columns(m, t)
  BY ColumnsStay
<1>2. QED
  BY <1>1 DEF RowsHold, RowsPlaced

\* What the keys of the last revision have in common that the rows depend on.
Ordinary(k) ==
    /\ k.onDelete \in {"CASCADE", "RESTRICT", "NO ACTION", "SET NULL"}
    /\ k.onDelete = "SET NULL" =>
          /\ k.table \notin {"documents", "conversations", "messages", "chunks"}
          /\ k.table = "feedbacks" => k.column \notin {"message_id", "workspace_id"}
    /\ k.table \in {"chunks", "feedbacks"} /\ k.column = "workspace_id" => k.target = "workspaces"
    /\ k.column # "rating"
    /\ k.target \notin {"sensitive_values", "api_tokens", "password_reset_audit",
                        "feedback_attributions", "feedback_tickets"}
    /\ k.target = "ticket_statuses" => k.table = "feedback_tickets"

LEMMA KeysAreOrdinary == ASSUME NEW k \in KeysAt(17) PROVE Ordinary(k)
<1>1. CASE k \in IdentityKeys
  BY <1>1, IdentityKeysAre DEF Is, Ordinary
<1>2. CASE k \in CorpusKeys
  BY <1>2, CorpusKeysAre DEF Is, Ordinary
<1>3. CASE k \in ConversationKeys
  BY <1>3, ConversationKeysAre DEF Is, Ordinary
<1>4. CASE k \in FeedbackKeys
  BY <1>4, FeedbackKeysAre DEF Is, Ordinary
<1>5. CASE k \in RecordKeys
  BY <1>5, RecordKeysAre DEF Is, Ordinary
<1>6. CASE k \in SensitiveValueKeys
  BY <1>6, SensitiveValueKeysAre DEF Is, Ordinary
<1>7. CASE k \in PasswordResetKeys
  BY <1>7, PasswordResetKeysAre DEF Is, Ordinary
<1>8. CASE k \in TicketKeys
  BY <1>8, TicketKeysAre DEF Is, Ordinary
<1>9. CASE k \in {TokenKey, ChunkKey, FeedbackKey}
  BY <1>9, SingleKeysAre DEF Is, Ordinary
<1>10. QED
  <2>1. \/ k \in Keys1 \/ k \in SensitiveValueKeys \/ k \in PasswordResetKeys \/ k \in TicketKeys
        \/ k \in {TokenKey, ChunkKey, FeedbackKey}
    BY DEF KeysAt
  <2>2. k \in Keys1 => \/ k \in IdentityKeys \/ k \in CorpusKeys \/ k \in ConversationKeys
                       \/ k \in FeedbackKeys \/ k \in RecordKeys
    BY DEF Keys1
  <2>3. QED
    BY <1>1, <1>2, <1>3, <1>4, <1>5, <1>6, <1>7, <1>8, <1>9, <2>1, <2>2

\* The keys along which a chunk and a feedback belong to a workspace.
LEMMA OwnerKeys ==
    /\ \E k \in KeysAt(17) : k.table = "documents" /\ k.column = "workspace_id" /\ k.target = "workspaces"
    /\ \E k \in KeysAt(17) : k.table = "chunks" /\ k.column = "document_id" /\ k.target = "documents"
    /\ \E k \in KeysAt(17) : k.table = "conversations" /\ k.column = "workspace_id" /\ k.target = "workspaces"
    /\ \E k \in KeysAt(17) : k.table = "messages" /\ k.column = "conversation_id"
                                /\ k.target = "conversations"
    /\ \E k \in KeysAt(17) : k.table = "feedbacks" /\ k.column = "message_id" /\ k.target = "messages"
<1>1. Keys1 \subseteq KeysAt(17)
  BY DEF KeysAt
<1>2. CorpusKeys \subseteq Keys1 /\ ConversationKeys \subseteq Keys1 /\ FeedbackKeys \subseteq Keys1
  BY DEF Keys1
<1>3. PICK a, b, c, d, e :
          /\ a = Key("documents", "workspace_id", "workspaces", "CASCADE")
          /\ b = Key("chunks", "document_id", "documents", "CASCADE")
          /\ c = Key("conversations", "workspace_id", "workspaces", "CASCADE")
          /\ d = Key("messages", "conversation_id", "conversations", "CASCADE")
          /\ e = Key("feedbacks", "message_id", "messages", "CASCADE")
  OBVIOUS
<1>4. a \in CorpusKeys /\ b \in CorpusKeys
  BY <1>3, Zenon DEF CorpusKeys
<1>5. c \in ConversationKeys /\ d \in ConversationKeys
  BY <1>3, Zenon DEF ConversationKeys
<1>6. e \in FeedbackKeys
  BY <1>3, Zenon DEF FeedbackKeys
<1>7. /\ Is(a, "documents", "workspace_id", "workspaces", "CASCADE")
      /\ Is(b, "chunks", "document_id", "documents", "CASCADE")
      /\ Is(c, "conversations", "workspace_id", "workspaces", "CASCADE")
      /\ Is(d, "messages", "conversation_id", "conversations", "CASCADE")
      /\ Is(e, "feedbacks", "message_id", "messages", "CASCADE")
  BY <1>3, KeyIs
<1>8. a \in KeysAt(17) /\ b \in KeysAt(17) /\ c \in KeysAt(17) /\ d \in KeysAt(17) /\ e \in KeysAt(17)
  BY <1>1, <1>2, <1>4, <1>5, <1>6
<1>9. QED
  BY <1>7, <1>8 DEF Is

\* What the rows the application writes belong to.
LEMMA GivenOwned ==
    /\ \A r \in Given :
          /\ DOMAIN r = {"table", "id", "vals"}
          /\ r.table \in {"documents", "conversations"} =>
                "workspace_id" \in DOMAIN r.vals /\ r.vals.workspace_id # "NULL"
          /\ r.table = "messages" => "conversation_id" \in DOMAIN r.vals /\ r.vals.conversation_id # "NULL"
          /\ r.table = "chunks" => "document_id" \in DOMAIN r.vals /\ r.vals.document_id # "NULL"
          /\ r.table = "feedbacks" => "message_id" \in DOMAIN r.vals /\ r.vals.message_id # "NULL"
<1>1. /\ DOMAIN Owners = {"documents", "chunks", "conversations", "messages", "feedbacks"}
      /\ "workspace_id" \in Owners["documents"] /\ "workspace_id" \in Owners["conversations"]
      /\ "document_id" \in Owners["chunks"] /\ "conversation_id" \in Owners["messages"]
      /\ "message_id" \in Owners["feedbacks"]
  BY DEF Owners
<1>2. \A r \in Given :
          /\ DOMAIN r = {"table", "id", "vals"}
          /\ r.table \in DOMAIN Owners =>
                \A c \in Owners[r.table] : c \in DOMAIN r.vals /\ r.vals[c] # "NULL"
  BY GivenAssumption
<1>3. QED
  BY <1>1, <1>2

OwnedBy(rows, p, w) == w \in rows /\ w.table = "workspaces" /\ w.id = p.vals.workspace_id

LEMMA DocumentOwned ==
    ASSUME NEW rows, RowsOwned(rows), RowsReferred(rows), NEW p \in rows,
           p.table \in {"documents", "conversations"}
    PROVE  "workspace_id" \in DOMAIN p.vals /\ \E w \in rows : OwnedBy(rows, p, w)
<1>1. p \in Given
  BY DEF RowsOwned
<1>2. "workspace_id" \in DOMAIN p.vals /\ p.vals.workspace_id # "NULL"
  BY <1>1, GivenOwned
<1>3. PICK k \in KeysAt(17) : k.table = p.table /\ k.column = "workspace_id" /\ k.target = "workspaces"
  BY OwnerKeys
<1>4. \E w \in rows : Refers(k, p, w)
  BY <1>2, <1>3 DEF RowsReferred
<1>5. QED
  BY <1>2, <1>3, <1>4 DEF Refers, OwnedBy

LEMMA ChunkOwned ==
    ASSUME NEW d, RowsUnique(d.rows), RowsOwned(d.rows), RowsReferred(d.rows),
           NEW r \in d.rows, r.table = "chunks", NEW p, p = Row(d, "documents", r.vals.document_id)
    PROVE  /\ p \in d.rows /\ p.table = "documents" /\ p.id = r.vals.document_id
           /\ \A q \in d.rows : q.table = "documents" /\ q.id = r.vals.document_id => q = p
<1>1. "document_id" \in DOMAIN r.vals /\ r.vals.document_id # "NULL"
  BY DEF RowsOwned
<1>2. PICK k \in KeysAt(17) : k.table = "chunks" /\ k.column = "document_id" /\ k.target = "documents"
  BY OwnerKeys
<1>3. \E q \in d.rows : Refers(k, r, q)
  BY <1>1, <1>2 DEF RowsReferred
<1>4. \E q \in d.rows : q.table = "documents" /\ q.id = r.vals.document_id
  BY <1>2, <1>3 DEF Refers
<1>5. p \in d.rows /\ p.table = "documents" /\ p.id = r.vals.document_id
  BY <1>4 DEF Row
<1>6. QED
  BY <1>5 DEF RowsUnique

LEMMA FeedbackOwned ==
    ASSUME NEW d, RowsUnique(d.rows), RowsOwned(d.rows), RowsReferred(d.rows),
           NEW r \in d.rows, r.table = "feedbacks", NEW m, m = Row(d, "messages", r.vals.message_id),
           NEW c, c = Row(d, "conversations", m.vals.conversation_id)
    PROVE  /\ m \in d.rows /\ m.table = "messages" /\ m.id = r.vals.message_id
           /\ \A q \in d.rows : q.table = "messages" /\ q.id = r.vals.message_id => q = m
           /\ c \in d.rows /\ c.table = "conversations" /\ c.id = m.vals.conversation_id
           /\ \A q \in d.rows : q.table = "conversations" /\ q.id = m.vals.conversation_id => q = c
<1>1. "message_id" \in DOMAIN r.vals /\ r.vals.message_id # "NULL"
  BY DEF RowsOwned
<1>2. PICK k \in KeysAt(17) : k.table = "feedbacks" /\ k.column = "message_id" /\ k.target = "messages"
  BY OwnerKeys
<1>3. \E q \in d.rows : Refers(k, r, q)
  BY <1>1, <1>2 DEF RowsReferred
<1>4. \E q \in d.rows : q.table = "messages" /\ q.id = r.vals.message_id
  BY <1>2, <1>3 DEF Refers
<1>5. m \in d.rows /\ m.table = "messages" /\ m.id = r.vals.message_id
  BY <1>4 DEF Row
<1>6. m \in Given
  BY <1>5 DEF RowsOwned
<1>7. "conversation_id" \in DOMAIN m.vals /\ m.vals.conversation_id # "NULL"
  BY <1>5, <1>6, GivenOwned
<1>8. PICK l \in KeysAt(17) : l.table = "messages" /\ l.column = "conversation_id"
                                 /\ l.target = "conversations"
  BY OwnerKeys
<1>9. \E q \in d.rows : Refers(l, m, q)
  BY <1>5, <1>7, <1>8 DEF RowsReferred
<1>10. \E q \in d.rows : q.table = "conversations" /\ q.id = m.vals.conversation_id
  BY <1>8, <1>9 DEF Refers
<1>11. c \in d.rows /\ c.table = "conversations" /\ c.id = m.vals.conversation_id
  BY <1>10 DEF Row
<1>12. QED
  BY <1>5, <1>11 DEF RowsUnique

-----------------------------------------------------------------------------
(* The rows, by the migrations upwards                                     *)

LEMMA NoRowsHold == ASSUME NEW n \in 0 .. 17 PROVE RowsHold({}, n)
  BY FS_EmptySet DEF RowsHold, RowsPlaced, RowsUnique, RowsOwned, RowsReferred, ChunksAgree, FeedbacksAgree

LEMMA UpgradedSameRows ==
    ASSUME NEW d, IsDatabase(d), NEW n \in Revisions \ {5, 13, 14}
    PROVE  Upgraded(d, n).rows = d.rows
<1>1. CASE n \in {1, 8, 9, 16}
  BY <1>1 DEF Upgraded, Up0001, Up0008, Up0009, Up0016, AddTables, IsDatabase
<1>2. CASE n \in {2, 4, 6, 7, 15}
  BY <1>2 DEF Upgraded, Up0002, Up0004, Up0006, Up0007, Up0015, AddColumns, IsDatabase
<1>3. CASE n \in {11, 12, 17}
  BY <1>3 DEF Upgraded, Up0011, Up0012, Up0017, IsDatabase
<1>4. CASE n = 10
  <2>1. PICK e : e = AddColumns(d, "feedback_categories",
                                Table({"name_zh", "is_system"}, {}, {"description"}))
    OBVIOUS
  <2>2. IsDatabase(e) /\ e.rows = d.rows
    BY <2>1 DEF AddColumns, IsDatabase
  <2>3. Upgraded(d, 10) = AddTables(e, TicketStatuses, {})
    BY <2>1 DEF Upgraded, Up0010
  <2>4. QED
    BY <1>4, <2>2, <2>3 DEF AddTables, IsDatabase
<1>5. n \in {1, 2, 4, 6, 7, 8, 9, 10, 11, 12, 15, 16, 17}
  BY DEF Revisions, HeadRev
<1>6. QED
  BY <1>1, <1>2, <1>3, <1>4, <1>5

\* 0005 adds rows to a table that had none, because there was no such table.
LEMMA Rows5 ==
    ASSUME NEW d, IsDatabase(d), RowsHold(d.rows, 4)
    PROVE  RowsHold(Upgraded(d, 5).rows, 5)
<1>1. PICK rows, after : rows = d.rows /\ after = rows \cup Presets
  OBVIOUS
<1>2. Upgraded(d, 5).rows = after
  <2>1. PICK e : e = AddTables(d, SensitiveValues, SensitiveValueKeys)
    OBVIOUS
  <2>2. IsDatabase(e) /\ e.rows = rows
    BY <1>1, <2>1 DEF AddTables, IsDatabase
  <2>3. Upgraded(d, 5) = Insert(e, Presets)
    BY <2>1 DEF Upgraded, Up0005
  <2>4. QED
    BY <1>1, <2>2, <2>3 DEF Insert, IsDatabase
<1>3. PICK s : s = [table |-> "sensitive_values", id |-> "preset",
                    vals |-> [added_by |-> "NULL", last_audit_id |-> "NULL"]]
  OBVIOUS
<1>4. /\ DOMAIN s = {"table", "id", "vals"} /\ s.table = "sensitive_values"
      /\ DOMAIN s.vals = {"added_by", "last_audit_id"} /\ \A c \in DOMAIN s.vals : s.vals[c] = "NULL"
      /\ after = rows \cup {s}
  BY <1>1, <1>3 DEF Presets
<1>5. RowsHold(rows, 4)
  BY <1>1
<1>6. RowsHold(rows, 5)
  BY <1>5, RowsStayUpwards
<1>7. /\ IsFiniteSet(rows) /\ RowsPlaced(rows, 5) /\ RowsUnique(rows) /\ RowsOwned(rows)
      /\ RowsReferred(rows) /\ ChunksAgree(rows) /\ FeedbacksAgree(rows)
  BY <1>6 DEF RowsHold
<1>8. \A r \in rows : r.table # "sensitive_values"
  <2>1. \A r \in rows : r.table \in NamesAt(4)
    BY <1>5 DEF RowsHold, RowsPlaced
  <2>2. "sensitive_values" \notin NamesAt(4)
    BY DEF NamesAt, Names1
  <2>3. QED
    BY <2>1, <2>2
<1>9. RowsPlaced(after, 5)
  <2>1. "sensitive_values" \in NamesAt(5)
    BY DEF NamesAt
  <2>2. {"added_by", "last_audit_id"} \subseteq Columns(5, "sensitive_values")
    <3>1. TableAt(5, "sensitive_values") = SensitiveValues["sensitive_values"]
      BY DEF TableAt
    <3>2. SensitiveValues["sensitive_values"] =
              Table({"word"}, {"id", "category", "is_preset", "is_active", "added_at"},
                    {"added_by", "last_audit_id"})
      BY DEF SensitiveValues
    <3>3. QED
      BY <3>1, <3>2 DEF Columns, Table
  <2>3. QED
    BY <1>4, <1>7, <2>1, <2>2 DEF RowsPlaced
<1>10. RowsUnique(after)
  BY <1>4, <1>7, <1>8 DEF RowsUnique
<1>11. RowsOwned(after)
  BY <1>4, <1>7 DEF RowsOwned
<1>12. RowsReferred(after)
  BY <1>4, <1>7 DEF RowsReferred
<1>13. ChunksAgree(after) /\ FeedbacksAgree(after)
  BY <1>4, <1>7 DEF ChunksAgree, FeedbacksAgree
<1>14. IsFiniteSet(after)
  BY <1>4, <1>7, FS_AddElement
<1>15. QED
  BY <1>2, <1>9, <1>10, <1>11, <1>12, <1>13, <1>14 DEF RowsHold

LEMMA Upgraded13Rows ==
    ASSUME NEW d, IsDatabase(d)
    PROVE  Upgraded(d, 13).rows =
             {IF r.table = "chunks"
              THEN [r EXCEPT !.vals = Overlay([x \in {"workspace_id"} |-> Backfill0013(d, r)], @)]
              ELSE r : r \in d.rows}
<1>1. PICK e : e = [AddColumns(d, "chunks", Table({"workspace_id"}, {}, {}))
                      EXCEPT !.keys = @ \cup {Key("chunks", "workspace_id", "workspaces", "CASCADE")}]
  OBVIOUS
<1>2. IsDatabase(e) /\ e.rows = d.rows
  BY <1>1 DEF AddColumns, IsDatabase
<1>3. Upgraded(d, 13) = Fill(e, "chunks", "workspace_id", LAMBDA r : Backfill0013(d, r))
  BY <1>1 DEF Upgraded, Up0013
<1>4. QED
  BY <1>2, <1>3 DEF Fill, IsDatabase

LEMMA Rows13 ==
    ASSUME NEW d, IsDatabase(d), RowsHold(d.rows, 12) PROVE RowsHold(Upgraded(d, 13).rows, 13)
<1>1. PICK rows, after, g :
          /\ rows = d.rows /\ after = Upgraded(d, 13).rows
          /\ g = [r \in rows |-> IF r.table = "chunks"
                    THEN [r EXCEPT !.vals = Overlay([x \in {"workspace_id"} |-> Backfill0013(d, r)], @)]
                    ELSE r]
  OBVIOUS
<1>2. after = {g[r] : r \in rows}
  <2>1. after = {IF r.table = "chunks"
              THEN [r EXCEPT !.vals = Overlay([x \in {"workspace_id"} |-> Backfill0013(d, r)], @)]
              ELSE r : r \in d.rows}
    BY <1>1, Upgraded13Rows
  <2>2. QED
    BY <1>1, <2>1
<1>3. RowsHold(rows, 13)
  <2>1. RowsHold(d.rows, 12)
    OBVIOUS
  <2>2. QED
    BY <1>1, <2>1, RowsStayUpwards
<1>4. /\ RowsPlaced(rows, 13) /\ RowsUnique(rows) /\ RowsOwned(rows) /\ RowsReferred(rows)
      /\ ChunksAgree(rows) /\ FeedbacksAgree(rows)
  BY <1>3 DEF RowsHold
<1>5. ASSUME NEW r \in rows, r.table # "chunks" PROVE g[r] = r
  BY <1>1, <1>5
<1>6. ASSUME NEW r \in rows, r.table = "chunks"
      PROVE  /\ DOMAIN g[r] = {"table", "id", "vals"} /\ g[r].table = r.table /\ g[r].id = r.id
             /\ DOMAIN g[r].vals = {"workspace_id"} \cup DOMAIN r.vals
             /\ g[r].vals.workspace_id = Backfill0013(d, r)
             /\ \A c \in DOMAIN r.vals \ {"workspace_id"} : g[r].vals[c] = r.vals[c]
  <2>1. PICK vals : vals = Overlay([x \in {"workspace_id"} |-> Backfill0013(d, r)], r.vals)
    OBVIOUS
  <2>2. /\ DOMAIN vals = {"workspace_id"} \cup DOMAIN r.vals /\ vals.workspace_id = Backfill0013(d, r)
        /\ \A c \in DOMAIN r.vals \ {"workspace_id"} : vals[c] = r.vals[c]
    BY <2>1 DEF Overlay
  <2>3. g[r] = [r EXCEPT !.vals = vals]
    BY <1>1, <1>6, <2>1
  <2>4. DOMAIN r = {"table", "id", "vals"}
    BY <1>4 DEF RowsPlaced
  <2>5. QED
    BY <2>2, <2>3, <2>4
<1>7. ASSUME NEW r \in rows, r.table = "chunks", NEW p, p = Row(d, "documents", r.vals.document_id)
      PROVE  /\ p \in rows /\ p.table = "documents" /\ p.id = r.vals.document_id
             /\ \A q \in rows : q.table = "documents" /\ q.id = r.vals.document_id => q = p
             /\ Backfill0013(d, r) = p.vals.workspace_id
  <2>1. /\ p \in d.rows /\ p.table = "documents" /\ p.id = r.vals.document_id
        /\ \A q \in d.rows : q.table = "documents" /\ q.id = r.vals.document_id => q = p
    BY <1>1, <1>4, <1>7, ChunkOwned
  <2>2. Backfill0013(d, r) = p.vals.workspace_id
    BY <1>7 DEF Backfill0013
  <2>3. QED
    BY <1>1, <2>1, <2>2
<1>8. ImagesPlaced(rows, g, 13)
  <2>1. ASSUME NEW r \in rows
        PROVE  /\ DOMAIN g[r] = {"table", "id", "vals"} /\ g[r].table = r.table /\ g[r].id = r.id
               /\ r.table \in NamesAt(13) /\ DOMAIN g[r].vals \subseteq Columns(13, r.table)
    <3>1. /\ DOMAIN r = {"table", "id", "vals"} /\ r.table \in NamesAt(13)
          /\ DOMAIN r.vals \subseteq Columns(13, r.table)
      BY <1>4 DEF RowsPlaced
    <3>2. CASE r.table = "chunks"
      <4>1. "workspace_id" \in Columns(13, "chunks")
        <5>1. TableAt(13, "chunks") = ChunksAt(13)
          BY DEF TableAt
        <5>2. DOMAIN ChunksAt(13) = DOMAIN Tables1["chunks"] \cup {"workspace_id"}
          BY ColumnsAt
        <5>3. QED
          BY <5>1, <5>2 DEF Columns
      <4>2. QED
        BY <1>6, <3>1, <3>2, <4>1
    <3>3. CASE r.table # "chunks"
      BY <1>5, <3>1, <3>3
    <3>4. QED
      BY <3>2, <3>3
  <2>2. QED
    BY <2>1 DEF ImagesPlaced
<1>9. ImagesOwned(rows, g)
  <2>1. \A r \in rows : r.table = "chunks" => "document_id" \in DOMAIN r.vals
    BY <1>4 DEF RowsOwned
  <2>2. \A r \in rows : r.table = "feedbacks" => "message_id" \in DOMAIN r.vals
    BY <1>4 DEF RowsOwned
  <2>3. QED
    BY <1>5, <1>6, <2>1, <2>2 DEF ImagesOwned
<1>10. ImagesReferred(rows, g)
  <2>1. ASSUME NEW r \in rows, NEW k \in KeysAt(17), k.table = r.table, k.column \in DOMAIN g[r].vals,
               g[r].vals[k.column] # "NULL"
        PROVE  \E p \in rows : p.table = k.target /\ p.id = g[r].vals[k.column]
    <3>1. CASE r.table = "chunks" /\ k.column = "workspace_id"
      <4>1. k.target = "workspaces"
        BY <2>1, <3>1, KeysAreOrdinary DEF Ordinary
      <4>2. PICK p : p = Row(d, "documents", r.vals.document_id)
        OBVIOUS
      <4>3. p \in rows /\ p.table = "documents" /\ Backfill0013(d, r) = p.vals.workspace_id
        BY <1>7, <3>1, <4>2
      <4>4. PICK w \in rows : OwnedBy(rows, p, w)
        BY <1>4, <4>3, DocumentOwned
      <4>5. g[r].vals[k.column] = p.vals.workspace_id
        BY <1>6, <3>1, <4>3
      <4>6. QED
        BY <4>1, <4>4, <4>5 DEF OwnedBy
    <3>2. CASE ~(r.table = "chunks" /\ k.column = "workspace_id")
      <4>1. k.column \in DOMAIN r.vals /\ g[r].vals[k.column] = r.vals[k.column]
        BY <1>5, <1>6, <2>1, <3>2
      <4>2. PICK p \in rows : Refers(k, r, p)
        BY <1>4, <2>1, <4>1 DEF RowsReferred
      <4>3. QED
        BY <4>1, <4>2 DEF Refers
    <3>3. QED
      BY <3>1, <3>2
  <2>2. QED
    BY <2>1 DEF ImagesReferred
<1>11. ImagesAgree(rows, g)
  <2>1. ASSUME NEW r \in rows, NEW p \in rows, r.table = "chunks", p.table = "documents",
               p.id = r.vals.document_id
        PROVE  g[r].vals.workspace_id = p.vals.workspace_id
    <3>1. PICK q : q = Row(d, "documents", r.vals.document_id)
      OBVIOUS
    <3>2. p = q /\ Backfill0013(d, r) = q.vals.workspace_id
      BY <1>7, <2>1, <3>1
    <3>3. QED
      BY <1>6, <2>1, <3>2
  <2>2. \A r \in rows : r.table = "feedbacks" => g[r] = r
    BY <1>5
  <2>3. QED
    BY <1>4, <2>1, <2>2 DEF ImagesAgree, FeedbacksAgree
<1>12. RowsHold(after, 13)
  <2>1. PICK some \in SUBSET rows, m \in 1 .. 17 : some = rows /\ m = 13
    OBVIOUS
  <2>2. /\ RowsHold(rows, m) /\ ImagesPlaced(some, g, m) /\ ImagesOwned(some, g)
        /\ ImagesReferred(some, g) /\ ImagesAgree(some, g) /\ after = {g[r] : r \in some}
    BY <1>2, <1>3, <1>8, <1>9, <1>10, <1>11, <2>1
  <2>3. RowsHold(after, m)
    BY <2>2, ImagesHold
  <2>4. QED
    BY <2>1, <2>3
<1>13. QED
  BY <1>1, <1>12

Workspace14(d, r) ==
    Row(d, "conversations", Row(d, "messages", r.vals.message_id).vals.conversation_id).vals.workspace_id

\* The columns that 0014 leaves a feedback with.
Rated14(d, r) ==
    Restrict1(Overlay([x \in {"rating"} |-> "like"],
                      Overlay([x \in {"workspace_id"} |-> Workspace14(d, r)], r.vals)), {"score"})

Image14(d, r) == IF r.table = "feedbacks" THEN [r EXCEPT !.vals = Rated14(d, r)] ELSE r

LEMMA ExceptAgain ==
    ASSUME NEW r, NEW u, NEW v PROVE [[r EXCEPT !.vals = u] EXCEPT !.vals = v] = [r EXCEPT !.vals = v]
  OBVIOUS

LEMMA Upgraded14Rows ==
    ASSUME NEW d, IsDatabase(d), \A r \in d.rows : DOMAIN r = {"table", "id", "vals"}
    PROVE  Upgraded(d, 14).rows = {Image14(d, r) : r \in d.rows}
<1>1. PICK placed : placed = Fill(d, "feedbacks", "workspace_id", LAMBDA r :
            Row(d, "conversations", Row(d, "messages", r.vals.message_id).vals.conversation_id)
                .vals.workspace_id)
  OBVIOUS
<1>2. PICK rated : rated = Fill(placed, "feedbacks", "rating", LAMBDA r : "like")
  OBVIOUS
<1>3. PICK columns : columns = AddColumns(rated, "feedbacks",
            Table({"workspace_id"}, {"rating", "attribution_status"}, {"ragas_scores"}))
  OBVIOUS
<1>4. PICK keyed : keyed = [columns EXCEPT !.keys = @ \cup
                        {Key("feedbacks", "workspace_id", "workspaces", "CASCADE")}]
  OBVIOUS
<1>5. Upgraded(d, 14) = DropColumns(keyed, "feedbacks", {"score"})
  <2>1. Upgraded(d, 14) = Up0014(d)
    BY DEF Upgraded
  <2>2. Up0014(d) = DropColumns(keyed, "feedbacks", {"score"})
    BY <1>1, <1>2, <1>3, <1>4, Zenon DEF Up0014
  <2>3. QED
    BY <2>1, <2>2
<1>6. PICK a : a = [r \in d.rows |-> IF r.table = "feedbacks"
          THEN [r EXCEPT !.vals = Overlay([x \in {"workspace_id"} |-> Workspace14(d, r)], @)] ELSE r]
  OBVIOUS
<1>7. IsDatabase(placed) /\ placed.rows = {a[r] : r \in d.rows}
  <2>1. IsDatabase(placed) /\ placed.rows = {IF r.table = "feedbacks"
          THEN [r EXCEPT !.vals = Overlay([x \in {"workspace_id"} |-> Workspace14(d, r)], @)]
          ELSE r : r \in d.rows}
    BY <1>1 DEF Fill, IsDatabase, Workspace14
  <2>2. QED
    BY <1>6, <2>1
<1>8. PICK b : b = [r \in placed.rows |-> IF r.table = "feedbacks"
          THEN [r EXCEPT !.vals = Overlay([x \in {"rating"} |-> "like"], @)] ELSE r]
  OBVIOUS
<1>9. IsDatabase(rated) /\ rated.rows = {b[r] : r \in placed.rows}
  <2>1. IsDatabase(rated) /\ rated.rows = {IF r.table = "feedbacks"
          THEN [r EXCEPT !.vals = Overlay([x \in {"rating"} |-> "like"], @)] ELSE r : r \in placed.rows}
    BY <1>2, <1>7 DEF Fill, IsDatabase
  <2>2. QED
    BY <1>8, <2>1
<1>10. IsDatabase(columns) /\ columns.rows = rated.rows
  BY <1>3, <1>9 DEF AddColumns, IsDatabase
<1>11. IsDatabase(keyed) /\ keyed.rows = rated.rows
  BY <1>4, <1>10 DEF IsDatabase
<1>12. PICK c : c = [r \in rated.rows |-> IF r.table = "feedbacks"
          THEN [r EXCEPT !.vals = Restrict1(@, {"score"})] ELSE r]
  OBVIOUS
<1>13. Upgraded(d, 14).rows = {c[r] : r \in rated.rows}
  <2>1. PICK e : e = DropColumns(keyed, "feedbacks", {"score"})
    OBVIOUS
  <2>2. e.rows = {IF r.table = "feedbacks" THEN [r EXCEPT !.vals = Restrict1(@, {"score"})] ELSE r
                    : r \in keyed.rows}
    BY <1>11, <2>1 DEF DropColumns, IsDatabase
  <2>3. QED
    BY <1>5, <1>11, <1>12, <2>1, <2>2
<1>14. Upgraded(d, 14).rows = {c[b[a[r]]] : r \in d.rows}
  BY <1>7, <1>9, <1>13
<1>15. ASSUME NEW r \in d.rows PROVE c[b[a[r]]] = Image14(d, r)
  <2>1. a[r] \in placed.rows /\ b[a[r]] \in rated.rows
    BY <1>7, <1>9
  <2>2. CASE r.table # "feedbacks"
    BY <1>6, <1>8, <1>12, <2>1, <2>2 DEF Image14
  <2>3. CASE r.table = "feedbacks"
    <3>1. PICK u, v, w : /\ u = Overlay([x \in {"workspace_id"} |-> Workspace14(d, r)], r.vals)
                         /\ v = Overlay([x \in {"rating"} |-> "like"], u)
                         /\ w = Restrict1(v, {"score"})
      OBVIOUS
    <3>2. DOMAIN r = {"table", "id", "vals"}
      OBVIOUS
    <3>3. a[r] = [r EXCEPT !.vals = u]
      BY <1>6, <2>3, <3>1
    <3>4. b[a[r]] = [a[r] EXCEPT !.vals = v]
      <4>1. a[r].table = "feedbacks" /\ a[r].vals = u
        BY <2>3, <3>2, <3>3
      <4>2. QED
        BY <1>8, <2>1, <3>1, <4>1
    <3>5. c[b[a[r]]] = [b[a[r]] EXCEPT !.vals = w]
      <4>1. b[a[r]].table = "feedbacks" /\ b[a[r]].vals = v
        BY <2>3, <3>2, <3>3, <3>4
      <4>2. QED
        BY <1>12, <2>1, <3>1, <4>1
    <3>6. Image14(d, r) = [r EXCEPT !.vals = w]
      BY <2>3, <3>1 DEF Image14, Rated14
    <3>7. b[a[r]] = [r EXCEPT !.vals = v]
      BY <3>3, <3>4, ExceptAgain
    <3>8. c[b[a[r]]] = [r EXCEPT !.vals = w]
      BY <3>5, <3>7, ExceptAgain
    <3>9. QED
      BY <3>6, <3>8
  <2>4. QED
    BY <2>2, <2>3
<1>16. PICK after, rows : after = Upgraded(d, 14).rows /\ rows = d.rows
  OBVIOUS
<1>17. after = {c[b[a[r]]] : r \in rows} /\ \A r \in rows : c[b[a[r]]] = Image14(d, r)
  BY <1>14, <1>15, <1>16
<1>18. after = {Image14(d, r) : r \in rows}
  BY <1>17
<1>19. QED
  BY <1>16, <1>18

LEMMA Rows14 ==
    ASSUME NEW d, IsDatabase(d), RowsHold(d.rows, 13) PROVE RowsHold(Upgraded(d, 14).rows, 14)
<1>1. PICK rows, after, g :
          /\ rows = d.rows /\ after = Upgraded(d, 14).rows
          /\ g = [r \in rows |-> Image14(d, r)]
  OBVIOUS
<1>3. RowsHold(rows, 13)
  BY <1>1
<1>4. /\ RowsPlaced(rows, 13) /\ RowsUnique(rows) /\ RowsOwned(rows) /\ RowsReferred(rows)
      /\ ChunksAgree(rows) /\ FeedbacksAgree(rows)
  BY <1>3 DEF RowsHold
<1>2. after = {g[r] : r \in rows}
  <2>1. \A r \in d.rows : DOMAIN r = {"table", "id", "vals"}
    BY <1>1, <1>4 DEF RowsPlaced
  <2>2. Upgraded(d, 14).rows = {Image14(d, r) : r \in d.rows}
    BY <2>1, Upgraded14Rows
  <2>3. QED
    BY <1>1, <2>2
<1>5. ASSUME NEW r \in rows, r.table # "feedbacks" PROVE g[r] = r
  BY <1>1, <1>5 DEF Image14
<1>6. ASSUME NEW r \in rows, r.table = "feedbacks"
      PROVE  /\ DOMAIN g[r] = {"table", "id", "vals"} /\ g[r].table = r.table /\ g[r].id = r.id
             /\ DOMAIN g[r].vals = ({"workspace_id", "rating"} \cup DOMAIN r.vals) \ {"score"}
             /\ g[r].vals.workspace_id = Workspace14(d, r)
             /\ \A c \in DOMAIN r.vals \ {"workspace_id", "rating", "score"} : g[r].vals[c] = r.vals[c]
  <2>1. PICK u, v, w : /\ u = Overlay([x \in {"workspace_id"} |-> Workspace14(d, r)], r.vals)
                       /\ v = Overlay([x \in {"rating"} |-> "like"], u)
                       /\ w = Restrict1(v, {"score"})
    OBVIOUS
  <2>2. /\ DOMAIN u = {"workspace_id"} \cup DOMAIN r.vals /\ u.workspace_id = Workspace14(d, r)
        /\ \A c \in DOMAIN r.vals \ {"workspace_id"} : u[c] = r.vals[c]
    BY <2>1 DEF Overlay
  <2>3. /\ DOMAIN v = {"rating"} \cup DOMAIN u /\ \A c \in DOMAIN u \ {"rating"} : v[c] = u[c]
    BY <2>1 DEF Overlay
  <2>4. /\ DOMAIN w = DOMAIN v \ {"score"} /\ \A c \in DOMAIN v \ {"score"} : w[c] = v[c]
    BY <2>1 DEF Restrict1
  <2>5. g[r] = [r EXCEPT !.vals = w]
    BY <1>1, <1>6, <2>1 DEF Image14, Rated14
  <2>6. DOMAIN r = {"table", "id", "vals"}
    BY <1>4 DEF RowsPlaced
  <2>7. DOMAIN g[r] = {"table", "id", "vals"} /\ g[r].table = r.table /\ g[r].id = r.id /\ g[r].vals = w
    BY <2>5, <2>6
  <2>8. QED
    BY <2>2, <2>3, <2>4, <2>7
<1>7. ASSUME NEW r \in rows, r.table = "feedbacks", NEW m, m = Row(d, "messages", r.vals.message_id),
             NEW c, c = Row(d, "conversations", m.vals.conversation_id)
      PROVE  /\ m \in rows /\ m.table = "messages" /\ m.id = r.vals.message_id
             /\ \A q \in rows : q.table = "messages" /\ q.id = r.vals.message_id => q = m
             /\ c \in rows /\ c.table = "conversations" /\ c.id = m.vals.conversation_id
             /\ \A q \in rows : q.table = "conversations" /\ q.id = m.vals.conversation_id => q = c
             /\ Workspace14(d, r) = c.vals.workspace_id
  <2>1. /\ m \in d.rows /\ m.table = "messages" /\ m.id = r.vals.message_id
        /\ \A q \in d.rows : q.table = "messages" /\ q.id = r.vals.message_id => q = m
        /\ c \in d.rows /\ c.table = "conversations" /\ c.id = m.vals.conversation_id
        /\ \A q \in d.rows : q.table = "conversations" /\ q.id = m.vals.conversation_id => q = c
    BY <1>1, <1>4, <1>7, FeedbackOwned
  <2>2. Workspace14(d, r) = c.vals.workspace_id
    BY <1>7 DEF Workspace14
  <2>3. QED
    BY <1>1, <2>1, <2>2
<1>8. ImagesPlaced(rows, g, 14)
  <2>1. ASSUME NEW r \in rows
        PROVE  /\ DOMAIN g[r] = {"table", "id", "vals"} /\ g[r].table = r.table /\ g[r].id = r.id
               /\ r.table \in NamesAt(14) /\ DOMAIN g[r].vals \subseteq Columns(14, r.table)
    <3>1. /\ DOMAIN r = {"table", "id", "vals"} /\ r.table \in NamesAt(13)
          /\ DOMAIN r.vals \subseteq Columns(13, r.table)
      BY <1>4 DEF RowsPlaced
    <3>2. CASE r.table = "feedbacks"
      <4>1. Columns(13, "feedbacks") \ {"score"} \subseteq Columns(14, "feedbacks")
            /\ {"workspace_id", "rating"} \subseteq Columns(14, "feedbacks")
        <5>1. TableAt(13, "feedbacks") = FeedbacksAt(13) /\ TableAt(14, "feedbacks") = FeedbacksAt(14)
          BY DEF TableAt
        <5>2. DOMAIN FeedbacksAt(13) = DOMAIN Tables1["feedbacks"]
              /\ DOMAIN FeedbacksAt(14) = (DOMAIN Tables1["feedbacks"] \ {"score"})
                      \cup {"workspace_id", "rating", "attribution_status", "ragas_scores"}
          BY ColumnsAt
        <5>3. QED
          BY <5>1, <5>2 DEF Columns
      <4>2. r.table \in NamesAt(14)
        BY <3>1 DEF NamesAt
      <4>3. QED
        BY <1>6, <3>1, <3>2, <4>1, <4>2
    <3>3. CASE r.table # "feedbacks"
      <4>1. PICK t \in NamesAt(13) : t = r.table
        BY <3>1
      <4>2. t \in NamesAt(14) /\ Columns(13, t) \subseteq Columns(14, t)
        BY <3>3, <4>1, ColumnsStay
      <4>3. QED
        BY <1>5, <3>1, <3>3, <4>1, <4>2
    <3>4. QED
      BY <3>2, <3>3
  <2>2. QED
    BY <2>1 DEF ImagesPlaced
<1>9. ImagesOwned(rows, g)
  <2>1. \A r \in rows : r.table = "chunks" => "document_id" \in DOMAIN r.vals
    BY <1>4 DEF RowsOwned
  <2>2. \A r \in rows : r.table = "feedbacks" => "message_id" \in DOMAIN r.vals
    BY <1>4 DEF RowsOwned
  <2>3. QED
    BY <1>5, <1>6, <2>1, <2>2 DEF ImagesOwned
<1>10. ImagesReferred(rows, g)
  <2>1. ASSUME NEW r \in rows, NEW k \in KeysAt(17), k.table = r.table, k.column \in DOMAIN g[r].vals,
               g[r].vals[k.column] # "NULL"
        PROVE  \E p \in rows : p.table = k.target /\ p.id = g[r].vals[k.column]
    <3>1. CASE r.table = "feedbacks" /\ k.column = "workspace_id"
      <4>1. k.target = "workspaces"
        BY <2>1, <3>1, KeysAreOrdinary DEF Ordinary
      <4>2. PICK m, c : m = Row(d, "messages", r.vals.message_id)
                        /\ c = Row(d, "conversations", m.vals.conversation_id)
        OBVIOUS
      <4>3. c \in rows /\ c.table = "conversations" /\ Workspace14(d, r) = c.vals.workspace_id
        BY <1>7, <3>1, <4>2
      <4>4. PICK w \in rows : OwnedBy(rows, c, w)
        BY <1>4, <4>3, DocumentOwned
      <4>5. g[r].vals[k.column] = c.vals.workspace_id
        BY <1>6, <3>1, <4>3
      <4>6. QED
        BY <4>1, <4>4, <4>5 DEF OwnedBy
    <3>2. CASE ~(r.table = "feedbacks" /\ k.column = "workspace_id")
      <4>1. k.column # "rating"
        BY KeysAreOrdinary DEF Ordinary
      <4>2. k.column \in DOMAIN r.vals /\ g[r].vals[k.column] = r.vals[k.column]
        BY <1>5, <1>6, <2>1, <3>2, <4>1
      <4>3. PICK p \in rows : Refers(k, r, p)
        BY <1>4, <2>1, <4>2 DEF RowsReferred
      <4>4. QED
        BY <4>2, <4>3 DEF Refers
    <3>3. QED
      BY <3>1, <3>2
  <2>2. QED
    BY <2>1 DEF ImagesReferred
<1>11. ImagesAgree(rows, g)
  <2>1. ASSUME NEW r \in rows, NEW x \in rows, NEW y \in rows, r.table = "feedbacks",
               x.table = "messages", x.id = r.vals.message_id,
               y.table = "conversations", y.id = x.vals.conversation_id
        PROVE  g[r].vals.workspace_id = y.vals.workspace_id
    <3>1. PICK m, c : m = Row(d, "messages", r.vals.message_id)
                      /\ c = Row(d, "conversations", m.vals.conversation_id)
      OBVIOUS
    <3>2. x = m /\ Workspace14(d, r) = c.vals.workspace_id
      BY <1>7, <2>1, <3>1
    <3>3. y = c
      BY <1>7, <2>1, <3>1, <3>2
    <3>4. QED
      BY <1>6, <2>1, <3>2, <3>3
  <2>2. \A r \in rows : r.table = "chunks" => g[r] = r
    BY <1>5
  <2>3. QED
    BY <1>4, <2>1, <2>2 DEF ImagesAgree, ChunksAgree
<1>12. RowsHold(after, 14)
  <2>1. PICK some \in SUBSET rows, n \in 1 .. 17, m \in 1 .. 17 : some = rows /\ n = 13 /\ m = 14
    OBVIOUS
  <2>2. /\ RowsHold(rows, n) /\ ImagesPlaced(some, g, m) /\ ImagesOwned(some, g)
        /\ ImagesReferred(some, g) /\ ImagesAgree(some, g) /\ after = {g[r] : r \in some}
    BY <1>2, <1>3, <1>8, <1>9, <1>10, <1>11, <2>1
  <2>3. RowsHold(after, m)
    BY <2>2, ImagesHold
  <2>4. QED
    BY <2>1, <2>3
<1>13. QED
  BY <1>1, <1>12

Images(rows, some, g, m, after) ==
    /\ some \subseteq rows /\ after = {g[r] : r \in some} /\ ImagesPlaced(some, g, m)
    /\ ImagesOwned(some, g) /\ ImagesReferred(some, g) /\ ImagesAgree(some, g)

LEMMA ImagesOfRows ==
    ASSUME NEW rows, NEW n \in 1 .. 17, RowsHold(rows, n), NEW some, NEW g, NEW m \in 1 .. 17, NEW after,
           Images(rows, some, g, m, after)
    PROVE  RowsHold(after, m)
<1>1. PICK part \in SUBSET rows : part = some
  BY DEF Images
<1>2. /\ ImagesPlaced(part, g, m) /\ ImagesOwned(part, g) /\ ImagesReferred(part, g)
      /\ ImagesAgree(part, g) /\ after = {g[r] : r \in part}
  BY <1>1 DEF Images
<1>3. QED
  BY <1>2, ImagesHold

LEMMA UpgradedRowsHold ==
    ASSUME NEW d, IsDatabase(d), NEW n \in Revisions, RowsHold(d.rows, Below(n))
    PROVE  RowsHold(Upgraded(d, n).rows, n)
<1>1. CASE n = 1
  <2>1. Below(n) = 0
    BY <1>1 DEF Below
  <2>2. d.rows = {}
    BY <2>1 DEF RowsHold
  <2>3. Upgraded(d, n).rows = {}
    BY <1>1, <2>2, UpgradedSameRows
  <2>4. QED
    BY <1>1, <2>3, NoRowsHold
<1>2. CASE n = 13
  <2>1. Below(n) = 12
    BY <1>2 DEF Below
  <2>2. QED
    BY <1>2, <2>1, Rows13
<1>3. CASE n = 14
  <2>1. Below(n) = 13
    BY <1>3 DEF Below
  <2>2. QED
    BY <1>3, <2>1, Rows14
<1>6. CASE n = 5
  <2>1. Below(n) = 4
    BY <1>6 DEF Below
  <2>2. QED
    BY <1>6, <2>1, Rows5
<1>4. CASE n \notin {1, 5, 13, 14}
  <2>0. n \in 1 .. 17 /\ Below(n) \in 1 .. 17 /\ n \in Revisions \ {5, 13, 14}
    BY <1>4 DEF Below, Revisions, HeadRev
  <2>6. PICK m \in 1 .. 17 : m = Below(n)
    BY <2>0
  <2>7. PICK rows, l : rows = d.rows /\ l = n
    OBVIOUS
  <2>1. rows = d.rows /\ m = Below(n) /\ l = n /\ l \in 1 .. 17
    BY <2>0, <2>6, <2>7
  <2>2. m <= l /\ ~(m < 14 /\ l >= 14)
    BY <1>4, <2>1 DEF Below, Revisions, HeadRev
  <2>3. RowsHold(rows, m)
    BY <2>1
  <2>9. l \in 1 .. 17
    BY <2>1
  <2>4. RowsHold(rows, l)
    BY <2>2, <2>3, <2>9, RowsStayUpwards
  <2>5. Upgraded(d, n).rows = d.rows
    BY <2>0, UpgradedSameRows
  <2>8. QED
    BY <2>1, <2>4, <2>5
<1>5. QED
  BY <1>1, <1>2, <1>3, <1>4, <1>6

-----------------------------------------------------------------------------
(* The rows, by the migrations downwards                                   *)

Cut(r, t, names) == IF r.table = t THEN [r EXCEPT !.vals = Restrict1(@, names)] ELSE r

CutRows(rows, after, gone, t, names) ==
    after = {Cut(r, t, names) : r \in {q \in rows : q.table \notin gone}}

\* Tables that no key of another refers to go, and columns that own nothing.
MayCut(n, m, gone, t, names) ==
    /\ \A u \in NamesAt(n) \ gone :
          u \in NamesAt(m) /\ Columns(n, u) \ (IF u = t THEN names ELSE {}) \subseteq Columns(m, u)
    /\ t \notin {"documents", "conversations", "messages"}
    /\ "document_id" \notin names /\ "message_id" \notin names
    /\ \A k \in KeysAt(17) : k.target \in gone => k.table \in gone \/ k.table \notin NamesAt(n)

LEMMA CutHold ==
    ASSUME NEW rows, NEW n \in 1 .. 17, RowsHold(rows, n), NEW m \in 1 .. 17, NEW gone, NEW t, NEW names,
           MayCut(n, m, gone, t, names), NEW after, CutRows(rows, after, gone, t, names)
    PROVE  RowsHold(after, m)
<1>0. after = {Cut(r, t, names) : r \in {q \in rows : q.table \notin gone}}
  BY DEF CutRows
<1>1. PICK some, g : some = {q \in rows : q.table \notin gone} /\ g = [r \in some |-> Cut(r, t, names)]
  OBVIOUS
<1>2. some \in SUBSET rows /\ after = {g[r] : r \in some}
  BY <1>0, <1>1
<1>3. /\ RowsPlaced(rows, n) /\ RowsUnique(rows) /\ RowsOwned(rows) /\ RowsReferred(rows)
      /\ ChunksAgree(rows) /\ FeedbacksAgree(rows)
  BY DEF RowsHold
<1>4. ASSUME NEW r \in some, r.table # t PROVE g[r] = r
  BY <1>1, <1>4 DEF Cut
<1>5. ASSUME NEW r \in some, r.table = t
      PROVE  /\ DOMAIN g[r] = {"table", "id", "vals"} /\ g[r].table = r.table /\ g[r].id = r.id
             /\ DOMAIN g[r].vals = DOMAIN r.vals \ names
             /\ \A c \in DOMAIN r.vals \ names : g[r].vals[c] = r.vals[c]
  <2>1. PICK vals : vals = Restrict1(r.vals, names)
    OBVIOUS
  <2>2. DOMAIN vals = DOMAIN r.vals \ names /\ \A c \in DOMAIN r.vals \ names : vals[c] = r.vals[c]
    BY <2>1 DEF Restrict1
  <2>3. g[r] = [r EXCEPT !.vals = vals]
    BY <1>1, <1>5, <2>1 DEF Cut
  <2>4. DOMAIN r = {"table", "id", "vals"}
    BY <1>2, <1>3 DEF RowsPlaced
  <2>5. QED
    BY <2>2, <2>3, <2>4
<1>6. ImagesPlaced(some, g, m)
  <2>1. ASSUME NEW r \in some
        PROVE  /\ DOMAIN g[r] = {"table", "id", "vals"} /\ g[r].table = r.table /\ g[r].id = r.id
               /\ r.table \in NamesAt(m) /\ DOMAIN g[r].vals \subseteq Columns(m, r.table)
    <3>1. /\ DOMAIN r = {"table", "id", "vals"} /\ r.table \in NamesAt(n) \ gone
          /\ DOMAIN r.vals \subseteq Columns(n, r.table)
      BY <1>1, <1>2, <1>3 DEF RowsPlaced
    <3>2. PICK u \in NamesAt(n) \ gone : u = r.table
      BY <3>1
    <3>3. u \in NamesAt(m) /\ Columns(n, u) \ (IF u = t THEN names ELSE {}) \subseteq Columns(m, u)
      BY DEF MayCut
    <3>4. CASE r.table = t
      BY <1>5, <3>1, <3>2, <3>3, <3>4
    <3>5. CASE r.table # t
      BY <1>4, <3>1, <3>2, <3>3, <3>5
    <3>6. QED
      BY <3>4, <3>5
  <2>2. QED
    BY <2>1 DEF ImagesPlaced
<1>7. ImagesOwned(some, g)
  <2>1. \A r \in some : /\ r.table = "chunks" => "document_id" \in DOMAIN r.vals
                        /\ r.table = "feedbacks" => "message_id" \in DOMAIN r.vals
    BY <1>2, <1>3 DEF RowsOwned
  <2>2. QED
    BY <1>4, <1>5, <2>1 DEF ImagesOwned, MayCut
<1>8. ASSUME NEW r \in some, NEW c \in DOMAIN g[r].vals
      PROVE  c \in DOMAIN r.vals /\ g[r].vals[c] = r.vals[c]
  BY <1>4, <1>5
<1>9. ImagesReferred(some, g)
  <2>1. ASSUME NEW r \in some, NEW k \in KeysAt(17), k.table = r.table, k.column \in DOMAIN g[r].vals,
               g[r].vals[k.column] # "NULL"
        PROVE  \E p \in some : p.table = k.target /\ p.id = g[r].vals[k.column]
    <3>1. r \in rows /\ k.column \in DOMAIN r.vals /\ g[r].vals[k.column] = r.vals[k.column]
      BY <1>2, <1>8, <2>1
    <3>2. PICK p \in rows : p.table = k.target /\ p.id = r.vals[k.column]
      BY <1>3, <2>1, <3>1 DEF RowsReferred, Refers
    <3>3. k.table \in NamesAt(n) /\ k.table \notin gone
      BY <1>1, <1>3, <2>1, <3>1 DEF RowsPlaced
    <3>4. k.target \notin gone
      BY <3>3 DEF MayCut
    <3>5. QED
      BY <1>1, <3>1, <3>2, <3>4
  <2>2. QED
    BY <2>1 DEF ImagesReferred
<1>10. ImagesAgree(some, g)
  <2>1. ASSUME NEW r \in some, NEW p \in some, r.table = "chunks", "workspace_id" \in DOMAIN g[r].vals,
               p.table = "documents", p.id = r.vals.document_id
        PROVE  g[r].vals.workspace_id = p.vals.workspace_id
    BY <1>2, <1>3, <1>8, <2>1 DEF ChunksAgree
  <2>2. ASSUME NEW r \in some, NEW x \in some, NEW c \in some, r.table = "feedbacks",
               "workspace_id" \in DOMAIN g[r].vals, x.table = "messages", x.id = r.vals.message_id,
               c.table = "conversations", c.id = x.vals.conversation_id
        PROVE  g[r].vals.workspace_id = c.vals.workspace_id
    BY <1>2, <1>3, <1>8, <2>2 DEF FeedbacksAgree
  <2>3. QED
    BY <2>1, <2>2 DEF ImagesAgree
<1>11. QED
  <2>1. Images(rows, some, g, m, after)
    BY <1>2, <1>6, <1>7, <1>9, <1>10 DEF Images
  <2>2. QED
    BY <2>1, ImagesOfRows

\* The columns of a table, and the tables, that the downgrade of n takes away.
Lost(n, u) ==
    IF n = 2 /\ u = "drift_alerts" THEN DriftColumns
    ELSE IF n = 4 /\ u = "roles" THEN {"workspace_scoped"}
    ELSE IF n = 6 /\ u = "users" THEN {"deleted_at"}
    ELSE IF n = 7 /\ u = "users" THEN {"display_name", "avatar_url"}
    ELSE IF n = 10 /\ u = "feedback_categories" THEN {"name_zh", "is_system", "description"}
    ELSE IF n = 13 /\ u = "chunks" THEN {"workspace_id"}
    ELSE IF n = 14 /\ u = "feedbacks" THEN {"workspace_id", "rating", "attribution_status", "ragas_scores"}
    ELSE {}

LEMMA ColumnsBack ==
    ASSUME NEW n \in 1 .. 17, NEW m \in 1 .. 17, m = Below(n), NEW u
    PROVE  Columns(n, u) \ Lost(n, u) \subseteq Columns(m, u)
<1>0. m = IF n = 4 THEN 2 ELSE n - 1
  BY DEF Below
<1>1. CASE u = "users"
  <2>1. TableAt(n, u) = UsersAt(n) /\ TableAt(m, u) = UsersAt(m)
    BY <1>1 DEF TableAt
  <2>2. \A x \in 1 .. 17 : DOMAIN UsersAt(x) = DOMAIN Tables1["users"]
                \cup (IF x < 6 THEN {} ELSE {"deleted_at"})
                \cup (IF x < 7 THEN {} ELSE {"display_name", "avatar_url"})
    BY ColumnsAt
  <2>3. QED
    BY <1>0, <1>1, <2>1, <2>2 DEF Columns, Lost
<1>2. CASE u = "roles"
  <2>1. TableAt(n, u) = RolesAt(n) /\ TableAt(m, u) = RolesAt(m)
    BY <1>2 DEF TableAt
  <2>2. \A x \in 1 .. 17 : DOMAIN RolesAt(x) = DOMAIN Tables1["roles"]
                \cup (IF x < 4 THEN {} ELSE {"workspace_scoped"})
    BY ColumnsAt
  <2>3. QED
    BY <1>0, <1>2, <2>1, <2>2 DEF Columns, Lost
<1>3. CASE u = "drift_alerts"
  <2>1. TableAt(n, u) = AlertsAt(n) /\ TableAt(m, u) = AlertsAt(m)
    BY <1>3 DEF TableAt
  <2>2. \A x \in 1 .. 17 : DOMAIN AlertsAt(x) = DOMAIN Tables1["drift_alerts"]
                \cup (IF x < 2 THEN {} ELSE DriftColumns)
    BY ColumnsAt
  <2>3. QED
    BY <1>0, <1>3, <2>1, <2>2 DEF Columns, Lost
<1>4. CASE u = "feedback_categories"
  <2>1. TableAt(n, u) = CategoriesAt(n) /\ TableAt(m, u) = CategoriesAt(m)
    BY <1>4 DEF TableAt
  <2>2. \A x \in 1 .. 17 : DOMAIN CategoriesAt(x) = DOMAIN Tables1["feedback_categories"]
                \cup (IF x < 10 THEN {} ELSE {"name_zh", "is_system", "description"})
    BY ColumnsAt
  <2>3. QED
    BY <1>0, <1>4, <2>1, <2>2 DEF Columns, Lost
<1>5. CASE u = "chunks"
  <2>1. TableAt(n, u) = ChunksAt(n) /\ TableAt(m, u) = ChunksAt(m)
    BY <1>5 DEF TableAt
  <2>2. \A x \in 1 .. 17 : DOMAIN ChunksAt(x) = DOMAIN Tables1["chunks"]
                \cup (IF x < 13 THEN {} ELSE {"workspace_id"})
    BY ColumnsAt
  <2>3. QED
    BY <1>0, <1>5, <2>1, <2>2 DEF Columns, Lost
<1>6. CASE u = "feedbacks"
  <2>1. TableAt(n, u) = FeedbacksAt(n) /\ TableAt(m, u) = FeedbacksAt(m)
    BY <1>6 DEF TableAt
  <2>2. \A x \in 1 .. 17 : DOMAIN FeedbacksAt(x) =
              IF x < 14 THEN DOMAIN Tables1["feedbacks"]
              ELSE (DOMAIN Tables1["feedbacks"] \ {"score"})
                      \cup {"workspace_id", "rating", "attribution_status", "ragas_scores"}
    BY ColumnsAt
  <2>3. CASE n = 14
    BY <1>0, <1>6, <2>1, <2>2, <2>3 DEF Columns, Lost
  <2>4. CASE n # 14
    BY <1>0, <1>6, <2>1, <2>2, <2>4 DEF Columns, Lost
  <2>5. QED
    BY <2>3, <2>4
<1>7. CASE u \notin {"users", "roles", "drift_alerts", "feedback_categories", "chunks", "feedbacks"}
  <2>1. TableAt(n, u) = TableAt(m, u)
    BY <1>7 DEF TableAt
  <2>2. QED
    BY <2>1 DEF Columns
<1>8. QED
  BY <1>1, <1>2, <1>3, <1>4, <1>5, <1>6, <1>7

Gone(n) == IF n = 5 THEN {"sensitive_values"} ELSE IF n = 8 THEN {"api_tokens"}
           ELSE IF n = 9 THEN {"password_reset_audit"} ELSE IF n = 10 THEN {"ticket_statuses"}
           ELSE IF n = 16 THEN {"feedback_attributions", "feedback_tickets"} ELSE {}

LEMMA TablesBack ==
    ASSUME NEW n \in 1 .. 17, NEW m \in 1 .. 17, m = Below(n)
    PROVE  /\ NamesAt(n) \ Gone(n) \subseteq NamesAt(m)
           /\ \A k \in KeysAt(17) : k.target \in Gone(n) => k.table \notin NamesAt(n)
<1>0. m = IF n = 4 THEN 2 ELSE n - 1
  BY DEF Below
<1>1. NamesAt(n) \ Gone(n) \subseteq NamesAt(m)
  BY <1>0 DEF NamesAt, Gone
<1>2. ASSUME NEW k \in KeysAt(17), k.target \in Gone(n) PROVE k.table \notin NamesAt(n)
  <2>1. Ordinary(k)
    BY KeysAreOrdinary
  <2>2. n = 10 /\ k.target = "ticket_statuses" /\ k.table = "feedback_tickets"
    BY <1>2, <2>1 DEF Ordinary, Gone
  <2>3. QED
    BY <2>2 DEF NamesAt, Names1
<1>3. QED
  BY <1>1, <1>2

\* The table whose columns the downgrade of n takes away.
Cutting(n) == IF n = 2 THEN "drift_alerts" ELSE IF n = 4 THEN "roles" ELSE IF n \in {6, 7} THEN "users"
              ELSE IF n = 10 THEN "feedback_categories" ELSE IF n = 13 THEN "chunks"
              ELSE IF n = 14 THEN "feedbacks" ELSE "none"

LEMMA BackHolds ==
    ASSUME NEW rows, NEW n \in 1 .. 17, RowsHold(rows, n), NEW m \in 1 .. 17, m = Below(n), NEW after,
           CutRows(rows, after, Gone(n), Cutting(n), Lost(n, Cutting(n)))
    PROVE  RowsHold(after, m)
<1>1. PICK t, names, gone : t = Cutting(n) /\ names = Lost(n, Cutting(n)) /\ gone = Gone(n)
  OBVIOUS
<1>2. t \notin {"documents", "conversations", "messages"}
  BY <1>1 DEF Cutting
<1>3. "document_id" \notin names /\ "message_id" \notin names
  BY <1>1 DEF Lost, Cutting, DriftColumns
<1>4. \A k \in KeysAt(17) : k.target \in gone => k.table \in gone \/ k.table \notin NamesAt(n)
  BY <1>1, TablesBack
<1>5. ASSUME NEW u \in NamesAt(n) \ gone
      PROVE  /\ u \in NamesAt(m) /\ Columns(n, u) \ (IF u = t THEN names ELSE {}) \subseteq Columns(m, u)
  <2>1. u \in NamesAt(m)
    BY <1>1, TablesBack
  <2>2. Columns(n, u) \ Lost(n, u) \subseteq Columns(m, u)
    BY ColumnsBack
  <2>3. u # t => Lost(n, u) = {}
    BY <1>1 DEF Lost, Cutting
  <2>4. QED
    BY <1>1, <2>1, <2>2, <2>3
<1>6. MayCut(n, m, gone, t, names)
  BY <1>2, <1>3, <1>4, <1>5 DEF MayCut
<1>7. CutRows(rows, after, gone, t, names)
  BY <1>1
<1>8. QED
  BY <1>6, <1>7, CutHold

LEMMA NothingCut ==
    ASSUME NEW rows, NEW n \in 1 .. 17, RowsHold(rows, n), Cutting(n) = "none"
    PROVE  \A r \in rows : Cut(r, Cutting(n), Lost(n, Cutting(n))) = r
<1>1. ASSUME NEW r \in rows PROVE r.table # "none"
  <2>1. r.table \in NamesAt(n)
    BY DEF RowsHold, RowsPlaced
  <2>2. QED
    BY <2>1 DEF NamesAt, Names1
<1>2. QED
  BY <1>1 DEF Cut

\* What a downgrade does to the rows, by the tables and columns it drops.
LEMMA CutByColumns ==
    ASSUME NEW d, IsDatabase(d), NEW e, NEW t, NEW names, e = DropColumns(d, t, names)
    PROVE  CutRows(d.rows, e.rows, {}, t, names)
<1>1. e.rows = {IF r.table = t THEN [r EXCEPT !.vals = Restrict1(@, names)] ELSE r : r \in d.rows}
  BY DEF DropColumns, IsDatabase
<1>2. PICK rows : rows = d.rows
  OBVIOUS
<1>3. {q \in rows : q.table \notin {}} = rows
  OBVIOUS
<1>4. e.rows = {Cut(r, t, names) : r \in rows}
  BY <1>1, <1>2 DEF Cut
<1>5. QED
  BY <1>2, <1>3, <1>4 DEF CutRows

LEMMA CutByTables ==
    ASSUME NEW rows, NEW n \in 1 .. 17, RowsHold(rows, n), Cutting(n) = "none", NEW after,
           after = {r \in rows : r.table \notin Gone(n)}
    PROVE  CutRows(rows, after, Gone(n), Cutting(n), Lost(n, Cutting(n)))
<1>1. PICK some : some = {r \in rows : r.table \notin Gone(n)}
  OBVIOUS
<1>2. \A r \in some : Cut(r, Cutting(n), Lost(n, Cutting(n))) = r
  BY <1>1, NothingCut
<1>3. some = {Cut(r, Cutting(n), Lost(n, Cutting(n))) : r \in some}
  BY <1>2
<1>4. after = {Cut(r, Cutting(n), Lost(n, Cutting(n))) : r \in {q \in rows : q.table \notin Gone(n)}}
  BY <1>1, <1>3
<1>5. QED
  BY <1>4 DEF CutRows

LEMMA DowngradedCuts ==
    ASSUME NEW d, IsDatabase(d), NEW n \in Revisions \ {1}, RowsHold(d.rows, n), NEW e, e = Downgraded(d, n)
    PROVE  CutRows(d.rows, e.rows, Gone(n), Cutting(n), Lost(n, Cutting(n)))
<1>0. n \in {2, 4, 5, 6, 7, 8, 9, 10, 11, 12, 13, 14, 15, 16, 17} /\ n \in 1 .. 17
  BY DEF Revisions, HeadRev
<1>1. CASE n \in {2, 4, 6, 7, 13}
  <2>1. Gone(n) = {}
    BY <1>1 DEF Gone
  <2>2. CASE n = 2
    <3>1. Cutting(n) = "drift_alerts" /\ Lost(n, Cutting(n)) = DriftColumns
      BY <2>2 DEF Cutting, Lost
    <3>2. e = DropColumns(d, "drift_alerts", DriftColumns)
      BY <2>2 DEF Downgraded, Down0002
    <3>3. QED
      BY <2>1, <3>1, <3>2, CutByColumns
  <2>3. CASE n = 4
    <3>1. Cutting(n) = "roles" /\ Lost(n, Cutting(n)) = {"workspace_scoped"}
      BY <2>3 DEF Cutting, Lost
    <3>2. e = DropColumns(d, "roles", {"workspace_scoped"})
      BY <2>3 DEF Downgraded, Down0004
    <3>3. QED
      BY <2>1, <3>1, <3>2, CutByColumns
  <2>4. CASE n = 6
    <3>1. Cutting(n) = "users" /\ Lost(n, Cutting(n)) = {"deleted_at"}
      BY <2>4 DEF Cutting, Lost
    <3>2. e = DropColumns(d, "users", {"deleted_at"})
      BY <2>4 DEF Downgraded, Down0006
    <3>3. QED
      BY <2>1, <3>1, <3>2, CutByColumns
  <2>5. CASE n = 7
    <3>1. Cutting(n) = "users" /\ Lost(n, Cutting(n)) = {"display_name", "avatar_url"}
      BY <2>5 DEF Cutting, Lost
    <3>2. e = DropColumns(d, "users", {"display_name", "avatar_url"})
      BY <2>5 DEF Downgraded, Down0007
    <3>3. QED
      BY <2>1, <3>1, <3>2, CutByColumns
  <2>6. CASE n = 13
    <3>1. Cutting(n) = "chunks" /\ Lost(n, Cutting(n)) = {"workspace_id"}
      BY <2>6 DEF Cutting, Lost
    <3>2. e = DropColumns(d, "chunks", {"workspace_id"})
      BY <2>6 DEF Downgraded, Down0013
    <3>3. QED
      BY <2>1, <3>1, <3>2, CutByColumns
  <2>7. QED
    BY <1>1, <2>2, <2>3, <2>4, <2>5, <2>6
<1>2. CASE n \in {5, 8, 9, 16}
  <2>1. Cutting(n) = "none"
    BY <1>2 DEF Cutting
  <2>2. e = DropTables(d, Gone(n))
    BY <1>2 DEF Downgraded, Down0005, Down0008, Down0009, Down0016, Gone
  <2>3. PICK rows, after : rows = d.rows /\ after = e.rows
    OBVIOUS
  <2>4. after = {r \in rows : r.table \notin Gone(n)}
    BY <2>2, <2>3 DEF DropTables, IsDatabase
  <2>5. RowsHold(rows, n)
    BY <2>3
  <2>6. CutRows(rows, after, Gone(n), Cutting(n), Lost(n, Cutting(n)))
    BY <1>0, <2>1, <2>4, <2>5, CutByTables
  <2>7. QED
    BY <2>3, <2>6
<1>3. CASE n \in {11, 12, 15, 17}
  <2>1. Cutting(n) = "none" /\ Gone(n) = {}
    BY <1>3 DEF Cutting, Gone
  <2>2. e.rows = d.rows
    <3>1. CASE n = 15
      BY <3>1 DEF Downgraded, Down0015, AddColumns, IsDatabase
    <3>2. CASE n # 15
      BY <1>3, <3>2 DEF Downgraded, Down0011, Down0012, Down0017, IsDatabase
    <3>3. QED
      BY <3>1, <3>2
  <2>3. PICK rows, after : rows = d.rows /\ after = e.rows
    OBVIOUS
  <2>4. after = {r \in rows : r.table \notin Gone(n)}
    BY <2>1, <2>2, <2>3
  <2>5. RowsHold(rows, n)
    BY <2>3
  <2>6. CutRows(rows, after, Gone(n), Cutting(n), Lost(n, Cutting(n)))
    BY <1>0, <2>1, <2>4, <2>5, CutByTables
  <2>7. QED
    BY <2>3, <2>6
<1>4. CASE n = 14
  <2>1. PICK f : f = DropColumns(d, "feedbacks",
                                 {"workspace_id", "rating", "attribution_status", "ragas_scores"})
    OBVIOUS
  <2>2. IsDatabase(f)
    BY <2>1 DEF DropColumns, IsDatabase
  <2>3. e = AddColumns(f, "feedbacks", Table({}, {"score"}, {}))
    BY <1>4, <2>1 DEF Downgraded, Down0014
  <2>4. e.rows = f.rows
    BY <2>2, <2>3 DEF AddColumns, IsDatabase
  <2>5. CutRows(d.rows, f.rows, {}, "feedbacks",
                {"workspace_id", "rating", "attribution_status", "ragas_scores"})
    BY <2>1, CutByColumns
  <2>6. Gone(n) = {} /\ Cutting(n) = "feedbacks"
        /\ Lost(n, Cutting(n)) = {"workspace_id", "rating", "attribution_status", "ragas_scores"}
    BY <1>4 DEF Gone, Cutting, Lost
  <2>7. QED
    BY <2>4, <2>5, <2>6
<1>5. CASE n = 10
  <2>1. PICK f, t, names, gone :
            /\ f = DropTables(d, {"ticket_statuses"}) /\ t = "feedback_categories"
            /\ names = {"name_zh", "is_system", "description"} /\ gone = {"ticket_statuses"}
    OBVIOUS
  <2>2. PICK some : some = {q \in d.rows : q.table \notin gone}
    OBVIOUS
  <2>3. IsDatabase(f) /\ f.rows = some
    BY <2>1, <2>2 DEF DropTables, IsDatabase
  <2>4. e = DropColumns(f, t, names)
    BY <1>5, <2>1 DEF Downgraded, Down0010
  <2>5. e.rows = {IF r.table = t THEN [r EXCEPT !.vals = Restrict1(@, names)] ELSE r : r \in f.rows}
    BY <2>3, <2>4 DEF DropColumns, IsDatabase
  <2>6. e.rows = {Cut(r, t, names) : r \in some}
    BY <2>3, <2>5 DEF Cut
  <2>7. Gone(n) = gone /\ Cutting(n) = t /\ Lost(n, Cutting(n)) = names
    BY <1>5, <2>1 DEF Gone, Cutting, Lost
  <2>8. QED
    BY <2>2, <2>6, <2>7 DEF CutRows
<1>6. QED
  BY <1>0, <1>1, <1>2, <1>3, <1>4, <1>5

LEMMA DowngradedRowsHold ==
    ASSUME NEW d, IsDatabase(d), NEW n \in Revisions, RowsHold(d.rows, n), DOMAIN d.tables = NamesAt(n)
    PROVE  RowsHold(Downgraded(d, n).rows, Below(n))
<1>1. CASE n = 1
  <2>1. PICK e : e = Downgraded(d, 1)
    OBVIOUS
  <2>2. e = DropTables(d, DOMAIN d.tables)
    BY <2>1 DEF Downgraded, Down0001
  <2>3. e.rows = {r \in d.rows : r.table \notin DOMAIN d.tables}
    BY <2>2 DEF DropTables, IsDatabase
  <2>4. \A r \in d.rows : r.table \in DOMAIN d.tables
    BY DEF RowsHold, RowsPlaced
  <2>5. e.rows = {} /\ Below(n) = 0
    BY <1>1, <2>3, <2>4 DEF Below
  <2>6. QED
    BY <1>1, <2>1, <2>5, NoRowsHold
<1>2. CASE n # 1
  <2>1. n \in Revisions \ {1} /\ n \in 1 .. 17 /\ Below(n) \in 1 .. 17
    BY <1>2 DEF Revisions, HeadRev, Below
  <2>2. PICK rows, e, after, m : rows = d.rows /\ e = Downgraded(d, n) /\ after = e.rows /\ m = Below(n)
    OBVIOUS
  <2>3. CutRows(d.rows, e.rows, Gone(n), Cutting(n), Lost(n, Cutting(n)))
    BY <2>1, <2>2, DowngradedCuts
  <2>4. CutRows(rows, after, Gone(n), Cutting(n), Lost(n, Cutting(n))) /\ RowsHold(rows, n)
    BY <2>2, <2>3
  <2>5. m \in 1 .. 17
    BY <2>1, <2>2
  <2>6. RowsHold(after, m)
    BY <2>1, <2>2, <2>4, <2>5, BackHolds
  <2>7. QED
    BY <2>2, <2>6
<1>3. QED
  BY <1>1, <1>2

-----------------------------------------------------------------------------
(* A row that is written                                                   *)

LEMMA AsSchemaTables ==
    ASSUME AsSchema, revision # 0
    PROVE  /\ revision \in 1 .. 17 /\ IsDatabase(database)
           /\ database.keys = KeysAt(revision) /\ DOMAIN database.tables = NamesAt(revision)
           /\ \A t \in NamesAt(revision) : DOMAIN database.tables[t] = Columns(revision, t)
<1>1. PICK n, d, e : n = revision /\ d = database /\ e = Schemas[n]
  OBVIOUS
<1>2. n \in 1 .. 17
  BY <1>1 DEF AsSchema, Revisions, HeadRev
<1>3. SameSchema(d, e)
  BY <1>1 DEF AsSchema
<1>4. e.keys = KeysAt(n) /\ AreAt(e.tables, n)
  BY <1>1, <1>2, KeysOfRevisions, TablesOfRevisions
<1>5. d.keys = KeysAt(n) /\ IsDatabase(d)
  BY <1>3, <1>4 DEF SameSchema
<1>6. SameTables(d.tables, e.tables)
  BY <1>3 DEF SameSchema
<1>7. DOMAIN d.tables = NamesAt(n) /\ \A t \in NamesAt(n) : DOMAIN d.tables[t] = Columns(n, t)
  BY <1>4, <1>6 DEF SameTables, AreAt, Columns
<1>8. QED
  BY <1>1, <1>2, <1>5, <1>7

LEMMA NothingFits == ASSUME AsSchema, revision = 0, NEW t PROVE ~Fits(database.tables, t)
<1>1. PICK d, e : d = database /\ e = Schemas[0]
  OBVIOUS
<1>2. SameSchema(d, e)
  BY <1>1 DEF AsSchema
<1>3. DOMAIN e.tables = {}
  BY <1>1, SchemaSteps DEF Nothing0
<1>4. DOMAIN d.tables = {}
  BY <1>2, <1>3 DEF SameSchema, SameTables
<1>5. QED
  BY <1>1, <1>4 DEF Fits

LEMMA WriteRowsHold ==
    ASSUME AsSchema, RowsHold(database.rows, revision), NEW r \in Given, Write(r)
    PROVE  RowsHold(database'.rows, revision')
<1>1. revision # 0
  BY NothingFits DEF Write
<1>2. PICK n, rows, after : n = revision /\ rows = database.rows /\ after = rows \cup {r}
  OBVIOUS
<1>3. /\ n \in 1 .. 17 /\ IsDatabase(database) /\ database.keys = KeysAt(n)
      /\ DOMAIN database.tables = NamesAt(n)
      /\ \A t \in NamesAt(n) : DOMAIN database.tables[t] = Columns(n, t)
  BY <1>1, <1>2, AsSchemaTables
<1>4. database'.rows = after /\ revision' = n
  BY <1>2, <1>3 DEF Write, IsDatabase
<1>5. /\ IsFiniteSet(rows) /\ RowsPlaced(rows, n) /\ RowsUnique(rows) /\ RowsOwned(rows)
      /\ RowsReferred(rows) /\ ChunksAgree(rows) /\ FeedbacksAgree(rows)
  BY <1>2 DEF RowsHold
<1>6. \A q \in rows : ~(q.table = r.table /\ q.id = r.id)
  BY <1>2 DEF Write
<1>7. /\ DOMAIN r = {"table", "id", "vals"} /\ r.table \in NamesAt(n)
      /\ DOMAIN r.vals \subseteq Columns(n, r.table)
  <2>1. DOMAIN r = {"table", "id", "vals"} /\ DOMAIN r.vals \subseteq DOMAIN Models[r.table]
    BY GivenAssumption
  <2>2. r.table \in NamesAt(n) /\ DOMAIN Models[r.table] \subseteq DOMAIN database.tables[r.table]
    BY <1>3 DEF Write, Fits
  <2>3. QED
    BY <1>3, <2>1, <2>2
<1>8. IsFiniteSet(after)
  BY <1>2, <1>5, FS_AddElement
<1>9. RowsPlaced(after, n)
  BY <1>2, <1>5, <1>7 DEF RowsPlaced
<1>10. RowsUnique(after)
  BY <1>2, <1>5, <1>6 DEF RowsUnique
<1>11. RowsOwned(after)
  <2>1. /\ r.table = "chunks" => "document_id" \in DOMAIN r.vals /\ r.vals.document_id # "NULL"
        /\ r.table = "feedbacks" => "message_id" \in DOMAIN r.vals /\ r.vals.message_id # "NULL"
    BY GivenOwned
  <2>2. QED
    BY <1>2, <1>5, <2>1 DEF RowsOwned
<1>12. ASSUME NEW k \in KeysAt(17), k.table = r.table, k.column \in DOMAIN r.vals, r.vals[k.column] # "NULL"
       PROVE  \E p \in rows : Refers(k, r, p)
  <2>1. k.table \in NamesAt(n) /\ k.column \in DOMAIN TableAt(n, k.table)
    BY <1>7, <1>12 DEF Columns
  <2>2. k \in database.keys
    BY <1>3, <2>1, KeysCover
  <2>3. k \in References(database, r)
    BY <1>12, <2>2 DEF References
  <2>4. QED
    BY <1>2, <2>3 DEF Write
<1>13. RowsReferred(after)
  <2>1. ASSUME NEW q \in after, NEW k \in KeysAt(17), k.table = q.table, k.column \in DOMAIN q.vals,
               q.vals[k.column] # "NULL"
        PROVE  \E p \in after : Refers(k, q, p)
    <3>1. CASE q = r
      BY <1>2, <1>12, <2>1, <3>1
    <3>2. CASE q \in rows
      BY <1>2, <1>5, <2>1, <3>2 DEF RowsReferred
    <3>3. QED
      BY <1>2, <3>1, <3>2
  <2>2. QED
    BY <2>1 DEF RowsReferred
<1>14. ChunksAgree(after)
  <2>1. ASSUME NEW q \in after, NEW p \in after, q.table = "chunks", "workspace_id" \in DOMAIN q.vals,
               p.table = "documents", p.id = q.vals.document_id
        PROVE  q.vals.workspace_id = p.vals.workspace_id
    <3>1. p \in Given
      BY <1>11, <2>1 DEF RowsOwned
    <3>2. CASE q = r
      BY <2>1, <3>1, <3>2, GivenAssumption
    <3>3. CASE q \in rows
      <4>1. PICK k \in KeysAt(17) : k.table = "chunks" /\ k.column = "document_id" /\ k.target = "documents"
        BY OwnerKeys
      <4>2. "document_id" \in DOMAIN q.vals /\ q.vals.document_id # "NULL"
        BY <1>5, <2>1, <3>3 DEF RowsOwned
      <4>3. \E x \in rows : Refers(k, q, x)
        BY <1>5, <2>1, <3>3, <4>1, <4>2 DEF RowsReferred
      <4>4. \E x \in rows : x.table = "documents" /\ x.id = q.vals.document_id
        BY <4>1, <4>3 DEF Refers
      <4>5. p # r
        BY <1>6, <2>1, <4>4
      <4>6. p \in rows
        BY <1>2, <4>5
      <4>7. QED
        BY <1>5, <2>1, <3>3, <4>6 DEF ChunksAgree
    <3>4. QED
      BY <1>2, <3>2, <3>3
  <2>2. QED
    BY <2>1 DEF ChunksAgree
<1>15. FeedbacksAgree(after)
  <2>1. ASSUME NEW q \in after, NEW m \in after, NEW c \in after,
               q.table = "feedbacks", "workspace_id" \in DOMAIN q.vals,
               m.table = "messages", m.id = q.vals.message_id,
               c.table = "conversations", c.id = m.vals.conversation_id
        PROVE  q.vals.workspace_id = c.vals.workspace_id
    <3>1. m \in Given /\ c \in Given
      BY <1>11, <2>1 DEF RowsOwned
    <3>2. CASE q = r
      BY <2>1, <3>1, <3>2, GivenAssumption
    <3>3. CASE q \in rows
      <4>1. PICK k \in KeysAt(17) : k.table = "feedbacks" /\ k.column = "message_id" /\ k.target = "messages"
        BY OwnerKeys
      <4>2. "message_id" \in DOMAIN q.vals /\ q.vals.message_id # "NULL"
        BY <1>5, <2>1, <3>3 DEF RowsOwned
      <4>3. \E x \in rows : Refers(k, q, x)
        BY <1>5, <2>1, <3>3, <4>1, <4>2 DEF RowsReferred
      <4>4. \E x \in rows : x.table = "messages" /\ x.id = q.vals.message_id
        BY <4>1, <4>3 DEF Refers
      <4>5. m \in rows
        BY <1>2, <1>6, <2>1, <4>4
      <4>6. PICK l \in KeysAt(17) : l.table = "messages" /\ l.column = "conversation_id"
                                       /\ l.target = "conversations"
        BY OwnerKeys
      <4>7. "conversation_id" \in DOMAIN m.vals /\ m.vals.conversation_id # "NULL"
        BY <2>1, <3>1, GivenOwned
      <4>8. \E x \in rows : Refers(l, m, x)
        BY <1>5, <2>1, <4>5, <4>6, <4>7 DEF RowsReferred
      <4>9. \E x \in rows : x.table = "conversations" /\ x.id = m.vals.conversation_id
        BY <4>6, <4>8 DEF Refers
      <4>10. c \in rows
        BY <1>2, <1>6, <2>1, <4>9
      <4>11. QED
        BY <1>5, <2>1, <3>3, <4>5, <4>10 DEF FeedbacksAgree
    <3>4. QED
      BY <1>2, <3>2, <3>3
  <2>2. QED
    BY <2>1 DEF FeedbacksAgree
<1>16. n # 0
  BY <1>3
<1>17. RowsHold(after, n)
  BY <1>8, <1>9, <1>10, <1>11, <1>13, <1>14, <1>15, <1>16 DEF RowsHold
<1>18. QED
  BY <1>4, <1>17

-----------------------------------------------------------------------------
(* Rows that are deleted.  The closure of Doomed is defined by a recursion *)
(* on sets of rows: the least closed superset is a solution, and whatever  *)
(* the solution, what it yields is closed, by induction on the rows left.  *)

LEMMA CascadeGrows ==
    ASSUME NEW d, NEW x \in SUBSET d.rows, NEW y \in SUBSET d.rows, x \subseteq y
    PROVE  /\ x \subseteq Cascade(d, x) /\ Cascade(d, x) \subseteq d.rows
           /\ Cascade(d, x) \subseteq Cascade(d, y)
  BY DEF Cascade

Closed(d, x) == {y \in SUBSET d.rows : x \subseteq y /\ Cascade(d, y) = y}

Closes(f, d) ==
    f = [gone \in SUBSET d.rows |-> IF Cascade(d, gone) = gone THEN gone ELSE f[Cascade(d, gone)]]

LEMMA ClosureExists == ASSUME NEW d PROVE \E f : Closes(f, d)
<1>1. PICK f : f = [gone \in SUBSET d.rows |-> {r \in d.rows : \A y \in Closed(d, gone) : r \in y}]
  OBVIOUS
<1>2. ASSUME NEW x \in SUBSET d.rows
      PROVE  f[x] = IF Cascade(d, x) = x THEN x ELSE f[Cascade(d, x)]
  <2>1. PICK z : z = Cascade(d, x)
    OBVIOUS
  <2>2. x \subseteq z /\ z \in SUBSET d.rows
    BY <2>1, CascadeGrows
  <2>3. CASE z = x
    <3>1. x \in Closed(d, x) /\ \A y \in Closed(d, x) : x \subseteq y
      BY <2>1, <2>3 DEF Closed
    <3>2. f[x] = {r \in d.rows : \A y \in Closed(d, x) : r \in y}
      BY <1>1
    <3>3. f[x] = x
      BY <3>1, <3>2
    <3>4. QED
      BY <2>1, <2>3, <3>3
  <2>4. CASE z # x
    <3>1. ASSUME NEW y \in Closed(d, x) PROVE y \in Closed(d, z)
      <4>1. y \in SUBSET d.rows /\ x \subseteq y /\ Cascade(d, y) = y
        BY DEF Closed
      <4>2. Cascade(d, x) \subseteq Cascade(d, y)
        BY <4>1, CascadeGrows
      <4>3. QED
        BY <2>1, <4>1, <4>2 DEF Closed
    <3>2. ASSUME NEW y \in Closed(d, z) PROVE y \in Closed(d, x)
      BY <2>2 DEF Closed
    <3>3. Closed(d, x) = Closed(d, z)
      BY <3>1, <3>2
    <3>4. /\ f[x] = {r \in d.rows : \A y \in Closed(d, x) : r \in y}
          /\ f[z] = {r \in d.rows : \A y \in Closed(d, z) : r \in y}
      BY <1>1, <2>2
    <3>5. f[x] = f[z]
      BY <3>3, <3>4
    <3>6. QED
      BY <2>1, <2>4, <3>5
  <2>5. QED
    BY <2>3, <2>4
<1>3. f = [gone \in SUBSET d.rows |-> f[gone]]
  BY <1>1
<1>4. f = [gone \in SUBSET d.rows |-> IF Cascade(d, gone) = gone THEN gone ELSE f[Cascade(d, gone)]]
  BY <1>2, <1>3
<1>5. Closes(f, d)
  BY <1>4 DEF Closes
<1>6. QED
  BY <1>5

LEMMA ClosureCloses ==
    ASSUME NEW d, IsFiniteSet(d.rows), NEW f, Closes(f, d), NEW start \in SUBSET d.rows
    PROVE  f[start] \in SUBSET d.rows /\ Cascade(d, f[start]) = f[start]
<1>1. PICK rows : rows = d.rows
  OBVIOUS
<1> DEFINE Good(x) == f[x] \in SUBSET rows /\ Cascade(d, f[x]) = f[x]
<1>2. ASSUME NEW x \in SUBSET rows
      PROVE  /\ Cascade(d, x) = x => Good(x)
             /\ Cascade(d, x) # x => f[x] = f[Cascade(d, x)]
  <2>1. f[x] = IF Cascade(d, x) = x THEN x ELSE f[Cascade(d, x)]
    BY <1>1 DEF Closes
  <2>2. QED
    BY <2>1
<1>3. ASSUME NEW x \in SUBSET rows, Cascade(d, x) # x PROVE Good(Cascade(d, x)) => Good(x)
  BY <1>2, <1>3
<1> HIDE DEF Good
<1> DEFINE Left(x) == Cardinality(rows \ x)
<1>4. ASSUME NEW x \in SUBSET rows PROVE IsFiniteSet(rows \ x) /\ Left(x) \in Nat
  <2>1. IsFiniteSet(rows \ x)
    BY <1>1, FS_Subset
  <2>2. QED
    BY <2>1, FS_CardinalityType
<1>5. ASSUME NEW x \in SUBSET rows, NEW z, z = Cascade(d, x), z # x
      PROVE  z \in SUBSET rows /\ Left(z) < Left(x)
  <2>1. x \subseteq z /\ z \in SUBSET rows
    BY <1>1, <1>5, CascadeGrows
  <2>2. PICK a, b : a = rows \ x /\ b = rows \ z
    OBVIOUS
  <2>3. IsFiniteSet(a) /\ Left(x) \in Nat /\ Left(z) \in Nat
    BY <1>4, <2>1, <2>2
  <2>4. b \in SUBSET a /\ b # a
    BY <1>5, <2>1, <2>2
  <2>5. Cardinality(b) <= Cardinality(a) /\ (Cardinality(a) = Cardinality(b) => a = b)
    BY <2>3, <2>4, FS_Subset
  <2>6. QED
    BY <2>1, <2>2, <2>3, <2>4, <2>5
<1> HIDE DEF Left
<1> DEFINE T == {n \in Nat : \A x \in SUBSET rows : Left(x) < n => Good(x)}
<1>6. 0 \in T
  <2>1. ASSUME NEW x \in SUBSET rows PROVE ~(Left(x) < 0)
    <3>1. Left(x) \in Nat
      BY <1>4
    <3>2. QED
      BY <3>1
  <2>2. QED
    BY <2>1
<1>7. ASSUME NEW n \in Nat, n \in T PROVE n + 1 \in T
  <2>1. ASSUME NEW x \in SUBSET rows, Left(x) < n + 1 PROVE Good(x)
    <3>1. CASE Cascade(d, x) = x
      BY <1>2, <3>1
    <3>2. CASE Cascade(d, x) # x
      <4>1. PICK z : z = Cascade(d, x)
        OBVIOUS
      <4>2. z \in SUBSET rows /\ Left(z) < Left(x)
        BY <1>5, <3>2, <4>1
      <4>3. Left(z) \in Nat /\ Left(x) \in Nat
        BY <1>4, <4>2
      <4>4. Left(z) < n
        BY <2>1, <4>2, <4>3
      <4>5. Good(z)
        BY <1>7, <4>2, <4>4
      <4>6. QED
        BY <1>3, <3>2, <4>1, <4>5
    <3>3. QED
      BY <3>1, <3>2
  <2>2. n + 1 \in Nat
    OBVIOUS
  <2>3. QED
    BY <2>1, <2>2
<1> HIDE DEF T
<1>8. Nat \subseteq T
  BY <1>6, <1>7, NatSetInduction
<1>9. start \in SUBSET rows /\ Left(start) \in Nat
  BY <1>1, <1>4
<1>10. PICK n \in Nat : n = Left(start)
  BY <1>9
<1>11. n + 1 \in T /\ Left(start) < n + 1
  BY <1>8, <1>10
<1>12. Good(start)
  BY <1>9, <1>11 DEF T
<1>13. QED
  BY <1>1, <1>12 DEF Good

LEMMA DoomedIsClosed ==
    ASSUME NEW d, IsFiniteSet(d.rows), NEW r \in d.rows, NEW gone, gone = Doomed(d, r)
    PROVE  gone \in SUBSET d.rows /\ Cascade(d, gone) = gone
<1> DEFINE closure == CHOOSE f : f = [x \in SUBSET d.rows |->
                          IF Cascade(d, x) = x THEN x ELSE f[Cascade(d, x)]]
<1>1. Closes(closure, d)
  BY ClosureExists DEF Closes
<1>2. gone = closure[{r}]
  BY DEF Doomed
<1> HIDE DEF closure
<1>3. {r} \in SUBSET d.rows
  OBVIOUS
<1>4. closure[{r}] \in SUBSET d.rows /\ Cascade(d, closure[{r}]) = closure[{r}]
  BY <1>1, <1>3, ClosureCloses
<1>5. QED
  BY <1>2, <1>4

\* The rows that refer to a row that goes, by a key that is not deferred to them.
Hit(d, gone, onDelete) ==
    {q \in d.rows \ gone : \E k \in References(d, q) : k.onDelete \in onDelete /\ \E p \in gone : Refers(k, q, p)}

Cleared(d, gone, q) ==
    [q EXCEPT !.vals = [c \in DOMAIN @ |->
        IF \E k \in References(d, q) : k.column = c /\ k.onDelete = "SET NULL" /\ \E p \in gone : Refers(k, q, p)
        THEN "NULL" ELSE @[c]]]

Survivor(d, gone, q) == IF q \in Hit(d, gone, {"SET NULL"}) THEN Cleared(d, gone, q) ELSE q

Goes(gone) ==
    /\ Hit(database, gone, {"RESTRICT", "NO ACTION"}) = {}
    /\ database'.rows = {Survivor(database, gone, q) : q \in database.rows \ gone}
    /\ revision' = revision

LEMMA DeletedRows ==
    ASSUME IsDatabase(database), NEW r \in database.rows, Delete(r), NEW gone, gone = Doomed(database, r)
    PROVE  Goes(gone)
<1>1. Hit(database, Doomed(database, r), {"RESTRICT", "NO ACTION"}) = {} /\ revision' = revision
  BY DEF Delete, Hit
<1>2. database' = [database EXCEPT !.rows =
          {Survivor(database, Doomed(database, r), q) : q \in database.rows \ Doomed(database, r)}]
  BY DEF Delete, Hit, Cleared, Survivor
<1>3. PICK rows : rows = {Survivor(database, Doomed(database, r), q) : q \in database.rows \ Doomed(database, r)}
  OBVIOUS
<1>4. database'.rows = rows
  BY <1>2, <1>3 DEF IsDatabase
<1>5. QED
  BY <1>1, <1>3, <1>4 DEF Goes

\* What becomes of a row that stays.
Survives(d, gone, q, s) ==
    /\ DOMAIN s = {"table", "id", "vals"} /\ s.table = q.table /\ s.id = q.id
    /\ DOMAIN s.vals = DOMAIN q.vals
    /\ \A c \in DOMAIN q.vals :
          \/ s.vals[c] = q.vals[c]
          \/ s.vals[c] = "NULL" /\ \E k \in References(d, q) : k.column = c /\ k.onDelete = "SET NULL"
    /\ (\A k \in References(d, q) : k.onDelete # "SET NULL") => s = q
    /\ \A k \in References(d, q), p \in gone :
          q \notin gone /\ k.onDelete = "SET NULL" /\ Refers(k, q, p) => s.vals[k.column] = "NULL"

LEMMA SurvivorIs ==
    ASSUME NEW d, NEW gone, NEW q \in d.rows, DOMAIN q = {"table", "id", "vals"}, NEW s,
           s = Survivor(d, gone, q)
    PROVE  Survives(d, gone, q, s)
<1>1. PICK vals : vals = [c \in DOMAIN q.vals |->
        IF \E k \in References(d, q) : k.column = c /\ k.onDelete = "SET NULL" /\ \E p \in gone : Refers(k, q, p)
        THEN "NULL" ELSE q.vals[c]]
  OBVIOUS
<1>2. Cleared(d, gone, q) = [q EXCEPT !.vals = vals]
  BY <1>1 DEF Cleared
<1>3. CASE q \notin Hit(d, gone, {"SET NULL"})
  <2>1. s = q
    BY <1>3 DEF Survivor
  <2>2. \A k \in References(d, q), p \in gone :
            ~(q \notin gone /\ k.onDelete = "SET NULL" /\ Refers(k, q, p))
    BY <1>3 DEF Hit
  <2>3. QED
    BY <2>1, <2>2 DEF Survives
<1>4. CASE q \in Hit(d, gone, {"SET NULL"})
  <2>1. s = [q EXCEPT !.vals = vals]
    BY <1>2, <1>4 DEF Survivor
  <2>2. /\ DOMAIN s = {"table", "id", "vals"} /\ s.table = q.table /\ s.id = q.id /\ s.vals = vals
    BY <2>1
  <2>3. \E k \in References(d, q) : k.onDelete = "SET NULL"
    BY <1>4 DEF Hit
  <2>4. \A k \in References(d, q) : k.column \in DOMAIN q.vals
    BY DEF References
  <2>5. /\ DOMAIN vals = DOMAIN q.vals
        /\ \A c \in DOMAIN q.vals :
              \/ vals[c] = q.vals[c]
              \/ vals[c] = "NULL" /\ \E k \in References(d, q) : k.column = c /\ k.onDelete = "SET NULL"
    BY <1>1
  <2>6. ASSUME NEW k \in References(d, q), NEW p \in gone, k.onDelete = "SET NULL", Refers(k, q, p)
        PROVE  vals[k.column] = "NULL"
    BY <1>1, <2>4, <2>6
  <2>7. QED
    BY <2>2, <2>3, <2>5, <2>6 DEF Survives
<1>5. QED
  BY <1>3, <1>4

LEMMA DeleteRowsHold ==
    ASSUME AsSchema, RowsHold(database.rows, revision), NEW r \in database.rows, Delete(r)
    PROVE  RowsHold(database'.rows, revision')
<1>1. revision # 0
  BY DEF RowsHold
<1>2. PICK n, d, rows, after, gone, some, g :
          /\ n = revision /\ d = database /\ rows = d.rows /\ after = database'.rows
          /\ gone = Doomed(database, r) /\ some = rows \ gone
          /\ g = [q \in some |-> Survivor(d, gone, q)]
  OBVIOUS
<1>3. n \in 1 .. 17 /\ IsDatabase(d) /\ d.keys = KeysAt(n)
  BY <1>1, <1>2, AsSchemaTables
<1>4. /\ IsFiniteSet(rows) /\ RowsPlaced(rows, n) /\ RowsUnique(rows) /\ RowsOwned(rows)
      /\ RowsReferred(rows) /\ ChunksAgree(rows) /\ FeedbacksAgree(rows)
  BY <1>2 DEF RowsHold
<1>5. gone \in SUBSET rows /\ Cascade(d, gone) = gone
  BY <1>2, <1>4, DoomedIsClosed
<1>6. /\ Hit(d, gone, {"RESTRICT", "NO ACTION"}) = {} /\ revision' = n
      /\ after = {Survivor(d, gone, q) : q \in rows \ gone}
  <2>1. IsDatabase(database) /\ gone = Doomed(database, r)
    BY <1>2, <1>3
  <2>2. Goes(gone)
    BY <2>1, DeletedRows
  <2>3. QED
    BY <1>2, <2>2 DEF Goes
<1>7. after = {g[q] : q \in some} /\ some \subseteq rows
  BY <1>2, <1>6
<1>8. ASSUME NEW q \in some
      PROVE  /\ q \in rows /\ q \notin gone /\ DOMAIN q = {"table", "id", "vals"}
             /\ g[q] = Survivor(d, gone, q)
  BY <1>2, <1>4, <1>7 DEF RowsPlaced
<1>9. ASSUME NEW q \in some PROVE Survives(d, gone, q, g[q])
  BY <1>2, <1>8, SurvivorIs
<1>10. KeysAt(n) \subseteq KeysAt(17)
  BY <1>3 DEF KeysAt
<1>11. ASSUME NEW q \in some, NEW k \in References(d, q)
       PROVE  k \in KeysAt(17) /\ k.table = q.table /\ Ordinary(k)
  <2>1. k \in d.keys /\ k.table = q.table
    BY DEF References
  <2>2. k \in KeysAt(17)
    BY <1>3, <1>10, <2>1
  <2>3. QED
    BY <2>1, <2>2, KeysAreOrdinary
<1>12. ASSUME NEW q \in some, q.table \in {"documents", "conversations", "messages", "chunks"}
       PROVE  g[q] = q
  <2>1. \A k \in References(d, q) : k.onDelete # "SET NULL"
    BY <1>11, <1>12 DEF Ordinary
  <2>2. QED
    BY <1>9, <2>1 DEF Survives
<1>13. ASSUME NEW q \in some, q.table = "feedbacks", NEW c \in {"message_id", "workspace_id"},
              c \in DOMAIN q.vals
       PROVE  g[q].vals[c] = q.vals[c]
  <2>1. ~\E k \in References(d, q) : k.column = c /\ k.onDelete = "SET NULL"
    BY <1>11, <1>13 DEF Ordinary
  <2>2. Survives(d, gone, q, g[q])
    BY <1>9
  <2>3. QED
    BY <1>13, <2>1, <2>2 DEF Survives
<1>14. ImagesPlaced(some, g, n)
  BY <1>4, <1>8, <1>9 DEF ImagesPlaced, RowsPlaced, Survives
<1>15. ImagesOwned(some, g)
  <2>1. \A q \in some : /\ q.table = "chunks" => "document_id" \in DOMAIN q.vals
                        /\ q.table = "feedbacks" => "message_id" \in DOMAIN q.vals
    BY <1>4, <1>8 DEF RowsOwned
  <2>2. QED
    BY <1>9, <1>12, <1>13, <2>1 DEF ImagesOwned, Survives
<1>16. ImagesReferred(some, g)
  <2>1. ASSUME NEW q \in some, NEW k \in KeysAt(17), k.table = q.table, k.column \in DOMAIN g[q].vals,
               g[q].vals[k.column] # "NULL"
        PROVE  \E p \in some : p.table = k.target /\ p.id = g[q].vals[k.column]
    <3>1. k.column \in DOMAIN q.vals /\ g[q].vals[k.column] = q.vals[k.column]
      <4>1. Survives(d, gone, q, g[q])
        BY <1>9
      <4>2. QED
        BY <2>1, <4>1 DEF Survives
    <3>2. PICK p \in rows : Refers(k, q, p)
      BY <1>4, <1>8, <2>1, <3>1 DEF RowsReferred
    <3>3. k \in References(d, q)
      <4>1. q.table \in NamesAt(n) /\ DOMAIN q.vals \subseteq Columns(n, q.table)
        BY <1>4, <1>8 DEF RowsPlaced
      <4>2. k.table \in NamesAt(n) /\ k.column \in DOMAIN TableAt(n, k.table)
        BY <2>1, <3>1, <4>1 DEF Columns
      <4>3. k \in KeysAt(n)
        BY <1>3, <4>2, KeysCover
      <4>4. QED
        BY <1>3, <2>1, <3>1, <4>3 DEF References
    <3>4. p \notin gone
      <4>1. SUFFICES ASSUME p \in gone PROVE FALSE
        OBVIOUS
      <4>2. k.onDelete # "SET NULL"
        <5>1. Survives(d, gone, q, g[q]) /\ q \notin gone
          BY <1>8, <1>9
        <5>2. QED
          BY <2>1, <3>2, <3>3, <4>1, <5>1 DEF Survives
      <4>3. k.onDelete # "CASCADE"
        BY <1>2, <1>5, <1>8, <3>2, <3>3, <4>1 DEF Cascade
      <4>4. k.onDelete \notin {"RESTRICT", "NO ACTION"}
        BY <1>2, <1>6, <1>8, <3>2, <3>3, <4>1 DEF Hit
      <4>5. Ordinary(k)
        BY KeysAreOrdinary
      <4>6. QED
        BY <4>2, <4>3, <4>4, <4>5 DEF Ordinary
    <3>5. QED
      BY <1>2, <3>1, <3>2, <3>4 DEF Refers
  <2>2. QED
    BY <2>1 DEF ImagesReferred
<1>17. ImagesAgree(some, g)
  <2>1. \A q \in some : q.table = "feedbacks" /\ "workspace_id" \in DOMAIN g[q].vals =>
            "workspace_id" \in DOMAIN q.vals /\ g[q].vals.workspace_id = q.vals.workspace_id
    BY <1>9, <1>13 DEF Survives
  <2>2. QED
    BY <1>4, <1>7, <1>12, <2>1 DEF ImagesAgree, ChunksAgree, FeedbacksAgree
<1>18. Images(rows, some, g, n, after)
  BY <1>7, <1>14, <1>15, <1>16, <1>17 DEF Images
<1>19. RowsHold(rows, n)
  BY <1>2
<1>20. RowsHold(after, n)
  BY <1>3, <1>18, <1>19, ImagesOfRows
<1>21. QED
  BY <1>2, <1>6, <1>20

-----------------------------------------------------------------------------
(* The rows, in every step                                                 *)

\* The rows that the migrations themselves insert.
LEMMA SchemasRowsHold == \A n \in 0 .. 17 : RowsHold(Schemas[n].rows, n)
<1> DEFINE T == {n \in 0 .. 17 : RowsHold(Schemas[n].rows, n)}
<1>1. 0 \in T
  <2>1. Schemas[0].rows = {}
    BY SchemaSteps DEF Nothing0
  <2>2. QED
    BY <2>1, NoRowsHold
<1>2. ASSUME NEW n \in 1 .. 17, n - 1 \in T PROVE n \in T
  <2>1. PICK m : m = n - 1
    OBVIOUS
  <2>2. m \in 0 .. 16 /\ RowsHold(Schemas[m].rows, m) /\ IsDatabase(Schemas[m])
    BY <1>2, <2>1, SchemaSteps
  <2>3. CASE n = 3
    <3>1. m = 2 /\ Schemas[3] = Schemas[2]
      BY <2>1, <2>3, SchemaSteps
    <3>2. RowsHold(Schemas[2].rows, 3)
      BY <2>2, <3>1, RowsStayUpwards
    <3>3. QED
      BY <2>3, <3>1, <3>2
  <2>4. CASE n # 3
    <3>1. n \in Revisions
      BY <2>4 DEF Revisions, HeadRev
    <3>2. Schemas[n] = Upgraded(Schemas[m], n)
      BY <2>1, <3>1, SchemaSteps
    <3>3. RowsHold(Schemas[m].rows, Below(n))
      <4>1. CASE n # 4
        BY <2>1, <2>2, <4>1 DEF Below
      <4>2. CASE n = 4
        <5>1. Schemas[m] = Schemas[2] /\ Below(n) = 2
          BY <2>1, <4>2, SchemaSteps DEF Below
        <5>2. RowsHold(Schemas[2].rows, 2)
          <6>1. Schemas[1].rows = {} /\ Schemas[2].rows = {}
            <7>1. Schemas[0].rows = {} /\ IsDatabase(Schemas[0]) /\ IsDatabase(Schemas[1])
              BY SchemaSteps DEF Nothing0
            <7>2. Schemas[1] = Upgraded(Schemas[0], 1) /\ Schemas[2] = Upgraded(Schemas[1], 2)
              BY SchemaSteps DEF Revisions, HeadRev
            <7>3. 1 \in Revisions \ {5, 13, 14} /\ 2 \in Revisions \ {5, 13, 14}
              BY DEF Revisions, HeadRev
            <7>4. QED
              BY <7>1, <7>2, <7>3, UpgradedSameRows
          <6>2. QED
            BY <6>1, NoRowsHold
        <5>3. QED
          BY <5>1, <5>2
      <4>3. QED
        BY <4>1, <4>2
    <3>4. RowsHold(Upgraded(Schemas[m], n).rows, n)
      BY <2>2, <3>1, <3>3, UpgradedRowsHold
    <3>5. QED
      BY <3>2, <3>4
  <2>5. QED
    BY <2>3, <2>4
<1> HIDE DEF T
<1>3. 17 \in Nat /\ \A n \in 1 .. 17 : n - 1 \in T => n \in T
  BY <1>2
<1>4. 0 .. 17 \subseteq T
  BY <1>1, <1>3, UpToInduction
<1>5. QED
  BY <1>4 DEF T

SchemaRowsInv == AsSchema /\ RowsHold(database.rows, revision)

LEMMA StartsWithRows == SchemaInit => SchemaRowsInv
<1>1. SUFFICES ASSUME SchemaInit PROVE RowsHold(database.rows, revision)
  BY StartsAsSchema DEF SchemaRowsInv
<1>2. revision \in 0 .. 17 /\ database = Schemas[revision]
  BY <1>1 DEF SchemaInit, Schema
<1>3. QED
  BY <1>2, SchemasRowsHold

LEMMA UpgradeRowsHold ==
    ASSUME AsSchema, RowsHold(database.rows, revision), Upgrade
    PROVE  RowsHold(database'.rows, revision')
<1>1. PICK n, d : n = Above(revision) /\ d = database
  OBVIOUS
<1>2. revision \in Revisions \cup {0} /\ revision < 17 /\ IsDatabase(d)
  BY <1>1 DEF AsSchema, SameSchema, Upgrade, HeadRev
<1>3. n \in Revisions /\ Below(n) = revision
  BY <1>1, <1>2 DEF Above, Below, Revisions, HeadRev
<1>4. RowsHold(d.rows, Below(n))
  BY <1>1, <1>3
<1>5. RowsHold(Upgraded(d, n).rows, n)
  BY <1>2, <1>3, <1>4, UpgradedRowsHold
<1>6. database' = Upgraded(d, n) /\ revision' = n
  BY <1>1 DEF Upgrade
<1>7. QED
  BY <1>5, <1>6

LEMMA DowngradeRowsHold ==
    ASSUME AsSchema, RowsHold(database.rows, revision), Downgrade
    PROVE  RowsHold(database'.rows, revision')
<1>1. PICK n, d : n = revision /\ d = database
  OBVIOUS
<1>2. n \in Revisions /\ revision # 0
  BY <1>1 DEF AsSchema, Downgrade, Revisions
<1>3. IsDatabase(d) /\ DOMAIN d.tables = NamesAt(n)
  BY <1>1, <1>2, AsSchemaTables
<1>4. RowsHold(d.rows, n)
  BY <1>1
<1>5. RowsHold(Downgraded(d, n).rows, Below(n))
  BY <1>2, <1>3, <1>4, DowngradedRowsHold
<1>6. database' = Downgraded(d, n) /\ revision' = Below(n)
  BY <1>1 DEF Downgrade
<1>7. QED
  BY <1>5, <1>6

LEMMA StepsKeepRows == SchemaRowsInv /\ [SchemaNext]_schemaVars => SchemaRowsInv'
<1>1. SUFFICES ASSUME AsSchema, RowsHold(database.rows, revision), [SchemaNext]_schemaVars
               PROVE  RowsHold(database'.rows, revision')
  BY StepsAsSchema DEF SchemaRowsInv
<1>2. CASE UNCHANGED schemaVars
  BY <1>1, <1>2 DEF schemaVars
<1>3. CASE SchemaNext
  BY <1>1, <1>3, UpgradeRowsHold, DowngradeRowsHold, WriteRowsHold, DeleteRowsHold DEF SchemaNext
<1>4. QED
  BY <1>1, <1>2, <1>3

LEMMA RowsHoldRefer == ASSUME RowsHold(database.rows, revision) PROVE RowsReferToRows
<1>1. RowsReferred(database.rows)
  BY DEF RowsHold
<1>2. Schema(HeadRev).keys = KeysAt(17)
  BY KeysOfRevisions DEF Schema, HeadRev
<1>3. Key("chunks", "document_id", "documents", "CASCADE") \in KeysAt(17)
  <2>1. Key("chunks", "document_id", "documents", "CASCADE") \in CorpusKeys
    BY Zenon DEF CorpusKeys
  <2>2. CorpusKeys \subseteq Keys1 /\ Keys1 \subseteq KeysAt(17)
    BY DEF Keys1, KeysAt
  <2>3. QED
    BY <2>1, <2>2
<1>4. QED
  BY <1>1, <1>2, <1>3 DEF RowsReferToRows, RowsReferred

LEMMA RowsHoldAgree == ASSUME RowsHold(database.rows, revision) PROVE BackfillsAgree
<1>1. /\ RowsUnique(database.rows) /\ RowsOwned(database.rows) /\ RowsReferred(database.rows)
      /\ ChunksAgree(database.rows) /\ FeedbacksAgree(database.rows)
  BY DEF RowsHold
<1>2. ASSUME NEW r \in database.rows, "workspace_id" \in DOMAIN r.vals, r.table = "chunks"
      PROVE  r.vals.workspace_id = Row(database, "documents", r.vals.document_id).vals.workspace_id
  <2>1. PICK p : p = Row(database, "documents", r.vals.document_id)
    OBVIOUS
  <2>2. p \in database.rows /\ p.table = "documents" /\ p.id = r.vals.document_id
    BY <1>1, <1>2, <2>1, ChunkOwned
  <2>3. r.vals.workspace_id = p.vals.workspace_id
    BY <1>1, <1>2, <2>2 DEF ChunksAgree
  <2>4. QED
    BY <2>1, <2>3
<1>3. ASSUME NEW r \in database.rows, "workspace_id" \in DOMAIN r.vals, r.table = "feedbacks"
      PROVE  r.vals.workspace_id =
               Row(database, "conversations",
                   Row(database, "messages", r.vals.message_id).vals.conversation_id).vals.workspace_id
  <2>1. PICK m : m = Row(database, "messages", r.vals.message_id)
    OBVIOUS
  <2>2. PICK c : c = Row(database, "conversations", m.vals.conversation_id)
    OBVIOUS
  <2>3. /\ m \in database.rows /\ m.table = "messages" /\ m.id = r.vals.message_id
        /\ c \in database.rows /\ c.table = "conversations" /\ c.id = m.vals.conversation_id
    BY <1>1, <1>3, <2>1, <2>2, FeedbackOwned
  <2>4. r.vals.workspace_id = c.vals.workspace_id
    BY <1>1, <1>3, <2>3 DEF FeedbacksAgree
  <2>5. QED
    BY <2>1, <2>2, <2>4
<1>4. QED
  BY <1>2, <1>3 DEF BackfillsAgree

LEMMA RowsInvIsSound == SchemaRowsInv => SchemaSound
  BY AsSchemaIsSchema, AsSchemaFits, RowsHoldRefer, RowsHoldAgree DEF SchemaRowsInv, SchemaSound

\* Whatever sequence of upgrades, downgrades, writes and deletions leads to it, the schema
\* is that of its revision, the models fit it at the head, every reference has its row, and
\* the backfills of 0013 and 0014 have put old rows where new ones are put.
THEOREM SchemasStaySound == SchemaSpec => []SchemaSound
<1>1. SchemaSpec => []SchemaRowsInv
  BY StartsWithRows, StepsKeepRows, PTL DEF SchemaSpec
<1>2. QED
  BY <1>1, RowsInvIsSound, PTL

LEMMA RowsInvIsTyped ==
    ASSUME SchemaRowsInv
    PROVE  /\ revision \in Revisions \cup {0}
           /\ database.actions \in {Whitelist8, AuditActions}
           /\ database.rules \subseteq {"no_delete", "no_update", "orphan_safety", OnePerPair}
           /\ \A k \in database.keys : k.table \in DOMAIN database.tables /\ k.target \in DOMAIN database.tables
           /\ \A r \in database.rows : r.table \in DOMAIN database.tables
<1>1. PICK n, d, e : n = revision /\ d = database /\ e = Schemas[n]
  OBVIOUS
<1>2. SameSchema(d, e) /\ n \in Revisions \cup {0} /\ RowsHold(d.rows, n)
  BY <1>1 DEF SchemaRowsInv, AsSchema
<1>3. n \in 0 .. 17
  BY <1>2 DEF Revisions, HeadRev
<1>4. d.actions = ActionsAt(n) /\ d.rules = RulesIn(n)
  BY <1>1, <1>2, <1>3, RulesOfRevisions DEF SameSchema
<1>5. d.actions \in {Whitelist8, AuditActions} /\ d.rules \subseteq {"no_delete", "no_update", "orphan_safety", OnePerPair}
  BY <1>4 DEF ActionsAt, RulesIn, AppendOnly
<1>6. CASE n = 0
  <2>1. d.rows = {}
    BY <1>2, <1>6 DEF RowsHold
  <2>2. d.keys = {}
    BY <1>1, <1>2, <1>6, SchemaSteps DEF SameSchema, Nothing0
  <2>3. QED
    BY <1>1, <1>2, <1>5, <2>1, <2>2
<1>7. CASE n # 0
  <2>1. n \in 1 .. 17 /\ d.keys = KeysAt(n) /\ DOMAIN d.tables = NamesAt(n)
    BY <1>1, <1>7, AsSchemaTables DEF SchemaRowsInv
  <2>2. \A k \in KeysAt(n) : k.table \in NamesAt(n) /\ k.target \in NamesAt(n)
    BY <2>1, KeysOfTables
  <2>3. \A r \in d.rows : r.table \in NamesAt(n)
    BY <1>2 DEF RowsHold, RowsPlaced
  <2>4. QED
    BY <1>1, <1>2, <1>5, <2>1, <2>2, <2>3
<1>8. QED
  BY <1>6, <1>7

\* Type correctness of the schema: keys and rows are of tables that there are.
THEOREM SchemaStaysTyped == SchemaSpec => []SchemaTypeOK
<1> DEFINE Counted == deletes \in 0 .. MaxDeletes
<1>1. SchemaInit => Counted
  BY MaxDeletesAssumption DEF SchemaInit
<1>2. Counted /\ [SchemaNext]_schemaVars => Counted'
  <2> SUFFICES ASSUME Counted, [SchemaNext]_schemaVars
               PROVE Counted'
    OBVIOUS
  <2>1. CASE Upgrade
    BY <2>1 DEF Upgrade
  <2>2. CASE Downgrade
    BY <2>2 DEF Downgrade
  <2>3. ASSUME NEW r \in Given, Write(r) PROVE Counted'
    BY <2>3 DEF Write
  <2>4. ASSUME NEW r \in database.rows, Delete(r) PROVE Counted'
    <3>1. deletes < MaxDeletes /\ deletes' = deletes + 1
      BY <2>4 DEF Delete
    <3>2. QED
      BY <3>1, MaxDeletesAssumption
  <2>5. CASE UNCHANGED schemaVars
    BY <2>5 DEF schemaVars
  <2>6. QED
    BY <2>1, <2>2, <2>3, <2>4, <2>5 DEF SchemaNext
<1>3. SchemaRowsInv /\ Counted => SchemaTypeOK
  BY RowsInvIsTyped DEF SchemaTypeOK
<1> HIDE DEF Counted
<1>4. QED
  BY <1>1, <1>2, <1>3, StartsWithRows, StepsKeepRows, PTL DEF SchemaSpec
=============================================================================
