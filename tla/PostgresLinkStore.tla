------------------------- MODULE PostgresLinkStore -------------------------
(***************************************************************************)
(* Table links and the statements of                                       *)
(* src/src/store/postgres-link-store.ts that create rows.  Each operator   *)
(* is one SQL statement, so one atomic step of PostgreSQL.  Rows are       *)
(* never deleted or given another target.                                  *)
(***************************************************************************)
EXTENDS Link

VARIABLE links   \* the row of each code, or Nil

PostgresTypeOK == links \in [Codes -> PendingLink \union {Nil}]

PostgresInit == links = [c \in Codes |-> Nil]

\* The table's CHECK refuses a target longer than 2048 characters.
TargetLengthOK(input) == input.target \notin LongTargets

\* create: INSERT ... ON CONFLICT (code) DO NOTHING.
InsertRow(l) == links' = IF links[l.code] = Nil THEN [links EXCEPT ![l.code] = l] ELSE links

\* insertPendingBatch keeps the first entry of each code.
FirstOccurrences(entries) ==
    {entries[i] : i \in {i \in DOMAIN entries :
        /\ ParsePendingLink(entries[i])
        /\ \A j \in 1..(i - 1) : ParsePendingLink(entries[j]) => entries[j].code # entries[i].code}}

\* The INSERT of insertPendingBatch and the codes it RETURNs.
Inserted(batch) == {l \in batch : links[l.code] = Nil}

InsertRows(batch) ==
    links' = [c \in Codes |->
        IF \E l \in Inserted(batch) : l.code = c
        THEN CHOOSE l \in Inserted(batch) : l.code = c
        ELSE links[c]]

\* The lookup of insertPendingBatch: a row with the same target and creation
\* instant is this entry inserted by an earlier attempt.
IsReplay(l) ==
    /\ links[l.code] # Nil
    /\ links[l.code].target = l.target
    /\ links[l.code].created = l.created
=============================================================================
