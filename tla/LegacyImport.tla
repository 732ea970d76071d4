---------------------------- MODULE LegacyImport ----------------------------
(***************************************************************************)
(* What start-up does to the database: the tables are created, the old log *)
(* sent.json is imported if there are no messages yet, and renamed.  Any   *)
(* step may be the last one of the process.                                *)
(*                                                                         *)
(* Source: store/db.js.                                                    *)
(***************************************************************************)
EXTENDS Naturals

CONSTANT LegacyIds   \* the ids of the entries of sent.json that have one

VARIABLES
    boot,   \* how far start-up is
    file,   \* sent.json, "imported" once it is renamed
    table   \* ids of the rows of sent_messages

importVars == <<boot, file, table>>

Unreadable == {"none", "broken", "useless", "imported"}

ImportTypeOK ==
    /\ boot \in {"down", "opened", "importing", "stored", "serving"}
    /\ file \in Unreadable \union {"unbindable", "good"}

ImportInit ==
    /\ boot = "down" /\ table = {}
    /\ file \in {"none", "broken", "useless", "unbindable", "good"}

\* The schema, and the columns later versions added.
OpenDb == boot = "down" /\ boot' = "opened" /\ UNCHANGED <<file, table>>

\* Rows, no file, no JSON, no array or an empty one: nothing to import.
LookForLog ==
    /\ boot = "opened"
    /\ boot' = IF table # {} \/ file \in Unreadable THEN "serving" ELSE "importing"
    /\ UNCHANGED <<file, table>>

\* Mutant: the rows are inserted one by one, not in a transaction.
ImportAll_RowByRow ==
    /\ boot = "importing" /\ file = "good"
    /\ \E e \in LegacyIds \ table : table' = table \union {e}
    /\ boot' = IF LegacyIds \subseteq table' THEN "stored" ELSE boot
    /\ UNCHANGED file

\* The transaction; an id that is there already is ignored, an entry without
\* one skipped.
ImportAll ==
    /\ boot = "importing" /\ file = "good"
    /\ table' = table \union LegacyIds
    /\ boot' = "stored"
    /\ UNCHANGED file

\* A value SQLite cannot bind rolls it back and ends the process.
ImportThrows ==
    /\ boot = "importing" /\ file = "unbindable"
    /\ boot' = "down"
    /\ UNCHANGED <<file, table>>

Rename ==
    /\ boot = "stored"
    /\ \/ file' = "imported" /\ boot' = "serving"
       \/ boot' = "down" /\ UNCHANGED file
    /\ UNCHANGED table

\* The process dies.
Stop == boot # "down" /\ boot' = "down" /\ UNCHANGED <<file, table>>

\* An operator repairs the file.
Repair ==
    /\ boot = "down" /\ file \in {"broken", "unbindable"}
    /\ file' = "good"
    /\ UNCHANGED <<boot, table>>

BootStep == OpenDb \/ LookForLog \/ ImportAll \/ ImportThrows \/ Rename

-----------------------------------------------------------------------------
\* Wherever start-up was interrupted, the old log is in the table as a whole or
\* not at all, and as a whole once its file is renamed (db.js:67-69, "Runs only
\* when the table is empty; the file is renamed afterwards").
ImportWhole ==
    LegacyIds \intersect table # {} \/ file = "imported" => LegacyIds \subseteq table
=============================================================================
