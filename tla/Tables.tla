------------------------------- MODULE Tables -------------------------------
(***************************************************************************)
(* A database table as a function from the primary keys of its stored rows *)
(* to the rows.  Inserting extends the domain, deleting shrinks it.         *)
(***************************************************************************)
EXTENDS TLAPS

\* table's keys are taken from Keys and its rows from Rows.
IsTable(table, Keys, Rows) ==
    /\ DOMAIN table \subseteq Keys
    /\ table \in [DOMAIN table -> Rows]

\* The table before its first insert.
Empty == [k \in {} |-> {}]

\* INSERT (or replace) the row stored under k.
Put(table, k, row) ==
    [x \in DOMAIN table \cup {k} |-> IF x = k THEN row ELSE table[x]]

\* DELETE every row whose key is in K.
Drop(table, K) == [x \in DOMAIN table \ K |-> table[x]]

-----------------------------------------------------------------------------
\* Storing a row under a key keeps a table a table (every INSERT).
LEMMA PutTable ==
    ASSUME NEW Keys, NEW Rows, NEW table, IsTable(table, Keys, Rows),
           NEW k, k \in Keys, NEW row, row \in Rows
    PROVE  /\ IsTable(Put(table, k, row), Keys, Rows)
           /\ DOMAIN Put(table, k, row) = DOMAIN table \cup {k}
           /\ Put(table, k, row)[k] = row
           /\ \A x \in DOMAIN table \ {k} : Put(table, k, row)[x] = table[x]
  BY DEF IsTable, Put

\* Deleting rows keeps the others as they are (every DELETE).
LEMMA DropTable ==
    ASSUME NEW Keys, NEW Rows, NEW table, IsTable(table, Keys, Rows), NEW K
    PROVE  /\ IsTable(Drop(table, K), Keys, Rows)
           /\ DOMAIN Drop(table, K) = DOMAIN table \ K
           /\ \A x \in DOMAIN table \ K : Drop(table, K)[x] = table[x]
  BY DEF IsTable, Drop
=============================================================================
