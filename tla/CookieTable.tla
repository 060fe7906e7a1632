---------------------------- MODULE CookieTable ----------------------------
(***************************************************************************)
(* What a persistent cookie store promises: the operations a program       *)
(* submits reach the table on disk in the order they were submitted, and   *)
(* those of a batch all at once; an operation is lost, alone or with its   *)
(* batch, only when the store has failed or the process dies; a store that *)
(* was closed has none left.                                               *)
(***************************************************************************)
EXTENDS Naturals, Sequences

CONSTANTS
  Cookies,     \* cookies, named by their creation time (the primary key)
  Times,       \* last-access times
  Absent       \* no row

VARIABLES
  table,       \* on disk: the last-access time of a cookie's row, or Absent
  queue,       \* operations submitted and not settled yet
  healthy,     \* nothing keeps this process from using the file
  closed       \* the database of this process has been closed

vars == <<table, queue, healthy, closed>>

Ops == [op : {"add", "access", "delete"}, cookie : Cookies, time : Times]

\* An operation whose statement failed.
Nothing == [op |-> "none"]

\* What one operation does to a table; UPDATE touches no row that is absent.
Effect(t, o) ==
  CASE o.op = "add"    -> [t EXCEPT ![o.cookie] = o.time]
    [] o.op = "delete" -> [t EXCEPT ![o.cookie] = Absent]
    [] o.op = "access" -> [t EXCEPT ![o.cookie] = IF @ = Absent THEN @ ELSE o.time]
    [] o.op = "none"   -> t

Applied(t, ops) ==
  LET after[n \in 0 .. Len(ops)] == IF n = 0 THEN t ELSE Effect(after[n - 1], ops[n])
  IN  after[Len(ops)]

\* The operations, but for those of which the statement failed.
Without(ops, failed) == [i \in DOMAIN ops |-> IF i \in failed THEN Nothing ELSE ops[i]]

Init ==
  /\ table \in [Cookies -> Times \cup {Absent}]
  /\ queue = <<>>
  /\ healthy \in BOOLEAN
  /\ closed = FALSE

Submit ==
  /\ ~closed
  /\ \E o \in Ops : queue' = Append(queue, o)
  /\ UNCHANGED <<table, healthy, closed>>

\* A prefix of the queue becomes durable at once; after a failure nothing of it, or
\* all but some of its operations.
Settle ==
  \E n \in 1..Len(queue) :
    /\ queue' = SubSeq(queue, n + 1, Len(queue))
    /\ \/ table' = Applied(table, SubSeq(queue, 1, n)) /\ UNCHANGED healthy
       \/ /\ ~healthy'
          /\ \/ table' = table
             \/ \E failed \in SUBSET (1..n) :
                  table' = Applied(table, Without(SubSeq(queue, 1, n), failed))
  /\ UNCHANGED closed

\* Rows leave the table by themselves when the session they belong to is over
\* (its cookies, or the origins kept for it), or when the table is damaged.
Purge ==
  /\ \A c \in Cookies : table'[c] \in {table[c], Absent}
  /\ healthy' \in {healthy, FALSE}
  /\ UNCHANGED <<queue, closed>>

Close ==
  /\ queue = <<>>
  /\ closed' = TRUE
  /\ \A c \in Cookies : table'[c] \in {table[c], Absent}
  /\ healthy' \in {healthy, FALSE}
  /\ UNCHANGED queue

\* The process ends, orderly or not, and another one starts on the same file.
Restart ==
  /\ queue' = <<>>
  /\ healthy' \in BOOLEAN
  /\ closed' = FALSE
  /\ UNCHANGED table

Next == Submit \/ Settle \/ Purge \/ Close \/ Restart

Spec == Init /\ [][Next]_vars
=============================================================================
