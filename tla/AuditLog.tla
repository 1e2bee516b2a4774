------------------------------- MODULE AuditLog -------------------------------
(***************************************************************************)
(* What the audit trail of one organisation promises: a list of entries,   *)
(* numbered from 1 without gap or repetition, to which writers append at   *)
(* the end and nothing else ever happens (README: "SHA-256 hash-chained,   *)
(* append-only").  AuditChain is shown to implement it when every writer   *)
(* holds the organisation row.                                             *)
(***************************************************************************)
EXTENDS Naturals

CONSTANT Entries    \* the values an entry may take

VARIABLE log        \* log[n] is the entry with sequence number n

Init == log = << >>

(* One entry goes to the end of the log. *)
Append(x) ==
  LET last == IF DOMAIN log = {} THEN 0
              ELSE CHOOSE n \in DOMAIN log : \A m \in DOMAIN log : m <= n
  IN  log' = [n \in 1..(last + 1) |-> IF n \in DOMAIN log THEN log[n] ELSE x]

Next == \E x \in Entries : Append(x)

Spec == Init /\ [][Next]_log
===============================================================================
