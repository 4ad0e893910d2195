------------------------------ MODULE AuditLog ------------------------------
(***************************************************************************)
(* What the ledger promises to the services that write to it, without the  *)
(* lock, the files or the hashes: a log that only ever grows, and answers  *)
(* that are each given once, for an entry that is already in the log.      *)
(***************************************************************************)
EXTENDS Naturals, Sequences

VARIABLES log, answered

vars == <<log, answered>>

Grows == /\ Len(log) < Len(log')
         /\ \A i \in 1..Len(log) : log'[i] = log[i]

Init == log = <<>> /\ answered = {}

\* One write may commit entries that earlier failed writes left behind.
Commit == Grows /\ UNCHANGED answered

Answer == /\ \E i \in 1..Len(log) :
                 /\ log[i] \notin answered
                 /\ answered' = answered \cup {log[i]}
          /\ UNCHANGED log

Next == Commit \/ Answer

Spec == Init /\ [][Next]_vars

=============================================================================
