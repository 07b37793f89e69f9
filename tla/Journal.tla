------------------------------ MODULE Journal ------------------------------
(***************************************************************************)
(* What the store promises of its event journal, whatever the backend, the *)
(* failures of its statements and the crashes of the daemon: the durable   *)
(* events only ever grow, every growth is one whole commit, and a commit   *)
(* lies after everything recorded before it, so that a cursor taken from   *)
(* the journal never misses a durable event.                               *)
(***************************************************************************)
EXTENDS Integers

CONSTANT Record
VARIABLE log

\* A commit: all its records come after the records of the commits before.
Extend ==
  /\ log \subseteq log' /\ log' \subseteq Record
  /\ \A old \in log, new \in log' \ log : old.seq < new.seq
  /\ \A a, b \in log' \ log : a.seq = b.seq => a = b

JournalSpec == log = {} /\ [][Extend]_log
=============================================================================
