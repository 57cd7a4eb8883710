------------------------------ MODULE AppendLog ------------------------------
(***************************************************************************)
(* What a journal promises its callers (the docstrings of RunJournal and   *)
(* CampaignJournal): a log of batches that only grows at its end, in which *)
(* a batch appears once, and of which no failure of a process or of the    *)
(* machine takes away a batch whose commit was acknowledged.               *)
(***************************************************************************)
EXTENDS Integers, Sequences

CONSTANT Batches    \* groups of events that are committed together

VARIABLES
  log,       \* the committed batches, oldest first
  acked      \* the batches whose commit has returned to its caller

vars == <<log, acked>>

Range(s) == {s[i] : i \in 1..Len(s)}

Init == log = << >> /\ acked = {}

Commit(b) ==
  /\ b \notin Range(log)
  /\ log' = Append(log, b)
  /\ UNCHANGED acked

Acknowledge(b) ==
  /\ b \in Range(log)
  /\ acked' = acked \cup {b}
  /\ UNCHANGED log

(* A power loss takes away batches from the end that nobody was told of.   *)
Lose(n) ==
  /\ n \in 0..Len(log)
  /\ \A i \in (n + 1)..Len(log) : log[i] \notin acked
  /\ log' = SubSeq(log, 1, n)
  /\ UNCHANGED acked

Next ==
  \/ \E b \in Batches : Commit(b) \/ Acknowledge(b)
  \/ \E n \in 0..Len(log) : Lose(n)

Spec == Init /\ [][Next]_vars
=============================================================================
