----------------------------- MODULE JournalFile -----------------------------
(***************************************************************************)
(* The file under a journal: append_events and transact_events of          *)
(* RunJournal, and transact of CampaignJournal, which follows the same     *)
(* steps (run/journal.py, providers/campaign_journal.py).                  *)
(*                                                                         *)
(* events.jsonl is a sequence of lines and a tail without newline.  A      *)
(* record is written in parts, the newline being the last, because a write *)
(* may be cut short; a line that is not exactly the parts of one record    *)
(* does not decode.  Processes may die at any point, which releases the    *)
(* lock.  After a power loss the file is one of the images it had since    *)
(* the last fsync: the file system keeps the order of the operations.      *)
(* A record names its batch, the position it was made for, and its         *)
(* predecessor (previous_record_digest).                                   *)
(***************************************************************************)
EXTENDS Integers, Sequences

CONSTANTS
  Processes,
  Batches,         \* identifiers of event groups, drawn by uuid4
  Appends,         \* the batches their callers make; transact makes the others
  Anchor,          \* run_journal_anchor: the digest before the first record
  Nobody,          \* the lock is free
  Parts,           \* the writes of a record, the newline last
  MaxDeaths,       \* bound on deaths and failed calls of processes
  MaxLosses        \* bound on power losses

ASSUME FileAssumption ==
  /\ Parts \in Nat \ {0}
  /\ MaxDeaths \in Nat /\ MaxLosses \in Nat
  /\ Appends \subseteq Batches
  /\ Nobody \notin Processes /\ Anchor \notin Batches

VARIABLES
  file,       \* what the processes see
  images,     \* what the disk may hold
  lock,       \* holder of the exclusive flock
  call,       \* the call of every process
  made,       \* for every batch the position its events were made for, 0 before
  acked,      \* batches whose writing commit returned
  deaths, losses

vars == <<file, images, lock, call, made, acked, deaths, losses>>

Garbage == [batch |-> Anchor, at |-> 0, prev |-> Anchor]

Call(pc, b, n) == [pc |-> pc, batch |-> b, written |-> n]

Idle == Call("idle", Anchor, 0)

EmptyFile == [lines |-> << >>, tail |-> << >>]

Init ==
  /\ file = EmptyFile
  /\ images = {EmptyFile}
  /\ lock = Nobody
  /\ call = [p \in Processes |-> Idle]
  /\ made = [b \in Batches |-> 0]
  /\ acked = {}
  /\ deaths = 0 /\ losses = 0

At(p, pc) == call[p].pc = pc

(* _decode_durable_prefix *)
HeadDigest(lines) == IF lines = << >> THEN Anchor ELSE lines[Len(lines)].batch

Decodes(lines) ==
  \A i \in 1..Len(lines) :
    /\ lines[i] # Garbage
    /\ lines[i].prev = IF i = 1 THEN Anchor ELSE lines[i - 1].batch

Committed(lines) == {lines[i].batch : i \in 1..Len(lines)}

Become(p, c) == call' = [call EXCEPT ![p] = c]

Goto(p, pc) == Become(p, Call(pc, call[p].batch, call[p].written))

Return(p) ==
  /\ Become(p, Idle)
  /\ lock' = Nobody

(* A caller makes events for the end of the journal it last read, or lets  *)
(* transact make them; or it retries an append with the same events.       *)
CallAppend(p, b) ==
  /\ At(p, "idle")
  /\ b \in Appends /\ made[b] = 0 /\ lock = Nobody
  /\ made' = [made EXCEPT ![b] = Len(file.lines) + 1]
  /\ Become(p, Call("open", b, 0))
  /\ UNCHANGED <<file, images, lock, acked, deaths, losses>>

RetryAppend(p, b) ==
  /\ At(p, "idle")
  /\ b \in Appends /\ made[b] # 0 /\ \A q \in Processes : call[q].batch # b
  /\ b \notin acked
  /\ Become(p, Call("open", b, 0))
  /\ UNCHANGED <<file, images, lock, made, acked, deaths, losses>>

CallTransact(p, b) ==
  /\ At(p, "idle")
  /\ b \notin Appends /\ made[b] = 0 /\ \A q \in Processes : call[q].batch # b
  /\ Become(p, Call("open", b, 0))
  /\ UNCHANGED <<file, images, lock, made, acked, deaths, losses>>

(* Faulty variant: the lock is shared. *)
LockShared(p) ==
  /\ At(p, "open")
  /\ lock' = p
  /\ Goto(p, IF file.tail = << >> THEN "check" ELSE "truncate")
  /\ UNCHANGED <<file, images, made, acked, deaths, losses>>

(* Faulty variant: a torn tail is left where it is. *)
LockOnly(p) ==
  /\ At(p, "open")
  /\ lock = Nobody
  /\ lock' = p
  /\ Goto(p, "check")
  /\ UNCHANGED <<file, images, made, acked, deaths, losses>>

Lock(p) ==
  /\ At(p, "open")
  /\ lock = Nobody
  /\ lock' = p
  /\ Goto(p, IF file.tail = << >> THEN "check" ELSE "truncate")
  /\ UNCHANGED <<file, images, made, acked, deaths, losses>>

Truncate(p) ==
  /\ At(p, "truncate") /\ Decodes(file.lines)
  /\ file' = [lines |-> file.lines, tail |-> << >>]
  /\ images' = images \cup {file'}
  /\ Goto(p, "sync_truncation")
  /\ UNCHANGED <<lock, made, acked, deaths, losses>>

SyncTruncation(p) ==
  /\ At(p, "sync_truncation")
  /\ images' = {file}
  /\ Goto(p, "check")
  /\ UNCHANGED <<file, lock, made, acked, deaths, losses>>

(* The checks of append_events and transact_events.  A journal that does   *)
(* not decode, and a transition that replay refuses, end the call.         *)
Refuse(p) ==
  /\ At(p, "check") \/ (At(p, "truncate") /\ ~Decodes(file.lines))
  /\ Return(p)
  /\ UNCHANGED <<file, images, made, acked, deaths, losses>>

(* The events are there: the call returns the state without writing, and   *)
(* without syncing what another call may have written but not synced, so   *)
(* this return adds nothing to acked.                                      *)
AlreadyCommitted(p) ==
  LET b == call[p].batch
  IN /\ At(p, "check") /\ Decodes(file.lines)
     /\ b \in Committed(file.lines) /\ b \in Appends
     /\ Return(p)
     /\ UNCHANGED <<file, images, made, acked, deaths, losses>>

(* Faulty variant: events are written wherever the journal has got to. *)
AdmitAnywhere(p) ==
  LET b == call[p].batch
  IN /\ At(p, "check") /\ Decodes(file.lines)
     /\ b \notin Committed(file.lines)
     /\ made' = [made EXCEPT ![b] = IF b \in Appends THEN @ ELSE Len(file.lines) + 1]
     /\ Goto(p, "write")
     /\ UNCHANGED <<file, images, lock, acked, deaths, losses>>

Admit(p) ==
  LET b == call[p].batch
  IN /\ At(p, "check") /\ Decodes(file.lines)
     /\ b \notin Committed(file.lines)
     /\ b \in Appends => made[b] = Len(file.lines) + 1
     /\ made' = [made EXCEPT ![b] = Len(file.lines) + 1]
     /\ Goto(p, "write")
     /\ UNCHANGED <<file, images, lock, acked, deaths, losses>>

(* _write_all_fd: the newline turns the tail into a line.                  *)
Cell(b, n) == [batch |-> b, part |-> n]

LineOf(f, tail, b) ==
  IF tail = [n \in 1..Parts |-> Cell(b, n)]
  THEN [batch |-> b, at |-> made[b], prev |-> HeadDigest(f.lines)]
  ELSE Garbage

Written(f, b, n) ==
  LET tail == Append(f.tail, Cell(b, n))
  IN IF n < Parts THEN [lines |-> f.lines, tail |-> tail]
     ELSE [lines |-> Append(f.lines, LineOf(f, tail, b)), tail |-> << >>]

WritePart(p) ==
  LET n == call[p].written + 1
  IN /\ At(p, "write")
     /\ file' = Written(file, call[p].batch, n)
     /\ images' = images \cup {file'}
     /\ Become(p, Call(IF n = Parts THEN "sync" ELSE "write", call[p].batch, n))
     /\ UNCHANGED <<lock, made, acked, deaths, losses>>

(* Faulty variant: the call returns before the record is on the disk. *)
SyncLater(p) ==
  /\ At(p, "sync")
  /\ acked' = acked \cup {call[p].batch}
  /\ Return(p)
  /\ UNCHANGED <<file, images, made, deaths, losses>>

Sync(p) ==
  /\ At(p, "sync")
  /\ images' = {file}
  /\ acked' = acked \cup {call[p].batch}
  /\ Return(p)
  /\ UNCHANGED <<file, made, deaths, losses>>

(* The process dies, or a write or an fsync raises: the descriptor is      *)
(* closed and the lock with it.                                            *)
Die(p) ==
  /\ ~At(p, "idle")
  /\ deaths < MaxDeaths
  /\ deaths' = deaths + 1
  /\ Become(p, Idle)
  /\ lock' = IF lock = p THEN Nobody ELSE lock
  /\ UNCHANGED <<file, images, made, acked, losses>>

PowerLoss ==
  /\ losses < MaxLosses
  /\ losses' = losses + 1
  /\ \E m \in images : file' = m /\ images' = {m}
  /\ call' = [q \in Processes |-> Idle]
  /\ lock' = Nobody
  /\ UNCHANGED <<made, acked, deaths>>

Next ==
  \/ \E p \in Processes : \E b \in Batches :
       CallAppend(p, b) \/ RetryAppend(p, b) \/ CallTransact(p, b)
  \/ \E p \in Processes :
       \/ Lock(p) \/ Truncate(p) \/ SyncTruncation(p)
       \/ Refuse(p) \/ AlreadyCommitted(p) \/ Admit(p)
       \/ WritePart(p) \/ Sync(p) \/ Die(p)
  \/ PowerLoss

Spec == Init /\ [][Next]_vars

(* ------------------------------------------------------------------------ *)
(* Properties                                                               *)
(* ------------------------------------------------------------------------ *)

Records == [batch : Batches \cup {Anchor}, at : Nat, prev : Batches \cup {Anchor}]
Cells == [batch : Batches, part : 1..Parts]
Files == [lines : Seq(Records), tail : Seq(Cells)]
PCs == {"idle", "open", "truncate", "sync_truncation", "check", "write", "sync"}
Calls == [pc : PCs, batch : Batches \cup {Anchor}, written : 0..Parts]

(* Every variable has its type, the disk may hold what the processes see,  *)
(* and whoever is past opening the file holds its lock.                    *)
TypeOK ==
  /\ file \in Files /\ file \in images
  /\ \A m \in images : m \in Files
  /\ lock \in Processes \cup {Nobody}
  /\ call \in [Processes -> Calls]
  /\ made \in [Batches -> Nat]
  /\ acked \subseteq Batches
  /\ deaths \in 0..MaxDeaths /\ losses \in 0..MaxLosses
  /\ \A p \in Processes : call[p].pc \in {"idle", "open"} <=> lock # p

(* The journal always decodes, whoever died while writing it: a torn tail  *)
(* never becomes part of a line and the digests form a chain               *)
(* (_decode_durable_prefix raises no JournalCorruption).                   *)
AlwaysDecodes == Decodes(file.lines) /\ \A m \in images : Decodes(m.lines)

(* A record stands at the position its events were made for, although its  *)
(* caller may have read the journal long before it got the lock            *)
(* ("event sequence does not own its journal position").                   *)
OwnsItsPosition ==
  \A i \in 1..Len(file.lines) :
    file.lines[i] # Garbage => file.lines[i].at = i /\ made[file.lines[i].batch] = i

(* Seen through its lines, the file is the append-only log of AppendLog.   *)
LogOf(lines) == [i \in 1..Len(lines) |-> lines[i].batch]

Abstract == INSTANCE AppendLog WITH log <- LogOf(file.lines), acked <- acked

AbstractSpec == Abstract!Spec
=============================================================================
