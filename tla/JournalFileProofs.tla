-------------------------- MODULE JournalFileProofs --------------------------
(***************************************************************************)
(* The file of JournalFile always decodes, holds every record at its own   *)
(* position, and implements the append-only log, for any number of         *)
(* processes, batches, parts of a record, deaths and power losses.         *)
(***************************************************************************)
EXTENDS JournalFile, TLAPS

(* A line that decodes, at the position its events were made for.          *)
GoodLine(lines, i, m) ==
  /\ lines[i].batch \in Batches
  /\ lines[i].at = i
  /\ m[lines[i].batch] = i
  /\ lines[i].prev = IF i = 1 THEN Anchor ELSE lines[i - 1].batch

Good(lines, m) == \A i \in 1..Len(lines) : GoodLine(lines, i, m)

Prefix(short, long) ==
  /\ Len(short) <= Len(long)
  /\ \A i \in 1..Len(short) : short[i] = long[i]

(* What a call knows about the file while it holds the lock.               *)
Holding(c, f, m) ==
  /\ c.pc # "idle" => c.batch \in Batches
  /\ c.pc \in {"sync_truncation", "check"} => f.tail = << >>
  /\ c.pc \in {"idle", "open", "truncate", "sync_truncation", "check"} => c.written = 0
  /\ c.pc = "write" =>
       /\ c.written < Parts
       /\ f.tail = [n \in 1..c.written |-> Cell(c.batch, n)]
       /\ c.batch \notin Committed(f.lines)
       /\ m[c.batch] = Len(f.lines) + 1
  /\ c.pc = "sync" =>
       /\ f.tail = << >>
       /\ c.batch \in Committed(f.lines)

OnDisk == \A m \in images : Prefix(m.lines, file.lines) /\ acked \subseteq Committed(m.lines)

(* The inductive invariant.  The chain and the positions alone are not     *)
(* inductive: what a writer appends depends on the tail it left behind and *)
(* on nobody having moved the end of the file since it was checked.        *)
Inv ==
  /\ TypeOK
  /\ Good(file.lines, made)
  /\ OnDisk
  /\ \A p \in Processes : Holding(call[p], file, made)

LEMMA InitInv == Init => Inv
  <1> SUFFICES ASSUME Init PROVE Inv
    OBVIOUS
  <1> USE FileAssumption DEF Init, EmptyFile, Idle, Call
  <1>1. TypeOK
    BY DEF TypeOK, Files, Records, Cells, Calls, PCs
  <1>2. Good(file.lines, made)
    BY DEF Good
  <1>3. OnDisk
    BY DEF OnDisk, Prefix, Committed
  <1>4. ASSUME NEW p \in Processes PROVE Holding(call[p], file, made)
    BY DEF Holding
  <1> QED BY <1>1, <1>2, <1>3, <1>4 DEF Inv

(* A process that does not hold the lock is bound to nothing in the file.  *)
LEMMA OthersHold ==
  ASSUME Inv, NEW q \in Processes, lock # q, NEW f, NEW m
  PROVE  Holding(call[q], f, m)
  BY DEF Inv, TypeOK, Holding

(* Giving a position to a batch that is not in the lines leaves them good. *)
LEMMA GoodUnderNewPosition ==
  ASSUME NEW lines \in Seq(Records), NEW m \in [Batches -> Nat], NEW b \in Batches, NEW n \in Nat,
         Good(lines, m), b \notin Committed(lines)
  PROVE  Good(lines, [m EXCEPT ![b] = n])
  <1> SUFFICES ASSUME NEW i \in 1..Len(lines)
               PROVE  GoodLine(lines, i, [m EXCEPT ![b] = n])
    BY DEF Good
  <1>1. GoodLine(lines, i, m)
    BY DEF Good
  <1>2. lines[i].batch # b
    BY DEF Committed
  <1> QED BY <1>1, <1>2 DEF GoodLine

(* A batch without position is not in good lines.                          *)
LEMMA UnmadeIsAbsent ==
  ASSUME NEW lines \in Seq(Records), NEW m, NEW b \in Batches, Good(lines, m), m[b] = 0
  PROVE  b \notin Committed(lines)
  BY DEF Good, GoodLine, Committed

(* One process changes its call; the others keep theirs.                   *)
LEMMA BecomeType ==
  ASSUME TypeOK, NEW p \in Processes, NEW c \in Calls, Become(p, c)
  PROVE  /\ call' \in [Processes -> Calls]
         /\ call'[p] = c
         /\ \A q \in Processes \ {p} : call'[q] = call[q]
  BY DEF TypeOK, Become

LEMMA CallType ==
  ASSUME NEW pc \in PCs, NEW b \in Batches \cup {Anchor}, NEW n \in 0..Parts
  PROVE  /\ Call(pc, b, n) \in Calls
         /\ Call(pc, b, n).pc = pc /\ Call(pc, b, n).batch = b /\ Call(pc, b, n).written = n
  BY DEF Call, Calls

(* The part of the type invariant that is about neither calls nor lock.    *)
DataOK ==
  /\ file \in Files /\ file \in images
  /\ \A m \in images : m \in Files
  /\ made \in [Batches -> Nat]
  /\ acked \subseteq Batches
  /\ deaths \in 0..MaxDeaths /\ losses \in 0..MaxLosses

(* The shape of every step of a process p: its call becomes c, the lock    *)
(* changes hands with nobody else, and whoever changes the file or a       *)
(* position leaves no other holder.                                        *)
StepOf(p, c) ==
  /\ Become(p, c)
  /\ lock' \in Processes \cup {Nobody}
  /\ c.pc \in {"idle", "open"} <=> lock' # p
  /\ \A q \in Processes \ {p} : lock' # q <=> lock # q
  /\ UNCHANGED <<file, made>> \/ \A q \in Processes \ {p} : lock # q

LEMMA StepInv ==
  ASSUME Inv, NEW p \in Processes, NEW c \in Calls, StepOf(p, c), DataOK',
         Good(file'.lines, made'), OnDisk', Holding(c, file', made')
  PROVE  Inv'
  <1>1. TypeOK
    BY DEF Inv
  <1>2. call' \in [Processes -> Calls] /\ call'[p] = c /\ \A q \in Processes \ {p} : call'[q] = call[q]
    BY <1>1, BecomeType DEF StepOf
  <1>3. TypeOK'
    BY <1>1, <1>2 DEF TypeOK, DataOK, StepOf
  <1>4. ASSUME NEW q \in Processes PROVE Holding(call[q], file, made)'
    <2>1. CASE q = p
      BY <2>1, <1>2
    <2>2. CASE q # p /\ UNCHANGED <<file, made>>
      BY <2>2, <1>2 DEF Inv
    <2>3. CASE q # p /\ lock # q
      <3>1. Holding(call[q], file', made')
        BY <2>3, OthersHold
      <3> QED BY <2>3, <3>1, <1>2
    <2> QED BY <2>1, <2>2, <2>3 DEF StepOf
  <1> QED BY <1>3, <1>4 DEF Inv

(* What the invariant says, in the words the steps below need.             *)
LEMMA Facts ==
  ASSUME Inv
  PROVE  /\ TypeOK /\ DataOK /\ OnDisk /\ Good(file.lines, made)
         /\ file.lines \in Seq(Records) /\ file.tail \in Seq(Cells)
         /\ \A p \in Processes : call[p] \in Calls /\ Holding(call[p], file, made)
         /\ \A p \in Processes : call[p].pc \in PCs /\ call[p].batch \in Batches \cup {Anchor}
                                  /\ call[p].written \in 0..Parts
  BY DEF Inv, TypeOK, DataOK, Files, Calls

LEMMA GotoType ==
  ASSUME Inv, NEW p \in Processes, NEW pc \in PCs
  PROVE  LET c == Call(pc, call[p].batch, call[p].written)
         IN /\ c \in Calls
            /\ c.pc = pc /\ c.batch = call[p].batch /\ c.written = call[p].written
  <1>1. call[p].batch \in Batches \cup {Anchor} /\ call[p].written \in 0..Parts
    BY Facts
  <1> QED BY <1>1, CallType

LEMMA CallAppendInv ==
  ASSUME Inv, NEW p \in Processes, NEW b \in Batches, CallAppend(p, b)
  PROVE  Inv'
  <1> DEFINE c == Call("open", b, 0)
  <1> USE DEF CallAppend, At
  <1>a. c \in Calls /\ c.pc = "open" /\ c.batch = b /\ c.written = 0
    BY CallType, FileAssumption DEF PCs
  <1>b. Become(p, c)
    OBVIOUS
  <1> HIDE DEF c
  <1>1. StepOf(p, c)
    BY <1>a, <1>b, FileAssumption DEF StepOf
  <1>2. DataOK'
    BY Facts DEF DataOK
  <1>3. Good(file'.lines, made')
    <2>1. b \notin Committed(file.lines)
      BY Facts, UnmadeIsAbsent
    <2>2. Len(file.lines) + 1 \in Nat /\ made \in [Batches -> Nat]
      BY Facts DEF DataOK
    <2> QED BY <2>1, <2>2, Facts, GoodUnderNewPosition
  <1>4. OnDisk'
    BY Facts DEF OnDisk
  <1>5. Holding(c, file', made')
    BY <1>a DEF Holding
  <1> QED BY <1>a, <1>1, <1>2, <1>3, <1>4, <1>5, StepInv

(* The other two ways to start a call change nothing but the call.         *)
LEMMA StartCallInv ==
  ASSUME Inv, NEW p \in Processes, NEW b \in Batches,
         RetryAppend(p, b) \/ CallTransact(p, b)
  PROVE  Inv'
  <1> DEFINE c == Call("open", b, 0)
  <1> USE DEF RetryAppend, CallTransact, At
  <1>a. c \in Calls /\ c.pc = "open" /\ c.batch = b /\ c.written = 0
    BY CallType, FileAssumption DEF PCs
  <1>b. Become(p, c)
    OBVIOUS
  <1> HIDE DEF c
  <1>1. StepOf(p, c)
    <2>1. lock # p /\ lock \in Processes \cup {Nobody}
      BY Facts DEF TypeOK
    <2>2. UNCHANGED <<lock, file, made>>
      OBVIOUS
    <2> QED BY <1>a, <1>b, <2>1, <2>2 DEF StepOf
  <1>2. DataOK' /\ Good(file'.lines, made') /\ OnDisk'
    BY Facts DEF DataOK, OnDisk
  <1>3. Holding(c, file', made')
    BY <1>a DEF Holding
  <1> QED BY <1>a, <1>1, <1>2, <1>3, StepInv

LEMMA LockInv ==
  ASSUME Inv, NEW p \in Processes, Lock(p)
  PROVE  Inv'
  <1> DEFINE pc == IF file.tail = << >> THEN "check" ELSE "truncate"
             c == Call(pc, call[p].batch, call[p].written)
  <1>a. c \in Calls /\ c.pc = pc /\ c.batch = call[p].batch /\ c.written = call[p].written
    <2>1. pc \in PCs
      BY DEF PCs
    <2> HIDE DEF pc
    <2> QED BY <2>1, GotoType
  <1>b. Become(p, c)
    BY DEF Lock, Goto
  <1> HIDE DEF c
  <1>1. StepOf(p, c)
    BY <1>a, <1>b, Facts, FileAssumption DEF StepOf, TypeOK, Lock
  <1>2. DataOK' /\ Good(file'.lines, made') /\ OnDisk'
    BY Facts DEF DataOK, OnDisk, Lock
  <1>3. Holding(c, file', made')
    BY <1>a, Facts DEF Holding, Lock, At
  <1> QED BY <1>a, <1>1, <1>2, <1>3, StepInv

(* Lines that the file and all its images share stay on the disk.          *)
LEMMA SameLines ==
  ASSUME Inv, file'.lines = file.lines, file' \in Files, acked' = acked,
         images' \subseteq images \cup {file'}
  PROVE  OnDisk'
  <1>1. Prefix(file.lines, file.lines)
    BY DEF Prefix, Inv, TypeOK, Files
  <1>2. acked \subseteq Committed(file.lines)
    BY DEF Inv, OnDisk, TypeOK
  <1>3. SUFFICES ASSUME NEW m \in images'
                 PROVE  Prefix(m.lines, file.lines) /\ acked \subseteq Committed(m.lines)
    BY DEF OnDisk
  <1>4. CASE m \in images
    BY <1>4 DEF Inv, OnDisk
  <1>5. CASE m = file'
    BY <1>5, <1>1, <1>2
  <1> QED BY <1>4, <1>5

(* Cutting the tail off changes no line.                                   *)
LEMMA TruncateInv ==
  ASSUME Inv, NEW p \in Processes, Truncate(p)
  PROVE  Inv'
  <1> DEFINE c == Call("sync_truncation", call[p].batch, call[p].written)
  <1>a. c \in Calls /\ c.pc = "sync_truncation" /\ c.batch = call[p].batch /\ c.written = call[p].written
    BY GotoType DEF PCs
  <1>b. Become(p, c)
    BY DEF Truncate, Goto
  <1> HIDE DEF c
  <1>c. lock = p
    BY Facts DEF TypeOK, Truncate, At
  <1>d. file'.lines = file.lines /\ file'.tail = << >> /\ file' \in Files
    BY Facts DEF Truncate, Files
  <1>1. StepOf(p, c)
    BY <1>a, <1>b, <1>c, Facts DEF StepOf, TypeOK, Truncate
  <1>2. DataOK'
    BY <1>d, Facts DEF DataOK, Truncate
  <1>3. Good(file'.lines, made')
    BY <1>d, Facts DEF Truncate
  <1>4. OnDisk'
    BY <1>d, SameLines DEF Truncate
  <1>5. Holding(c, file', made')
    BY <1>a, <1>d, Facts DEF Holding, Truncate, At
  <1> QED BY <1>a, <1>1, <1>2, <1>3, <1>4, <1>5, StepInv

LEMMA SyncTruncationInv ==
  ASSUME Inv, NEW p \in Processes, SyncTruncation(p)
  PROVE  Inv'
  <1> DEFINE c == Call("check", call[p].batch, call[p].written)
  <1>a. c \in Calls /\ c.pc = "check" /\ c.batch = call[p].batch /\ c.written = call[p].written
    BY GotoType DEF PCs
  <1>b. Become(p, c)
    BY DEF SyncTruncation, Goto
  <1> HIDE DEF c
  <1>c. lock = p
    BY Facts DEF TypeOK, SyncTruncation, At
  <1>1. StepOf(p, c)
    BY <1>a, <1>b, <1>c, Facts DEF StepOf, TypeOK, SyncTruncation
  <1>2. DataOK' /\ Good(file'.lines, made')
    BY Facts DEF DataOK, SyncTruncation
  <1>3. OnDisk'
    BY Facts, SameLines DEF SyncTruncation, DataOK
  <1>4. Holding(c, file', made')
    BY <1>a, Facts DEF Holding, SyncTruncation, At
  <1> QED BY <1>a, <1>1, <1>2, <1>3, <1>4, StepInv

(* A call that ends without touching the file.                             *)
LEMMA IdleType == Idle \in Calls /\ Idle.pc = "idle" /\ Idle.written = 0
  BY CallType, FileAssumption DEF Idle, PCs

LEMMA ReturnInv ==
  ASSUME Inv, NEW p \in Processes, Refuse(p) \/ AlreadyCommitted(p)
  PROVE  Inv'
  <1>a. Become(p, Idle) /\ lock' = Nobody /\ UNCHANGED <<file, images, made, acked>>
    BY DEF Refuse, AlreadyCommitted, Return
  <1>b. lock = p
    BY Facts DEF TypeOK, Refuse, AlreadyCommitted, At
  <1>1. StepOf(p, Idle)
    BY <1>a, <1>b, IdleType, FileAssumption DEF StepOf
  <1>2. DataOK'
    BY Facts, FileAssumption DEF DataOK, Refuse, AlreadyCommitted
  <1>3. Good(file'.lines, made') /\ OnDisk'
    BY <1>a, Facts DEF OnDisk
  <1>4. Holding(Idle, file', made')
    BY IdleType DEF Holding
  <1> QED BY IdleType, <1>1, <1>2, <1>3, <1>4, StepInv

LEMMA DieInv ==
  ASSUME Inv, NEW p \in Processes, Die(p)
  PROVE  Inv'
  <1>1. StepOf(p, Idle)
    BY IdleType, Facts, FileAssumption DEF StepOf, TypeOK, Die
  <1>2. DataOK'
    BY Facts, FileAssumption DEF DataOK, Die
  <1>3. Good(file'.lines, made') /\ OnDisk'
    BY Facts DEF OnDisk, Die
  <1>4. Holding(Idle, file', made')
    BY IdleType DEF Holding
  <1> QED BY IdleType, <1>1, <1>2, <1>3, <1>4, StepInv

LEMMA AdmitInv ==
  ASSUME Inv, NEW p \in Processes, Admit(p)
  PROVE  Inv'
  <1> DEFINE b == call[p].batch
             c == Call("write", b, call[p].written)
  <1>a. c \in Calls /\ c.pc = "write" /\ c.batch = b /\ c.written = call[p].written
    BY GotoType DEF PCs
  <1>b. Become(p, c)
    BY DEF Admit, Goto
  <1> HIDE DEF c
  <1>c. lock = p /\ b \in Batches /\ call[p].written = 0 /\ file.tail = << >>
    BY Facts DEF TypeOK, Admit, At, Holding
  <1>d. Len(file.lines) + 1 \in Nat /\ made \in [Batches -> Nat]
    BY Facts DEF DataOK
  <1>e. made' = [made EXCEPT ![b] = Len(file.lines) + 1] /\ UNCHANGED <<file, images, lock, acked>>
    BY DEF Admit
  <1>1. StepOf(p, c)
    BY <1>a, <1>b, <1>c, <1>e DEF StepOf
  <1>2. DataOK'
    BY <1>d, Facts DEF DataOK, Admit
  <1>3. Good(file'.lines, made')
    <2>1. b \notin Committed(file.lines)
      BY DEF Admit
    <2> QED BY <1>c, <1>d, <1>e, <2>1, Facts, GoodUnderNewPosition
  <1>4. OnDisk'
    BY <1>e, Facts DEF OnDisk
  <1>5. Holding(c, file', made')
    <2>1. file.tail = [n \in 1..c.written |-> Cell(c.batch, n)]
      BY <1>a, <1>c
    <2> QED BY <1>a, <1>c, <1>d, <1>e, <2>1, FileAssumption DEF Holding, Admit
  <1> QED BY <1>a, <1>1, <1>2, <1>3, <1>4, <1>5, StepInv

(* A part that is not the newline only lengthens the tail.                 *)
LEMMA WriteTailInv ==
  ASSUME Inv, NEW p \in Processes, WritePart(p), call[p].written + 1 < Parts
  PROVE  Inv'
  <1> DEFINE b == call[p].batch
             n == call[p].written + 1
             c == Call("write", b, n)
             tail == Append(file.tail, Cell(b, n))
  <1>a. lock = p /\ b \in Batches /\ n \in 1..Parts /\ n # Parts
    <2>1. call[p].written \in 0..Parts
      BY Facts
    <2>2. lock = p /\ b \in Batches
      BY Facts DEF TypeOK, WritePart, At, Holding
    <2> QED BY <2>1, <2>2, FileAssumption
  <1>b. c \in Calls /\ c.pc = "write" /\ c.batch = b /\ c.written = n
    BY <1>a, CallType, FileAssumption DEF PCs
  <1>c. Become(p, c)
    BY <1>a DEF WritePart
  <1>d. file' = [lines |-> file.lines, tail |-> tail]
    BY DEF WritePart, Written
  <1>e. Cell(b, n) \in Cells
    BY <1>a DEF Cell, Cells
  <1>f. tail \in Seq(Cells)
    BY <1>e, Facts
  <1>g. file'.lines = file.lines /\ file'.tail = tail /\ file' \in Files
    BY <1>d, <1>f, Facts DEF Files
  <1>h. tail = [i \in 1..n |-> Cell(b, i)]
    <2>1. file.tail = [i \in 1..call[p].written |-> Cell(b, i)] /\ call[p].written \in Nat
      BY Facts DEF Holding, WritePart, At
    <2> QED BY <2>1
  <1> HIDE DEF c, tail
  <1>1. StepOf(p, c)
    BY <1>a, <1>b, <1>c DEF StepOf, WritePart
  <1>2. DataOK'
    BY <1>g, Facts DEF DataOK, WritePart
  <1>3. Good(file'.lines, made')
    BY <1>g, Facts DEF WritePart
  <1>4. OnDisk'
    BY <1>g, SameLines DEF WritePart
  <1>5. Holding(c, file', made')
    BY <1>a, <1>b, <1>g, <1>h, Facts DEF Holding, WritePart, At
  <1> QED BY <1>b, <1>1, <1>2, <1>3, <1>4, <1>5, StepInv

(* The newline adds one good line, whose batch the file did not hold.      *)
NewLine(f, b) == [batch |-> b, at |-> made[b], prev |-> HeadDigest(f.lines)]

LEMMA WriteNewline ==
  ASSUME Inv, NEW p \in Processes, WritePart(p), call[p].written + 1 = Parts
  PROVE  /\ lock = p /\ call[p].batch \in Batches
         /\ call[p].batch \notin Committed(file.lines)
         /\ made[call[p].batch] = Len(file.lines) + 1
         /\ file' = [lines |-> Append(file.lines, NewLine(file, call[p].batch)), tail |-> << >>]
         /\ NewLine(file, call[p].batch) \in Records
  <1> DEFINE b == call[p].batch
             tail == Append(file.tail, Cell(b, Parts))
  <1>1. /\ lock = p /\ b \in Batches
        /\ b \notin Committed(file.lines) /\ made[b] = Len(file.lines) + 1
    BY Facts DEF TypeOK, WritePart, At, Holding
  <1>2. tail = [i \in 1..Parts |-> Cell(b, i)]
    <2>1. file.tail = [i \in 1..call[p].written |-> Cell(b, i)] /\ call[p].written \in Nat
      BY Facts DEF Holding, WritePart, At
    <2> QED BY <2>1
  <1>3. LineOf(file, tail, b) = NewLine(file, b)
    BY <1>2 DEF LineOf, NewLine
  <1>4. file' = [lines |-> Append(file.lines, LineOf(file, tail, b)), tail |-> << >>]
    <2>1. file' = Written(file, b, Parts)
      BY DEF WritePart
    <2>2. ~(Parts < Parts)
      BY FileAssumption
    <2> QED BY <2>1, <2>2 DEF Written
  <1>5. HeadDigest(file.lines) \in Batches \cup {Anchor}
    <2>1. CASE file.lines = << >>
      BY <2>1 DEF HeadDigest
    <2>2. CASE file.lines # << >>
      <3>1. Len(file.lines) \in 1..Len(file.lines)
        BY <2>2, Facts
      <3>2. file.lines[Len(file.lines)] \in Records
        BY <3>1, Facts
      <3> QED BY <2>2, <3>2 DEF HeadDigest, Records
    <2> QED BY <2>1, <2>2
  <1>6. NewLine(file, b) \in Records
    BY <1>1, <1>5, Facts DEF NewLine, Records, DataOK
  <1> QED BY <1>1, <1>3, <1>4, <1>6

LEMMA WriteNewlineInv ==
  ASSUME Inv, NEW p \in Processes, WritePart(p), call[p].written + 1 = Parts
  PROVE  Inv'
  <1> DEFINE b == call[p].batch
             c == Call("sync", b, Parts)
             line == NewLine(file, b)
             lines == Append(file.lines, line)
  <1>a. /\ lock = p /\ b \in Batches /\ b \notin Committed(file.lines)
        /\ made[b] = Len(file.lines) + 1 /\ line \in Records
        /\ file' = [lines |-> lines, tail |-> << >>]
    BY WriteNewline
  <1>b. c \in Calls /\ c.pc = "sync" /\ c.batch = b /\ c.written = Parts
    BY <1>a, CallType, FileAssumption DEF PCs
  <1>c. Become(p, c)
    BY DEF WritePart
  <1>d. line.batch = b /\ line.at = made[b] /\ line.prev = HeadDigest(file.lines)
    BY DEF NewLine
  <1> HIDE DEF c, line
  <1>e. /\ lines \in Seq(Records) /\ Len(lines) = Len(file.lines) + 1
        /\ lines[Len(file.lines) + 1] = line
        /\ \A i \in 1..Len(file.lines) : lines[i] = file.lines[i]
    BY <1>a, Facts
  <1> HIDE DEF lines
  <1>f. file'.lines = lines /\ file'.tail = << >> /\ file' \in Files
    BY <1>a, <1>e DEF Files
  <1>g. Len(file.lines) \in Nat
    BY Facts
  <1>1. StepOf(p, c)
    BY <1>a, <1>b, <1>c DEF StepOf, WritePart
  <1>2. DataOK'
    BY <1>f, Facts DEF DataOK, WritePart
  <1>3. Good(file'.lines, made')
    <2>1. SUFFICES ASSUME NEW i \in 1..Len(lines) PROVE GoodLine(lines, i, made)
      BY <1>f DEF Good, WritePart
    <2>2. CASE i \in 1..Len(file.lines)
      <3>1. GoodLine(file.lines, i, made)
        BY <2>2, Facts DEF Good
      <3>2. i # 1 => i - 1 \in 1..Len(file.lines)
        BY <2>2, <1>g
      <3> QED BY <2>2, <3>1, <3>2, <1>e DEF GoodLine
    <2>3. CASE i = Len(file.lines) + 1
      <3>1. line.prev = IF i = 1 THEN Anchor ELSE lines[i - 1].batch
        <4>1. CASE file.lines = << >>
          BY <2>3, <4>1, <1>d DEF HeadDigest
        <4>2. CASE file.lines # << >>
          <5>1. Len(file.lines) \in 1..Len(file.lines) /\ i # 1 /\ i - 1 = Len(file.lines)
            BY <2>3, <4>2, <1>g, Facts
          <5>2. lines[i - 1] = file.lines[Len(file.lines)]
            BY <5>1, <1>e
          <5> QED BY <4>2, <5>1, <5>2, <1>d DEF HeadDigest
        <4> QED BY <4>1, <4>2
      <3> QED BY <2>3, <3>1, <1>a, <1>d, <1>e DEF GoodLine
    <2> QED BY <1>e, <1>g, <2>2, <2>3
  <1>4. OnDisk'
    <2>1. acked \subseteq Committed(lines)
      <3>1. acked \subseteq Committed(file.lines)
        BY Facts DEF OnDisk, DataOK
      <3> QED BY <3>1, <1>e, <1>g DEF Committed
    <2>2. Prefix(lines, lines)
      BY <1>e DEF Prefix
    <2>3. ASSUME NEW m \in images PROVE Prefix(m.lines, lines)
      <3>1. Prefix(m.lines, file.lines) /\ m \in Files
        BY Facts DEF OnDisk, DataOK
      <3>2. Len(m.lines) \in Nat
        BY <3>1 DEF Files
      <3> QED BY <3>1, <3>2, <1>e, <1>g DEF Prefix
    <2> QED BY <1>f, <2>1, <2>2, <2>3, Facts DEF OnDisk, WritePart
  <1>5. Holding(c, file', made')
    <2>1. b \in Committed(lines)
      BY <1>d, <1>e, <1>g DEF Committed
    <2> QED BY <1>a, <1>b, <1>f, <2>1 DEF Holding
  <1> QED BY <1>b, <1>1, <1>2, <1>3, <1>4, <1>5, StepInv

LEMMA SyncInv ==
  ASSUME Inv, NEW p \in Processes, Sync(p)
  PROVE  /\ Inv'
         /\ call[p].batch \in Batches /\ call[p].batch \in Committed(file.lines)
  <1>a. /\ lock = p /\ call[p].batch \in Batches
        /\ call[p].batch \in Committed(file.lines)
    BY Facts DEF TypeOK, Sync, At, Holding
  <1>1. StepOf(p, Idle)
    BY <1>a, IdleType, FileAssumption DEF StepOf, Sync, Return
  <1>2. DataOK'
    BY <1>a, Facts DEF DataOK, Sync
  <1>3. Good(file'.lines, made')
    BY Facts DEF Sync
  <1>4. OnDisk'
    <2>1. Prefix(file.lines, file.lines)
      BY Facts DEF Prefix
    <2>2. acked \subseteq Committed(file.lines)
      BY Facts DEF OnDisk, DataOK
    <2> QED BY <1>a, <2>1, <2>2 DEF OnDisk, Sync
  <1>5. Holding(Idle, file', made')
    BY IdleType DEF Holding
  <1> QED BY <1>a, IdleType, <1>1, <1>2, <1>3, <1>4, <1>5, StepInv

(* A prefix of good lines is good.                                         *)
LEMMA GoodPrefix ==
  ASSUME Inv, NEW m \in images
  PROVE  Good(m.lines, made)
  <1>1. m.lines \in Seq(Records) /\ Prefix(m.lines, file.lines) /\ Good(file.lines, made)
    BY Facts DEF OnDisk, DataOK, Files
  <1>2. Len(m.lines) \in Nat /\ Len(file.lines) \in Nat
    BY <1>1, Facts
  <1> SUFFICES ASSUME NEW i \in 1..Len(m.lines) PROVE GoodLine(m.lines, i, made)
    BY DEF Good
  <1>3. i \in 1..Len(file.lines) /\ (i # 1 => i - 1 \in 1..Len(m.lines))
    BY <1>1, <1>2 DEF Prefix
  <1>4. GoodLine(file.lines, i, made)
    BY <1>1, <1>3 DEF Good
  <1> QED BY <1>1, <1>3, <1>4 DEF GoodLine, Prefix

LEMMA PowerLossInv ==
  ASSUME Inv, PowerLoss
  PROVE  Inv'
  <1> PICK m \in images : file' = m /\ images' = {m}
    BY DEF PowerLoss
  <1>1. TypeOK'
    <2>1. call' \in [Processes -> Calls] /\ \A p \in Processes : call'[p].pc = "idle" /\ lock' # p
      BY IdleType, FileAssumption DEF PowerLoss
    <2> QED BY <2>1, Facts, FileAssumption DEF TypeOK, PowerLoss
  <1>2. Good(file.lines, made)'
    BY GoodPrefix DEF PowerLoss
  <1>3. OnDisk'
    <2>1. Prefix(m.lines, m.lines)
      BY Facts DEF DataOK, Files, Prefix
    <2> QED BY <2>1, Facts DEF OnDisk, PowerLoss
  <1>4. ASSUME NEW p \in Processes PROVE Holding(call[p], file, made)'
    BY IdleType DEF Holding, PowerLoss
  <1> QED BY <1>1, <1>2, <1>3, <1>4 DEF Inv

LEMMA NextInv == Inv /\ [Next]_vars => Inv'
  <1> SUFFICES ASSUME Inv, [Next]_vars PROVE Inv'
    OBVIOUS
  <1>1. ASSUME NEW p \in Processes, NEW b \in Batches, CallAppend(p, b) PROVE Inv'
    BY <1>1, CallAppendInv
  <1>2. ASSUME NEW p \in Processes, NEW b \in Batches, RetryAppend(p, b) \/ CallTransact(p, b) PROVE Inv'
    BY <1>2, StartCallInv
  <1>3. ASSUME NEW p \in Processes, Lock(p) PROVE Inv'
    BY <1>3, LockInv
  <1>4. ASSUME NEW p \in Processes, Truncate(p) PROVE Inv'
    BY <1>4, TruncateInv
  <1>5. ASSUME NEW p \in Processes, SyncTruncation(p) PROVE Inv'
    BY <1>5, SyncTruncationInv
  <1>6. ASSUME NEW p \in Processes, Refuse(p) \/ AlreadyCommitted(p) PROVE Inv'
    BY <1>6, ReturnInv
  <1>7. ASSUME NEW p \in Processes, Admit(p) PROVE Inv'
    BY <1>7, AdmitInv
  <1>8. ASSUME NEW p \in Processes, WritePart(p) PROVE Inv'
    <2>1. call[p].written + 1 < Parts \/ call[p].written + 1 = Parts
      <3>1. call[p].written < Parts /\ call[p].written \in 0..Parts
        BY <1>8, Facts DEF WritePart, At, Holding
      <3> QED BY <3>1, FileAssumption
    <2> QED BY <1>8, <2>1, WriteTailInv, WriteNewlineInv
  <1>9. ASSUME NEW p \in Processes, Sync(p) PROVE Inv'
    BY <1>9, SyncInv
  <1>10. ASSUME NEW p \in Processes, Die(p) PROVE Inv'
    BY <1>10, DieInv
  <1>11. CASE PowerLoss
    BY <1>11, PowerLossInv
  <1>12. CASE UNCHANGED vars
    BY <1>12 DEF vars, Inv, TypeOK, OnDisk
  <1> QED BY <1>1, <1>2, <1>3, <1>4, <1>5, <1>6, <1>7, <1>8, <1>9, <1>10, <1>11, <1>12 DEF Next

LEMMA InvHolds == Spec => []Inv
  BY InitInv, NextInv, PTL DEF Spec

(* Type correctness, and the mutual exclusion of the lock.                 *)
THEOREM TypeCorrect == Spec => []TypeOK
  <1>1. Inv => TypeOK
    BY DEF Inv
  <1> QED BY <1>1, InvHolds, PTL

LEMMA GoodDecodes ==
  ASSUME NEW lines, NEW m, Good(lines, m)
  PROVE  Decodes(lines)
  <1> SUFFICES ASSUME NEW i \in 1..Len(lines)
               PROVE  /\ lines[i] # Garbage
                      /\ lines[i].prev = IF i = 1 THEN Anchor ELSE lines[i - 1].batch
    BY DEF Decodes
  <1>1. GoodLine(lines, i, m)
    BY DEF Good
  <1>2. lines[i] # Garbage
    BY <1>1, FileAssumption DEF GoodLine, Garbage
  <1> QED BY <1>1, <1>2 DEF GoodLine

(* The file decodes at every moment and after every power loss, whichever  *)
(* writers died in the middle of a record.                                 *)
THEOREM JournalDecodes == Spec => []AlwaysDecodes
  <1>1. ASSUME Inv PROVE AlwaysDecodes
    <2>1. Decodes(file.lines)
      BY <1>1, Facts, GoodDecodes
    <2>2. ASSUME NEW m \in images PROVE Decodes(m.lines)
      BY <1>1, GoodPrefix, GoodDecodes
    <2> QED BY <2>1, <2>2 DEF AlwaysDecodes
  <1> QED BY <1>1, InvHolds, PTL

(* No record is written at a position its events were not made for.        *)
THEOREM PositionsAreOwned == Spec => []OwnsItsPosition
  <1>1. Inv => OwnsItsPosition
    BY DEF Inv, Good, GoodLine, OwnsItsPosition
  <1> QED BY <1>1, InvHolds, PTL

(* ------------------------------------------------------------------------ *)
(* The refinement                                                           *)
(* ------------------------------------------------------------------------ *)

LEMMA LogFacts ==
  ASSUME NEW lines \in Seq(Records)
  PROVE  /\ LogOf(lines) \in Seq(Batches \cup {Anchor})
         /\ Len(LogOf(lines)) = Len(lines)
         /\ \A i \in 1..Len(lines) : LogOf(lines)[i] = lines[i].batch
         /\ Abstract!Range(LogOf(lines)) = Committed(lines)
  <1>1. \A i \in 1..Len(lines) : lines[i].batch \in Batches \cup {Anchor}
    <2> SUFFICES ASSUME NEW i \in 1..Len(lines) PROVE lines[i].batch \in Batches \cup {Anchor}
      OBVIOUS
    <2>1. lines[i] \in Records
      OBVIOUS
    <2> QED BY <2>1 DEF Records
  <1>2. Len(lines) \in Nat
    OBVIOUS
  <1>3. LogOf(lines) \in Seq(Batches \cup {Anchor}) /\ Len(LogOf(lines)) = Len(lines)
    BY <1>1, <1>2 DEF LogOf
  <1>4. \A i \in 1..Len(lines) : LogOf(lines)[i] = lines[i].batch
    BY DEF LogOf
  <1>5. Abstract!Range(LogOf(lines)) = Committed(lines)
    BY <1>3, <1>4 DEF Abstract!Range, Committed
  <1> QED BY <1>3, <1>4, <1>5

(* A step that leaves lines and acknowledgements alone is a stutter.       *)
LEMMA QuietRefines ==
  ASSUME file'.lines = file.lines, acked' = acked
  PROVE  UNCHANGED Abstract!vars
  BY DEF Abstract!vars, LogOf

LEMMA NewlineRefines ==
  ASSUME Inv, NEW p \in Processes, WritePart(p), call[p].written + 1 = Parts
  PROVE  Abstract!Commit(call[p].batch)
  <1> DEFINE b == call[p].batch
             line == NewLine(file, b)
             lines == Append(file.lines, line)
  <1>1. /\ b \notin Committed(file.lines) /\ line \in Records
        /\ file' = [lines |-> lines, tail |-> << >>]
    BY WriteNewline
  <1>2. line.batch = b
    BY DEF NewLine
  <1> HIDE DEF line
  <1>3. file.lines \in Seq(Records) /\ lines \in Seq(Records) /\ file'.lines = lines
    BY <1>1, Facts
  <1>4. LogOf(lines) = Append(LogOf(file.lines), b)
    <2>1. Len(lines) = Len(file.lines) + 1 /\ Len(file.lines) \in Nat
      BY <1>1, <1>3
    <2>2. lines[Len(file.lines) + 1] = line /\ \A i \in 1..Len(file.lines) : lines[i] = file.lines[i]
      BY <1>1, <1>3
    <2> HIDE DEF lines
    <2> QED BY <1>2, <2>1, <2>2 DEF LogOf
  <1>5. b \notin Abstract!Range(LogOf(file.lines))
    BY <1>1, <1>3, LogFacts
  <1> QED BY <1>3, <1>4, <1>5 DEF Abstract!Commit, WritePart

LEMMA SyncRefines ==
  ASSUME Inv, NEW p \in Processes, Sync(p)
  PROVE  call[p].batch \in Batches /\ Abstract!Acknowledge(call[p].batch)
  <1>1. call[p].batch \in Batches /\ call[p].batch \in Committed(file.lines)
    BY SyncInv
  <1>2. call[p].batch \in Abstract!Range(LogOf(file.lines))
    BY <1>1, LogFacts, Facts
  <1> QED BY <1>1, <1>2 DEF Abstract!Acknowledge, Sync, LogOf

LEMMA PowerLossRefines ==
  ASSUME Inv, PowerLoss
  PROVE  \E n \in 0..Len(LogOf(file.lines)) : Abstract!Lose(n)
  <1> PICK m \in images : file' = m
    BY DEF PowerLoss
  <1> DEFINE n == Len(m.lines)
             long == file.lines
  <1>1. /\ m.lines \in Seq(Records) /\ long \in Seq(Records)
        /\ Prefix(m.lines, long) /\ acked \subseteq Committed(m.lines)
        /\ Good(long, made) /\ Good(m.lines, made)
    BY Facts, GoodPrefix DEF OnDisk, DataOK, Files
  <1>2. n \in 0..Len(long) /\ n \in Nat /\ Len(long) \in Nat
    BY <1>1 DEF Prefix
  <1>3. /\ LogOf(long) \in Seq(Batches \cup {Anchor}) /\ Len(LogOf(long)) = Len(long)
        /\ \A i \in 1..Len(long) : LogOf(long)[i] = long[i].batch
    BY <1>1, LogFacts
  <1>4. ASSUME NEW i \in (n + 1)..Len(LogOf(long)) PROVE LogOf(long)[i] \notin acked
    <2>1. i \in 1..Len(long) /\ i > n
      BY <1>2, <1>3
    <2>2. made[long[i].batch] = i
      BY <1>1, <2>1 DEF Good, GoodLine
    <2>3. ASSUME NEW j \in 1..n PROVE m.lines[j].batch # long[i].batch
      <3>1. made[m.lines[j].batch] = j
        BY <1>1 DEF Good, GoodLine
      <3> QED BY <3>1, <2>1, <2>2, <1>2
    <2>4. long[i].batch \notin Committed(m.lines)
      BY <2>3 DEF Committed
    <2> QED BY <1>1, <1>3, <2>1, <2>4
  <1>5. LogOf(m.lines) = SubSeq(LogOf(long), 1, n)
    <2>1. \A i \in 1..n : m.lines[i] = long[i] /\ i \in 1..Len(long)
      BY <1>1, <1>2 DEF Prefix
    <2>2. SubSeq(LogOf(long), 1, n) = [i \in 1..n |-> LogOf(long)[i]]
      BY <1>2, <1>3
    <2>3. \A i \in 1..n : LogOf(long)[i] = m.lines[i].batch
      BY <1>3, <2>1
    <2> QED BY <2>2, <2>3 DEF LogOf
  <1>6. Abstract!Lose(n)
    <2>1. LogOf(file'.lines) = SubSeq(LogOf(long), 1, n) /\ acked' = acked
      BY <1>5 DEF PowerLoss
    <2>2. n \in 0..Len(LogOf(long))
      BY <1>2, <1>3
    <2> QED BY <2>1, <2>2, <1>4 DEF Abstract!Lose
  <1> QED BY <1>2, <1>3, <1>6

LEMMA StepRefines == Inv /\ [Next]_vars => [Abstract!Next]_(Abstract!vars)
  <1> SUFFICES ASSUME Inv, [Next]_vars PROVE [Abstract!Next]_(Abstract!vars)
    OBVIOUS
  <1>1. ASSUME NEW p \in Processes, NEW b \in Batches,
               CallAppend(p, b) \/ RetryAppend(p, b) \/ CallTransact(p, b)
        PROVE  UNCHANGED Abstract!vars
    BY <1>1, QuietRefines DEF CallAppend, RetryAppend, CallTransact
  <1>2. ASSUME NEW p \in Processes,
               \/ Lock(p) \/ Truncate(p) \/ SyncTruncation(p) \/ Refuse(p)
               \/ AlreadyCommitted(p) \/ Admit(p) \/ Die(p)
        PROVE  UNCHANGED Abstract!vars
    BY <1>2, QuietRefines DEF Lock, Truncate, SyncTruncation, Refuse, AlreadyCommitted, Admit, Die
  <1>3. ASSUME NEW p \in Processes, WritePart(p) PROVE [Abstract!Next]_(Abstract!vars)
    <2>1. call[p].written < Parts /\ call[p].written \in 0..Parts /\ call[p].batch \in Batches
      BY <1>3, Facts DEF WritePart, At, Holding
    <2>2. CASE call[p].written + 1 = Parts
      BY <2>1, <2>2, <1>3, NewlineRefines DEF Abstract!Next
    <2>3. CASE call[p].written + 1 < Parts
      <3>1. file'.lines = file.lines /\ acked' = acked
        BY <1>3, <2>3 DEF WritePart, Written
      <3> QED BY <3>1, QuietRefines
    <2> QED BY <2>1, <2>2, <2>3, FileAssumption
  <1>4. ASSUME NEW p \in Processes, Sync(p) PROVE Abstract!Next
    BY <1>4, SyncRefines DEF Abstract!Next
  <1>5. CASE PowerLoss
    BY <1>5, PowerLossRefines DEF Abstract!Next
  <1>6. CASE UNCHANGED vars
    BY <1>6, QuietRefines DEF vars
  <1> QED BY <1>1, <1>2, <1>3, <1>4, <1>5, <1>6 DEF Next

(* The journal file implements the append-only log: a record appears with  *)
(* its newline, is acknowledged after its fsync, and a power loss takes    *)
(* only records nobody was told of.                                        *)
THEOREM Refinement == Spec => AbstractSpec
  <1>1. Init => Abstract!Init
    BY DEF Init, Abstract!Init, EmptyFile, LogOf
  <1> QED BY <1>1, StepRefines, InvHolds, PTL DEF Spec, AbstractSpec, Abstract!Spec
=============================================================================
