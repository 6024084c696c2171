------------------------------- MODULE CharDriver -------------------------------
(***************************************************************************)
(* The character device driver of PA-Two: one buffer in the kernel, shared *)
(* without a lock by every user that opened the device file, and a         *)
(* position per open file.  Each user is a process with one open file at   *)
(* most, and copies to and from user space go byte by byte.  A call passes *)
(* the driver the position it works at: read and write that of the file,   *)
(* pread and pwrite any other.                                             *)
(*                                                                         *)
(* printk is left out, but for its looking at the user's text.             *)
(***************************************************************************)
EXTENDS Integers, Sequences

CONSTANTS
  Users,
  BUFFER_SIZE,
  Lengths,     \* the lengths users give
  Positions,   \* the positions they give pread and pwrite
  HalfInt,     \* 2^31: an int is one of -HalfInt..(HalfInt - 1)
  Values,      \* the bytes users write
  Junk,        \* a byte of fresh memory, or of memory that is not the driver's
  NULL,        \* kernelBuffer before kmalloc, or after it failed
  Freed,       \* kernelBuffer after kfree
  Closed,      \* the position of a user that has no open file
  Idle,        \* of a user that is in no call
  MaxOpens     \* bound: how often the device is opened per load

ASSUME SizeAssumption   == BUFFER_SIZE \in Nat \ {0} /\ MaxOpens \in Nat
ASSUME WidthAssumption  == HalfInt \in Nat /\ BUFFER_SIZE < HalfInt
ASSUME InputsAssumption == Lengths \subseteq Nat /\ Positions \subseteq Nat
ASSUME MarksAssumption  ==
  /\ Closed \notin Int
  /\ NULL \notin [0..(BUFFER_SIZE - 1) -> Values \cup {Junk}]
  /\ Freed \notin [0..(BUFFER_SIZE - 1) -> Values \cup {Junk}] \cup {NULL}

VARIABLES
  module,         \* "out", "registered" (before kmalloc), "in", "leaving" (before kfree)
  kernelBuffer,
  openCount,
  opens,          \* a history: how often the device was opened since insmod
  file,           \* f_pos of each user's file, or Closed
  call,           \* the call each user is in, or Idle
  got,            \* a history: what each user's last read, since it opened, asked for and got
  overlapped      \* a history: the users in a read or write that another's has overlapped

moduleVars == <<module, kernelBuffer>>
countVars  == <<openCount, opens>>
vars       == <<moduleVars, countVars, file, call, got, overlapped>>

Cells   == 0..(BUFFER_SIZE - 1)
Bytes   == Values \cup {Junk}
Texts   == UNION {[1..n -> Values] : n \in Lengths}
Nothing == [asked |-> 0, data |-> << >>]

Call ==
  [op : {"open"}, seen : 0..MaxOpens] \cup
  [op : {"read", "pread"}, from : Nat, length : Lengths, data : Seq(Bytes)] \cup
  [op : {"write", "pwrite"}, from : Nat, text : Seq(Values), done : Nat]

ASSUME IdleAssumption == Idle \notin Call

TypeOK ==
  /\ module \in {"out", "registered", "in", "leaving"}
  /\ kernelBuffer \in [Cells -> Bytes] \cup {NULL, Freed}
  /\ openCount \in 0..MaxOpens /\ opens \in 0..MaxOpens
  /\ file \in [Users -> Int \cup {Closed}]
  /\ call \in [Users -> Call \cup {Idle}]
  /\ got \in [Users -> [asked : Nat, data : Seq(Bytes)]]
  /\ overlapped \subseteq Users

Init ==
  /\ module = "out" /\ kernelBuffer = NULL
  /\ openCount = 0 /\ opens = 0
  /\ file = [u \in Users |-> Closed]
  /\ call = [u \in Users |-> Idle]
  /\ got = [u \in Users |-> Nothing] /\ overlapped = {}

-----------------------------------------------------------------------------
(* Loading and unloading.                                                  *)

\* insmod: the driver is registered, and can be opened, before it has its buffer.
Register ==
  /\ module = "out" /\ module' = "registered"
  /\ kernelBuffer' = NULL
  /\ openCount' = 0 /\ opens' = 0
  /\ UNCHANGED <<file, call, got, overlapped>>

\* The result of kmalloc is not looked at.
Allocate ==
  /\ module = "registered" /\ module' = "in"
  /\ kernelBuffer' \in {[c \in Cells |-> Junk], NULL}
  /\ UNCHANGED <<countVars, file, call, got, overlapped>>

\* A mutant of Removable: the operations have no owner.
RemovableAlways == TRUE

\* .owner = THIS_MODULE: an open file, or an open under way, keeps the module.
Removable == \A u \in Users : file[u] = Closed /\ call[u] = Idle

Unregister ==
  /\ module = "in" /\ Removable
  /\ module' = "leaving"
  /\ UNCHANGED <<kernelBuffer, countVars, file, call, got, overlapped>>

Free ==
  /\ module = "leaving" /\ module' = "out"
  /\ kernelBuffer' = Freed
  /\ UNCHANGED <<countVars, file, call, got, overlapped>>

-----------------------------------------------------------------------------
(* open, close, seek.                                                      *)

\* openCount = openCount + 1 reads and then writes, and nothing is locked.
OpenRead(u) ==
  /\ module \in {"registered", "in"}
  /\ file[u] = Closed /\ call[u] = Idle /\ opens < MaxOpens
  /\ opens' = opens + 1
  /\ call' = [call EXCEPT ![u] = [op |-> "open", seen |-> openCount]]
  /\ UNCHANGED <<moduleVars, openCount, file, got, overlapped>>

OpenWrite(u) ==
  /\ call[u] # Idle /\ call[u].op = "open"
  /\ openCount' = call[u].seen + 1
  /\ file' = [file EXCEPT ![u] = 0]
  /\ call' = [call EXCEPT ![u] = Idle]
  /\ UNCHANGED <<moduleVars, opens, got, overlapped>>

Open(u) == OpenRead(u) \/ OpenWrite(u)

\* A user whose file is open and who is in no call.
Ready(u) == file[u] # Closed /\ call[u] = Idle

Closes(u) ==
  /\ file' = [file EXCEPT ![u] = Closed]
  /\ got' = [got EXCEPT ![u] = Nothing]

\* A mutant of Close: what is printed as the number of closes is counted down.
CloseCounts(u) ==
  /\ Ready(u) /\ Closes(u)
  /\ openCount' = openCount - 1
  /\ UNCHANGED <<moduleVars, opens, call, overlapped>>

Close(u) ==
  /\ Ready(u) /\ Closes(u)
  /\ UNCHANGED <<moduleVars, countVars, call, overlapped>>

\* Where a seek leads.
Target(position, offset, whence) ==
  CASE whence = 0 -> offset
    [] whence = 1 -> position + offset
    [] whence = 2 -> BUFFER_SIZE - offset

\* A mutant of Seek: the upper bound is not checked.
SeekUnbounded(u) ==
  /\ Ready(u)
  /\ \E whence \in 0..2, offset \in -1..(BUFFER_SIZE + 1) :
       LET target == Target(file[u], offset, whence)
       IN  target >= 0 /\ file' = [file EXCEPT ![u] = target]
  /\ UNCHANGED <<moduleVars, countVars, call, got, overlapped>>

\* A seek out of the buffer, or with another whence, fails and changes nothing.
Seek(u) ==
  /\ Ready(u)
  /\ \E whence \in 0..2, offset \in -1..(BUFFER_SIZE + 1) :
       LET target == Target(file[u], offset, whence)
       IN  target \in 0..BUFFER_SIZE /\ file' = [file EXCEPT ![u] = target]
  /\ UNCHANGED <<moduleVars, countVars, call, got, overlapped>>

-----------------------------------------------------------------------------
(* read and write.                                                         *)

\* What an int holds of a difference of positions.
AsInt(d) == IF d >= -HalfInt THEN d ELSE ((d + HalfInt) % (2 * HalfInt)) - HalfInt

\* bytesLeftToRead and bytesLeftToWrte of a call at position p.
Rest(p) == AsInt(BUFFER_SIZE - p)

\* The test of the length, which compares unsigned: with a negative number of bytes
\* left every length fits.
Fits(left, length) == left < 0 \/ length <= left

Reading(u) == call[u] # Idle /\ call[u].op \in {"read", "pread"}
Writing(u) == call[u] # Idle /\ call[u].op \in {"write", "pwrite"}
Copying(u) == Reading(u) \/ Writing(u)

\* How the kernel calls the handlers: in call c of user u, and back.
Begins(u, c) ==
  LET others == {v \in Users : Copying(v)}
  IN  /\ call' = [call EXCEPT ![u] = c]
      /\ overlapped' = overlapped \cup IF others = {} THEN {} ELSE others \cup {u}

Returns(u) ==
  /\ call' = [call EXCEPT ![u] = Idle]
  /\ overlapped' = overlapped \ {u}

\* A read (op "read" at position file[u], or "pread" at any) that fits what is left.
ReadStart(u, op, p, length) ==
  /\ Ready(u) /\ Fits(Rest(p), length)
  /\ Begins(u, [op |-> op, from |-> p, length |-> length, data |-> << >>])
  /\ UNCHANGED <<moduleVars, countVars, file, got>>

\* More is asked for than is left.  "just let them read the rest" (line 23), but nothing
\* is copied, the position stays, and the function ends without a return statement.
ReadTooLong(u, p, length) ==
  /\ Ready(u) /\ ~Fits(Rest(p), length)
  /\ got' = [got EXCEPT ![u] = [asked |-> length, data |-> << >>]]
  /\ UNCHANGED <<moduleVars, countVars, file, call, overlapped>>

\* Bytes the call of u spans, those still to be copied, and where the next of them is.
Extent(u)    == IF Reading(u) THEN call[u].length ELSE Len(call[u].text)
Copied(u)    == IF Reading(u) THEN Len(call[u].data) ELSE call[u].done
Remaining(u) == Extent(u) - Copied(u)
Place(u)     == call[u].from + Copied(u)

\* *offset of a read or write is the position of the file.
Advances(u, n) ==
  file' = IF call[u].op \in {"read", "write"} THEN [file EXCEPT ![u] = @ + n] ELSE file

\* What a copy finds in memory.
ByteAt(p) == IF p \in Cells THEN kernelBuffer[p] ELSE Junk

\* A mutant of ReadByte: the copy starts at the beginning of the buffer.
ReadByteZero(u) ==
  /\ Reading(u) /\ Remaining(u) > 0 /\ kernelBuffer # NULL
  /\ call' = [call EXCEPT ![u].data = Append(@, ByteAt(Len(@)))]
  /\ UNCHANGED <<moduleVars, countVars, file, got, overlapped>>

\* One byte of copy_to_user.
ReadByte(u) ==
  /\ Reading(u) /\ Remaining(u) > 0 /\ kernelBuffer # NULL
  /\ call' = [call EXCEPT ![u].data = Append(@, ByteAt(Place(u)))]
  /\ UNCHANGED <<moduleVars, countVars, file, got, overlapped>>

ReadEnd(u) ==
  /\ Reading(u) /\ Remaining(u) = 0
  /\ Advances(u, Extent(u))
  /\ got' = [got EXCEPT ![u] = [asked |-> Extent(u), data |-> call[u].data]]
  /\ Returns(u)
  /\ UNCHANGED <<moduleVars, countVars>>

Read(u) ==
  \/ \E length \in Lengths :
       \/ ReadStart(u, "read", file[u], length) \/ ReadTooLong(u, file[u], length)
       \/ \E p \in Positions : ReadStart(u, "pread", p, length) \/ ReadTooLong(u, p, length)
  \/ ReadByte(u) \/ ReadEnd(u)

\* A write of more than is left fails and changes nothing.
WriteStart(u, op, p, text) ==
  /\ Ready(u) /\ Fits(Rest(p), Len(text))
  /\ Begins(u, [op |-> op, from |-> p, text |-> text, done |-> 0])
  /\ UNCHANGED <<moduleVars, countVars, file, got>>

\* One byte of copy_from_user.  Outside the buffer it hits memory the model does not have.
WriteByte(u) ==
  /\ Writing(u) /\ Remaining(u) > 0 /\ kernelBuffer # NULL
  /\ kernelBuffer' = [c \in Cells |-> IF c = Place(u) THEN call[u].text[call[u].done + 1]
                                      ELSE kernelBuffer[c]]
  /\ call' = [call EXCEPT ![u].done = @ + 1]
  /\ UNCHANGED <<module, countVars, file, got, overlapped>>

WriteEnd(u) ==
  /\ Writing(u) /\ Remaining(u) = 0
  /\ Advances(u, Extent(u))
  /\ Returns(u)
  /\ UNCHANGED <<moduleVars, countVars, got>>

Write(u) ==
  \/ \E text \in Texts :
       \/ WriteStart(u, "write", file[u], text)
       \/ \E p \in Positions : WriteStart(u, "pwrite", p, text)
  \/ WriteByte(u) \/ WriteEnd(u)

\* The next byte is at NULL, or not in the buffer.
Stuck(u) == Copying(u) /\ Remaining(u) > 0 /\ (kernelBuffer = NULL \/ Place(u) \notin Cells)

\* The kernel kills the process: over a byte that cannot be copied, or, when all is
\* copied, as printk looks at the text, which is the user's memory (line 57).
CopyKilled(u) ==
  /\ Stuck(u) \/ (Writing(u) /\ Remaining(u) = 0)
  /\ Closes(u) /\ Returns(u)
  /\ UNCHANGED <<moduleVars, countVars>>

\* The copy stops at such a byte, and the driver, which does not look at what
\* copy_to_user and copy_from_user return, goes on as if all were copied.
CopyStops(u) ==
  /\ Stuck(u)
  /\ Advances(u, Extent(u))
  /\ got' = IF Reading(u) THEN [got EXCEPT ![u] = [asked |-> Extent(u), data |-> call[u].data]]
            ELSE got
  /\ Returns(u)
  /\ UNCHANGED <<moduleVars, countVars>>

-----------------------------------------------------------------------------

Next ==
  \/ Register \/ Allocate \/ Unregister \/ Free
  \/ \E u \in Users : \/ Open(u) \/ Close(u) \/ Seek(u) \/ Read(u) \/ Write(u)
                      \/ CopyKilled(u) \/ CopyStops(u)

Spec == Init /\ [][Next]_vars

-----------------------------------------------------------------------------
(* Properties.                                                             *)

\* "make sure theres enough room in the buffer" (line 47), and none is read past its end
\* (lines 23 and 25): no copy leaves the buffer.  False: beyond the end the rest is
\* negative, and compared unsigned it lets every length pass (lines 23 and 48).
CopiesInside == \A u \in Users : Copying(u) => call[u].from + Extent(u) <= BUFFER_SIZE

\* What is true of it: the file's position never leaves the buffer, nor does a copy at
\* it, and of the others those alone leave it that started beyond its end.  For read and
\* write the test can do without the negative rest, since every call keeps the position.
OnlyPositionedLeave ==
  \A u \in Users :
    /\ file[u] # Closed => file[u] \in 0..BUFFER_SIZE
    /\ Copying(u) => \/ call[u].from + Extent(u) <= BUFFER_SIZE
                     \/ call[u].op \in {"pread", "pwrite"} /\ call[u].from > BUFFER_SIZE

\* The buffer is not freed, nor the driver gone, under an open file, an open or a copy.
BufferOutlivesFiles ==
  \A u \in Users : file[u] # Closed \/ call[u] # Idle
                     => module \in {"registered", "in"} /\ kernelBuffer # Freed

\* The driver as the device file of DeviceFile.  A write takes effect there when it
\* starts: the bytes still to be copied count as stored.
PendingOn(c) ==
  {u \in Users : Writing(u) /\ c - call[u].from \in call[u].done..(Len(call[u].text) - 1)}

Stored(c) ==
  IF PendingOn(c) = {} THEN kernelBuffer[c]
  ELSE LET u == CHOOSE u \in PendingOn(c) : TRUE IN call[u].text[c - call[u].from + 1]

Storage == IF kernelBuffer \in {NULL, Freed} THEN NULL ELSE [c \in Cells |-> Stored(c)]
Cursor  == [u \in Users |-> IF Writing(u) /\ call[u].op = "write"
                            THEN file[u] + Len(call[u].text) ELSE file[u]]

Promise == INSTANCE DeviceFile WITH
  NoStorage <- NULL, storage <- Storage, cursor <- Cursor, delivered <- got

\* Where the driver does not do what its comments say: a read of more than is left reads
\* nothing instead of the rest (lines 23 and 30); a read from beyond the end does not
\* read 0 (line 25); and without a buffer the position moves although nothing is copied.
Strays(u) ==
  \/ \E length \in Lengths, p \in Positions \cup {file[u]} : ReadTooLong(u, p, length)
  \/ (ReadEnd(u) \/ CopyStops(u)) /\ call[u].from > BUFFER_SIZE
  \/ kernelBuffer = NULL /\ (CopyStops(u) \/ \E text \in Texts : WriteStart(u, "write", file[u], text))

\* Every user gets what DeviceFile promises from open to close, across loading and
\* unloading, whoever else has the file open: what was written is what is read from
\* there later.  Nothing is promised of a read or write that another's overlaps, and
\* the driver strays from the promise in the three ways above, and in no other.
KeepsPromise ==
  /\ Promise!Init
  /\ [][\/ overlapped # {} \/ overlapped' # {}
        \/ \E u \in Users : Strays(u)
        \/ Promise!Next]_(Promise!vars)

=============================================================================
