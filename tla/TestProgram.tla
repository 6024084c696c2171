------------------------------- MODULE TestProgram -------------------------------
(***************************************************************************)
(* testProgram.c of PA-Two: a process per user that opens the device file, *)
(* offers its menu until told to end, and allocates a buffer for every     *)
(* read and write.  The driver's side of each call is CharDriver.          *)
(*                                                                         *)
(* What is in the buffer before a read, and what is printed, is left out.  *)
(***************************************************************************)
EXTENDS CharDriver

CONSTANT MaxRefused   \* bound: how many inputs a process refuses

ASSUME RefusedAssumption == MaxRefused \in Nat

VARIABLES
  at,       \* where each process is: "shell" (not running), "opening", "menu", "reading", "writing"
  heap,     \* buffers each process has allocated and not freed
  refused   \* a history: inputs each process refused

programVars == <<at, heap, refused>>
allVars     == <<vars, programVars>>

ProgramInit ==
  /\ Init
  /\ at = [u \in Users |-> "shell"]
  /\ heap = [u \in Users |-> 0] /\ refused = [u \in Users |-> 0]

Goes(u, from, to) == at[u] = from /\ at' = [at EXCEPT ![u] = to]
Mallocs(u)        == heap' = [heap EXCEPT ![u] = @ + 1]
Frees(u)          == heap' = [heap EXCEPT ![u] = @ - 1]

-----------------------------------------------------------------------------
(* The start and the end of a process.                                     *)

\* An open without the driver fails and ends the program at once: a stutter here.
Start(u)  == Goes(u, "shell", "opening") /\ OpenRead(u) /\ UNCHANGED <<heap, refused>>
Opened(u) == Goes(u, "opening", "menu") /\ OpenWrite(u) /\ UNCHANGED <<heap, refused>>

\* The heap of a process goes with it.
Gone(u) ==
  /\ at' = [at EXCEPT ![u] = "shell"]
  /\ heap' = [heap EXCEPT ![u] = 0] /\ refused' = [refused EXCEPT ![u] = 0]

\* 'e'; or a text so long that the overrun of its buffer ends the process.
Terminate(u) == at[u] = "menu" /\ Close(u) /\ Gone(u)

\* The kernel killed the process within a call.
Killed(u) == CopyKilled(u) /\ Gone(u)

-----------------------------------------------------------------------------
(* The menu.                                                               *)

\* 'r' with a length the program accepts, which may still be more than is left.
Accepted == {length \in Lengths : length <= BUFFER_SIZE}
AsksFor(u) ==
  \E length \in Accepted : ReadStart(u, "read", file[u], length) \/ ReadTooLong(u, file[u], length)

\* A mutant of ChooseRead: the buffer is freed before the call.
ChooseReadFreed(u) == Goes(u, "menu", "reading") /\ AsksFor(u) /\ UNCHANGED <<heap, refused>>

ChooseRead(u) == Goes(u, "menu", "reading") /\ Mallocs(u) /\ AsksFor(u) /\ UNCHANGED refused

\* 'r' with a length below 0 or above BUFFER_SIZE, or 'w' with a text longer than that:
\* the break leaves the buffer behind.
Refuse(u) ==
  /\ at[u] = "menu" /\ Mallocs(u)
  /\ refused[u] < MaxRefused /\ refused' = [refused EXCEPT ![u] = @ + 1]
  /\ UNCHANGED <<vars, at>>

\* 'w' with a text the program accepts, of BUFFER_SIZE characters too, whose NUL is
\* already behind the buffer, or with none when no input came.  When it does not fit what
\* is left the driver refuses it, and the program does not look.
ChooseWrite(u) ==
  /\ Goes(u, "menu", "writing") /\ Mallocs(u)
  /\ \E text \in {t \in Texts : Len(t) <= BUFFER_SIZE} :
       \/ WriteStart(u, "write", file[u], text)
       \/ ~Fits(Rest(file[u]), Len(text)) /\ UNCHANGED vars
  /\ UNCHANGED refused

\* A mutant of CallDone: the buffer of a write is not freed.
CallDoneKeeps(u) ==
  /\ call[u] = Idle
  /\ \/ Goes(u, "reading", "menu") /\ Frees(u)
     \/ Goes(u, "writing", "menu") /\ UNCHANGED heap
  /\ UNCHANGED <<vars, refused>>

\* The call returned; the bytes read are printed, and the buffer is freed.
CallDone(u) ==
  /\ call[u] = Idle
  /\ Goes(u, "reading", "menu") \/ Goes(u, "writing", "menu")
  /\ Frees(u)
  /\ UNCHANGED <<vars, refused>>

\* 's': whether the seek failed is not looked at.
ChooseSeek(u) == at[u] = "menu" /\ Seek(u) /\ UNCHANGED programVars

\* The driver's steps within a call.
InDriver(u) ==
  /\ ReadByte(u) \/ ReadEnd(u) \/ WriteByte(u) \/ WriteEnd(u) \/ CopyStops(u)
  /\ UNCHANGED programVars

-----------------------------------------------------------------------------

Module == (Register \/ Allocate \/ Unregister \/ Free) /\ UNCHANGED programVars

Process(u) ==
  \/ Start(u) \/ Opened(u) \/ Terminate(u) \/ Killed(u)
  \/ ChooseRead(u) \/ ChooseWrite(u) \/ Refuse(u) \/ CallDone(u) \/ ChooseSeek(u)
  \/ InDriver(u)

ProgramNext == Module \/ \E u \in Users : Process(u)

ProgramSpec == ProgramInit /\ [][ProgramNext]_allVars

-----------------------------------------------------------------------------
(* Properties.                                                             *)

\* While the driver may still copy to or from it, a buffer is not freed, and no choice is
\* taken from the menu: process and driver agree on which call is under way.
BufferOutlivesCall ==
  \A u \in Users :
    /\ Reading(u) => at[u] = "reading" /\ heap[u] > 0
    /\ Writing(u) => at[u] = "writing" /\ heap[u] > 0

\* "the user buffer is allocated and freed upon read and write" (line 123).  That holds of
\* every call, however the driver ends it; buffers are left behind by refused inputs only,
\* one each (the breaks of lines 65, 69 and 85).
LeaksOnlyRefused ==
  \A u \in Users : heap[u] = refused[u] + IF at[u] \in {"reading", "writing"} THEN 1 ELSE 0

=============================================================================
