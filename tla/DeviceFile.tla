------------------------------- MODULE DeviceFile -------------------------------
(***************************************************************************)
(* What the comments of the character device promise its users: an array   *)
(* of BUFFER_SIZE bytes that outlives the opening of the file, and a       *)
(* cursor that a call at it moves by exactly the bytes it transferred.     *)
(***************************************************************************)
EXTENDS Integers, Sequences

CONSTANTS Users, BUFFER_SIZE, Positions, Lengths, Bytes, NoStorage, Closed

VARIABLES
  storage,     \* the bytes of the device, or NoStorage
  cursor,      \* of each user's open file, or Closed
  delivered    \* what the last read of each user, since it opened, asked for and got

vars == <<storage, cursor, delivered>>

Cells   == 0..(BUFFER_SIZE - 1)
Nothing == [asked |-> 0, data |-> << >>]

Init ==
  /\ storage = NoStorage
  /\ cursor = [u \in Users |-> Closed]
  /\ delivered = [u \in Users |-> Nothing]

\* A fresh storage holds anything; it is taken away while no file is open.
Load == /\ storage' \in [Cells -> Bytes] \cup {NoStorage}
        /\ storage = NoStorage \/ \A u \in Users : cursor[u] = Closed
        /\ UNCHANGED <<cursor, delivered>>

Open(u) == /\ cursor[u] = Closed
           /\ cursor' = [cursor EXCEPT ![u] = 0]
           /\ UNCHANGED <<storage, delivered>>

Close(u) == /\ cursor' = [cursor EXCEPT ![u] = Closed]
            /\ delivered' = [delivered EXCEPT ![u] = Nothing]
            /\ UNCHANGED storage

Seek(u) == /\ cursor[u] # Closed
           /\ \E p \in 0..BUFFER_SIZE : cursor' = [cursor EXCEPT ![u] = p]
           /\ UNCHANGED <<storage, delivered>>

\* The bytes from p on: none beyond the end, and none without storage.
Left(p) == IF storage = NoStorage \/ p > BUFFER_SIZE THEN 0 ELSE BUFFER_SIZE - p

\* A user who wants more than is left reads the rest (charModule.c:23, 30), and with a
\* negative rest 0 bytes (line 25).
Granted(p, n) == IF n <= Left(p) THEN n ELSE Left(p)

Delivers(u, p, n) ==
  delivered' = [delivered EXCEPT ![u] =
                  [asked |-> n, data |-> [k \in 1..Granted(p, n) |-> storage[p + k - 1]]]]

Read(u) ==
  /\ cursor[u] # Closed
  /\ \E n \in Lengths :
       /\ Delivers(u, cursor[u], n)
       /\ cursor' = [cursor EXCEPT ![u] = cursor[u] + Granted(cursor[u], n)]
  /\ UNCHANGED storage

\* A call with a position of its own leaves the cursor.
ReadAt(u) ==
  /\ cursor[u] # Closed
  /\ \E n \in Lengths, p \in Positions : Delivers(u, p, n)
  /\ UNCHANGED <<storage, cursor>>

\* The n bytes from p on are replaced, given "enough room in the buffer" (line 47).
Stores(p, n) ==
  /\ storage # NoStorage /\ n <= Left(p)
  /\ \E w \in [p..(p + n - 1) -> Bytes] :
       storage' = [c \in Cells |-> IF c \in p..(p + n - 1) THEN w[c] ELSE storage[c]]

Write(u) ==
  /\ cursor[u] # Closed
  /\ \E n \in Lengths :
       Stores(cursor[u], n) /\ cursor' = [cursor EXCEPT ![u] = cursor[u] + n]
  /\ UNCHANGED delivered

WriteAt(u) ==
  /\ cursor[u] # Closed
  /\ \E n \in Lengths, p \in Positions : Stores(p, n)
  /\ UNCHANGED <<cursor, delivered>>

Next == Load \/ \E u \in Users :
          \/ Open(u) \/ Close(u) \/ Seek(u)
          \/ Read(u) \/ ReadAt(u) \/ Write(u) \/ WriteAt(u)

Spec == Init /\ [][Next]_vars

=============================================================================
