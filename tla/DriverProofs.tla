------------------------------ MODULE DriverProofs -----------------------------
(***************************************************************************)
(* Theorems about CharDriver for any users, bytes, lengths, positions and  *)
(* size of the buffer, and about TestProgram: testProgram.c and the driver *)
(* agree on the call that is under way, for any number of processes, and   *)
(* so the program's buffers are accounted for.                             *)
(***************************************************************************)
EXTENDS TestProgram, TLAPS

\* Where a copy of n bytes from p on may go, by the call that makes it.
MayGo(op, p, n) == p + n <= BUFFER_SIZE \/ (op \in {"pread", "pwrite"} /\ p > BUFFER_SIZE)

\* Calls in terms of the file: a user opens only without a file and copies only with one;
\* read and write work at its position, and no copy goes past its text or length.
CallsFit ==
  \A u \in Users :
    /\ call[u] # Idle => (call[u].op = "open" <=> file[u] = Closed)
    /\ call[u] # Idle /\ call[u].op \in {"read", "write"} => call[u].from = file[u]
    /\ call[u] # Idle /\ call[u].op \in {"pread", "pwrite"} => call[u].from \in Positions
    /\ Reading(u) => Len(call[u].data) <= call[u].length
    /\ Writing(u) => call[u].done <= Len(call[u].text)

\* No lost update makes openCount larger than the number of opens.
CountBehind ==
  /\ openCount <= opens
  /\ \A u \in Users : call[u] # Idle /\ call[u].op = "open" => call[u].seen < opens

BufferLives == module \in {"registered", "in"} => kernelBuffer # Freed

DriverInv ==
  /\ TypeOK /\ CallsFit /\ CountBehind
  /\ OnlyPositionedLeave /\ BufferOutlivesFiles /\ BufferLives

LEMMA SizeIsNat ==
  /\ BUFFER_SIZE \in Nat /\ BUFFER_SIZE > 0 /\ MaxOpens \in Nat
  /\ HalfInt \in Nat /\ BUFFER_SIZE < HalfInt
  BY SizeAssumption, WidthAssumption

\* Up to the end of the buffer the rest is what the comments take it for.
LEMMA RestInside ==
  ASSUME NEW p \in 0..BUFFER_SIZE
  PROVE  Rest(p) = BUFFER_SIZE - p
BY SizeIsNat DEF Rest, AsInt

LEMMA FitsInside ==
  ASSUME NEW p \in 0..BUFFER_SIZE, NEW n \in Nat
  PROVE  Fits(Rest(p), n) <=> p + n <= BUFFER_SIZE
BY SizeIsNat, RestInside DEF Fits

LEMMA TextsAreSeqs == \A text \in Texts : text \in Seq(Values) /\ Len(text) \in Nat
<1> SUFFICES ASSUME NEW text \in Texts PROVE text \in Seq(Values) /\ Len(text) \in Nat
  OBVIOUS
<1>1. PICK n \in Lengths : text \in [1..n -> Values]
  BY DEF Texts
<1>2. n \in Nat
  BY InputsAssumption
<1> QED BY <1>1, <1>2

LEMMA InitDriver == Init => DriverInv
<1> SUFFICES ASSUME Init PROVE DriverInv
  OBVIOUS
<1>1. TypeOK
  BY SizeIsNat DEF Init, TypeOK, Nothing
<1>2. CallsFit /\ CountBehind /\ BufferOutlivesFiles /\ BufferLives
  BY SizeIsNat DEF Init, CallsFit, CountBehind, BufferOutlivesFiles, BufferLives, Reading, Writing
<1>3. OnlyPositionedLeave
  BY DEF Init, OnlyPositionedLeave, Copying, Reading, Writing
<1> QED BY <1>1, <1>2, <1>3 DEF DriverInv

-----------------------------------------------------------------------------
(* Loading and unloading.                                                  *)

\* Steps that leave every file and call alone.
LEMMA ModuleStep ==
  ASSUME DriverInv, Register \/ Allocate \/ Unregister \/ Free
  PROVE  DriverInv'
<1>1. /\ UNCHANGED <<file, call, got, overlapped>>
      /\ module' \in {"out", "registered", "in", "leaving"}
  BY DEF Register, Allocate, Unregister, Free
<1>2. CallsFit' /\ OnlyPositionedLeave'
  BY <1>1 DEF DriverInv, CallsFit, OnlyPositionedLeave, Copying, Reading, Writing, Extent
<1>3. kernelBuffer' \in [Cells -> Bytes] \cup {NULL, Freed}
  BY DEF DriverInv, TypeOK, Register, Allocate, Unregister, Free, Bytes
<1>4. TypeOK' /\ CountBehind' /\ BufferOutlivesFiles'
  <2>1. CASE Register
    <3>1. \A u \in Users : file[u] = Closed /\ call[u] = Idle
      BY <2>1 DEF Register, DriverInv, BufferOutlivesFiles
    <3>2. openCount' = 0 /\ opens' = 0
      BY <2>1 DEF Register
    <3> QED BY <1>1, <1>3, <3>1, <3>2, SizeIsNat
            DEF DriverInv, TypeOK, CountBehind, BufferOutlivesFiles
  <2>2. CASE Allocate
    <3>1. UNCHANGED countVars /\ module' = "in" /\ kernelBuffer' # Freed
      BY <2>2, MarksAssumption DEF Allocate, Cells
    <3> QED BY <1>1, <1>3, <3>1 DEF DriverInv, TypeOK, CountBehind, BufferOutlivesFiles, countVars
  <2>3. CASE Unregister \/ Free
    <3>1. UNCHANGED countVars
      BY <2>3 DEF Unregister, Free
    <3>2. \A u \in Users : file[u] = Closed /\ call[u] = Idle
      BY <2>3 DEF Unregister, Free, Removable, DriverInv, BufferOutlivesFiles
    <3> QED BY <1>1, <1>3, <3>1, <3>2
            DEF DriverInv, TypeOK, CountBehind, BufferOutlivesFiles, countVars
  <2> QED BY <2>1, <2>2, <2>3
<1>5. BufferLives'
  BY MarksAssumption DEF DriverInv, BufferLives, Register, Allocate, Unregister, Free, Cells, Bytes
<1> QED BY <1>2, <1>4, <1>5 DEF DriverInv

-----------------------------------------------------------------------------
(* A user's calls.                                                         *)

Record == [asked : Nat, data : Seq(Bytes)]

\* The effect of a step of user u that leaves it in call c, at position p and with
\* history g, and what such a step has to show.
Effect(u, c, p, g) ==
  /\ file[u] # Closed \/ call[u] # Idle
  /\ UNCHANGED <<module, opens>> /\ openCount' \in 0..opens
  /\ kernelBuffer' = kernelBuffer \/ kernelBuffer' \in [Cells -> Bytes]
  /\ call' = [call EXCEPT ![u] = c] /\ c \in Call \cup {Idle}
  /\ file' = [file EXCEPT ![u] = p] /\ p \in Int \cup {Closed}
  /\ got' = [got EXCEPT ![u] = g] /\ g \in Record
  /\ overlapped' \subseteq Users
  /\ c # Idle => /\ c.op # "open" /\ p # Closed
                 /\ c.op \in {"read", "write"} => c.from = p
                 /\ c.op \in {"pread", "pwrite"} => c.from \in Positions
                 /\ c.op \in {"read", "pread"} =>
                      Len(c.data) <= c.length /\ MayGo(c.op, c.from, c.length)
                 /\ c.op \in {"write", "pwrite"} =>
                      c.done <= Len(c.text) /\ MayGo(c.op, c.from, Len(c.text))
  /\ p # Closed => p \in 0..BUFFER_SIZE

LEMMA UserStep ==
  ASSUME DriverInv, NEW u \in Users, NEW c, NEW p, NEW g, Effect(u, c, p, g)
  PROVE  DriverInv'
<1>1. /\ \A v \in Users \ {u} : call'[v] = call[v] /\ file'[v] = file[v]
      /\ call'[u] = c /\ file'[u] = p
  BY DEF DriverInv, TypeOK, Effect
<1>2. TypeOK'
  <2>1. opens' \in 0..MaxOpens /\ openCount' \in 0..MaxOpens
    BY SizeIsNat DEF DriverInv, TypeOK, Effect
  <2> QED BY <2>1 DEF DriverInv, TypeOK, Effect, Record
<1>3. /\ \A v \in Users \ {u} : /\ Reading(v)' = Reading(v) /\ Writing(v)' = Writing(v)
                                /\ Extent(v)' = Extent(v)
      /\ Reading(u)' <=> c # Idle /\ c.op \in {"read", "pread"}
      /\ Writing(u)' <=> c # Idle /\ c.op \in {"write", "pwrite"}
  BY <1>1 DEF Reading, Writing, Extent
<1>4. CallsFit'
  BY <1>1, <1>3 DEF DriverInv, CallsFit, Effect
<1>5. CountBehind'
  BY <1>1 DEF DriverInv, CountBehind, Effect
<1>6. OnlyPositionedLeave'
  <2>1. Copying(u)' => MayGo(c.op, c.from, Extent(u)')
    BY <1>1, <1>3 DEF Copying, Extent, Effect
  <2>2. /\ p # Closed => p \in 0..BUFFER_SIZE
        /\ \A v \in Users \ {u} : Copying(v)' = Copying(v)
    BY <1>3 DEF Effect, Copying
  <2>3. OnlyPositionedLeave
    BY DEF DriverInv
  <2>4. ASSUME NEW v \in Users
        PROVE  /\ file'[v] # Closed => file'[v] \in 0..BUFFER_SIZE
               /\ Copying(v)' => MayGo(call'[v].op, call'[v].from, Extent(v)')
    <3>1. CASE v = u
      BY <3>1, <1>1, <2>1, <2>2
    <3>2. CASE v # u
      BY <3>2, <1>1, <1>3, <2>2, <2>3 DEF OnlyPositionedLeave, MayGo
    <3> QED BY <3>1, <3>2
  <2> QED BY <2>4 DEF OnlyPositionedLeave, MayGo
<1>7. BufferOutlivesFiles' /\ BufferLives'
  <2>1. module \in {"registered", "in"} /\ kernelBuffer # Freed
    BY DEF DriverInv, BufferOutlivesFiles, Effect
  <2>2. kernelBuffer' # Freed
    BY <2>1, MarksAssumption DEF Cells, Bytes, Effect
  <2> QED BY <2>1, <2>2 DEF BufferOutlivesFiles, BufferLives, Effect
<1> QED BY <1>2, <1>4, <1>5, <1>6, <1>7 DEF DriverInv

\* openCount falls behind the opens, and never gets ahead.
LEMMA OpenStep ==
  ASSUME DriverInv, NEW u \in Users, Open(u)
  PROVE  DriverInv'
<1>1. CASE OpenRead(u)
  <2> DEFINE c == [op |-> "open", seen |-> openCount]
  <2>1. /\ module \in {"registered", "in"}
        /\ UNCHANGED <<module, kernelBuffer, openCount, file, got, overlapped>>
        /\ file[u] = Closed /\ opens < MaxOpens /\ opens' = opens + 1
        /\ call' = [call EXCEPT ![u] = c] /\ call[u] = Idle
    BY <1>1 DEF OpenRead, moduleVars
  <2>2. openCount \in Nat /\ opens \in Nat /\ openCount <= opens /\ c \in Call
    BY SizeIsNat DEF DriverInv, TypeOK, CountBehind, Call
  <2>3. /\ \A v \in Users \ {u} : call'[v] = call[v]
        /\ call'[u] = c
    BY <2>1 DEF DriverInv, TypeOK
  <2>4. TypeOK'
    BY <2>1, <2>2, SizeIsNat DEF DriverInv, TypeOK
  <2>5. /\ \A v \in Users \ {u} : /\ Reading(v)' = Reading(v) /\ Writing(v)' = Writing(v)
                                  /\ Extent(v)' = Extent(v)
        /\ ~Reading(u)' /\ ~Writing(u)' /\ call'[u].op = "open" /\ call'[u].seen = openCount
    BY <2>3 DEF Reading, Writing, Extent
  <2>6. CallsFit' /\ CountBehind'
    <3>3. CallsFit'
      BY <2>1, <2>3, <2>5 DEF DriverInv, CallsFit
    <3>4. ASSUME NEW v \in Users \ {u}, call[v] # Idle, call[v].op = "open"
          PROVE  call[v].seen \in Nat
      <4>1. call[v] \in Call BY <3>4 DEF DriverInv, TypeOK
      <4> QED BY <3>4, <4>1 DEF Call
    <3>5. CountBehind'
      BY <2>1, <2>2, <2>3, <2>5, <3>4 DEF DriverInv, CountBehind
    <3> QED BY <3>3, <3>5
  <2>7. OnlyPositionedLeave'
    BY <2>1, <2>3, <2>5 DEF DriverInv, OnlyPositionedLeave, Copying
  <2>8. BufferOutlivesFiles' /\ BufferLives'
    <3>1. kernelBuffer # Freed
      BY <2>1 DEF DriverInv, BufferLives
    <3> QED BY <2>1, <2>3, <3>1 DEF DriverInv, BufferOutlivesFiles, BufferLives
  <2> QED BY <2>4, <2>6, <2>7, <2>8 DEF DriverInv
<1>2. CASE OpenWrite(u)
  <2>1. /\ call[u] # Idle /\ call[u].op = "open" /\ openCount' = call[u].seen + 1
        /\ UNCHANGED <<module, kernelBuffer, opens, got, overlapped>>
        /\ call' = [call EXCEPT ![u] = Idle]
    BY <1>2 DEF OpenWrite, moduleVars
  <2>2. 0 \in 0..BUFFER_SIZE /\ file' = [file EXCEPT ![u] = 0]
    BY <1>2, SizeIsNat DEF OpenWrite
  <2>3. PICK p \in 0..BUFFER_SIZE : file' = [file EXCEPT ![u] = p]
    BY <2>2
  <2>4. call[u].seen \in Nat /\ call[u].seen < opens /\ opens \in Nat
    <3>1. call[u] \in Call BY <2>1 DEF DriverInv, TypeOK
    <3>2. call[u].seen \in Nat BY <2>1, <3>1 DEF Call
    <3> QED BY <2>1, <3>2 DEF DriverInv, TypeOK, CountBehind
  <2>5. openCount' \in 0..opens
    BY <2>1, <2>4
  <2>6. /\ got' = [got EXCEPT ![u] = got[u]] /\ got[u] \in Record
        /\ overlapped' \subseteq Users
    BY <2>1 DEF DriverInv, TypeOK, Record
  <2>7. p \in Int \cup {Closed}
    BY SizeIsNat
  <2>8. Effect(u, Idle, p, got[u])
    BY <2>1, <2>3, <2>5, <2>6, <2>7 DEF Effect
  <2> QED BY <2>8, UserStep
<1> QED BY <1>1, <1>2 DEF Open

\* What the invariant says of a user at the start of a call, and within one.
LEMMA ReadyFacts ==
  ASSUME DriverInv, NEW u \in Users, file[u] # Closed
  PROVE  /\ file[u] \in 0..BUFFER_SIZE /\ file[u] \in Nat /\ openCount \in 0..opens
         /\ got[u] \in Record /\ Nothing \in Record
         /\ got = [got EXCEPT ![u] = got[u]] /\ file = [file EXCEPT ![u] = file[u]]
         /\ call = [call EXCEPT ![u] = call[u]]
         /\ overlapped \subseteq Users
<1>1. /\ openCount \in 0..opens
      /\ got[u] \in Record /\ overlapped \subseteq Users
      /\ got = [got EXCEPT ![u] = got[u]] /\ file = [file EXCEPT ![u] = file[u]]
      /\ call = [call EXCEPT ![u] = call[u]]
  BY DEF DriverInv, TypeOK, CountBehind, Record
<1>2. file[u] \in 0..BUFFER_SIZE
  BY DEF DriverInv, OnlyPositionedLeave
<1>3. << >> \in Seq(Bytes)
  OBVIOUS
<1> QED BY <1>1, <1>2, <1>3, SizeIsNat DEF Nothing, Record

\* A step that changes no call.
LEMMA MoveStep ==
  ASSUME DriverInv, NEW u \in Users, Close(u) \/ Seek(u)
  PROVE  DriverInv'
<1>1. /\ file[u] # Closed /\ call[u] = Idle
      /\ UNCHANGED <<module, kernelBuffer, openCount, opens, call, overlapped>>
  BY DEF Close, Seek, Ready, moduleVars, countVars
<1>2. PICK p \in 0..BUFFER_SIZE \cup {Closed} : file' = [file EXCEPT ![u] = p]
  BY DEF Close, Closes, Seek
<1>3. PICK g \in Record : got' = [got EXCEPT ![u] = g]
  BY <1>1, ReadyFacts DEF Close, Closes, Seek
<1>4. call' = [call EXCEPT ![u] = Idle] /\ openCount' \in 0..opens /\ overlapped' \subseteq Users
  BY <1>1, ReadyFacts
<1>5. p \in Int \cup {Closed} /\ (p # Closed => p \in 0..BUFFER_SIZE)
  BY SizeIsNat
<1>6. Effect(u, Idle, p, g)
  BY <1>1, <1>2, <1>3, <1>4, <1>5 DEF Effect
<1> QED BY <1>6, UserStep

LEMMA ReadingFacts ==
  ASSUME DriverInv, NEW u \in Users, Reading(u)
  PROVE  /\ call[u] \in [op : {"read", "pread"}, from : Nat, length : Lengths, data : Seq(Bytes)]
         /\ call[u] # Idle /\ ~Writing(u)
         /\ Len(call[u].data) <= call[u].length
         /\ file[u] # Closed /\ (call[u].op = "read" => call[u].from = file[u])
         /\ call[u].op = "pread" => call[u].from \in Positions
         /\ call[u].length \in Nat
         /\ MayGo(call[u].op, call[u].from, call[u].length)
         /\ Extent(u) = call[u].length /\ Copied(u) = Len(call[u].data)
<1>1. call[u] \in Call BY DEF DriverInv, TypeOK, Reading
<1>2. call[u] \in [op : {"read", "pread"}, from : Nat, length : Lengths, data : Seq(Bytes)]
  BY <1>1 DEF Reading, Call
<1>3. /\ file[u] # Closed /\ Len(call[u].data) <= call[u].length
      /\ call[u].op = "read" => call[u].from = file[u]
      /\ call[u].op = "pread" => call[u].from \in Positions
  BY DEF DriverInv, CallsFit, Reading
<1>4. Extent(u) = call[u].length /\ Copied(u) = Len(call[u].data)
  BY DEF Extent, Copied
<1>5. MayGo(call[u].op, call[u].from, call[u].length)
  BY <1>4 DEF DriverInv, OnlyPositionedLeave, Copying, MayGo
<1>6. call[u].length \in Nat
  BY <1>2, InputsAssumption
<1> QED BY <1>2, <1>3, <1>4, <1>5, <1>6 DEF Reading, Writing

LEMMA WritingFacts ==
  ASSUME DriverInv, NEW u \in Users, Writing(u)
  PROVE  /\ call[u] \in [op : {"write", "pwrite"}, from : Nat, text : Seq(Values), done : Nat]
         /\ call[u] # Idle /\ ~Reading(u)
         /\ call[u].done <= Len(call[u].text) /\ Len(call[u].text) \in Nat
         /\ file[u] # Closed /\ (call[u].op = "write" => call[u].from = file[u])
         /\ call[u].op = "pwrite" => call[u].from \in Positions
         /\ MayGo(call[u].op, call[u].from, Len(call[u].text))
         /\ Extent(u) = Len(call[u].text) /\ Copied(u) = call[u].done
<1>1. call[u] \in Call BY DEF DriverInv, TypeOK, Writing
<1>2. call[u] \in [op : {"write", "pwrite"}, from : Nat, text : Seq(Values), done : Nat]
  BY <1>1 DEF Writing, Call
<1>3. /\ file[u] # Closed /\ call[u].done <= Len(call[u].text)
      /\ call[u].op = "write" => call[u].from = file[u]
      /\ call[u].op = "pwrite" => call[u].from \in Positions
  BY DEF DriverInv, CallsFit, Writing
<1>4. ~Reading(u) /\ Extent(u) = Len(call[u].text) /\ Copied(u) = call[u].done
  BY DEF Extent, Copied, Reading, Writing
<1>5. MayGo(call[u].op, call[u].from, Len(call[u].text))
  BY <1>4 DEF DriverInv, OnlyPositionedLeave, Copying, MayGo
<1> QED BY <1>2, <1>3, <1>4, <1>5 DEF Writing

\* A call at the position of the file moves it to a place in the buffer.
LEMMA AdvanceFacts ==
  ASSUME DriverInv, NEW u \in Users, Copying(u), Advances(u, Extent(u))
  PROVE  \E p \in 0..BUFFER_SIZE : file' = [file EXCEPT ![u] = p]
<1>1. /\ file[u] # Closed /\ file[u] \in 0..BUFFER_SIZE /\ Extent(u) \in Nat
      /\ file = [file EXCEPT ![u] = file[u]]
  BY ReadingFacts, WritingFacts, ReadyFacts DEF Copying
<1>2. CASE call[u].op \in {"read", "write"}
  <2>1. call[u].from = file[u] /\ MayGo(call[u].op, call[u].from, Extent(u))
    BY <1>2, ReadingFacts, WritingFacts DEF Copying, Reading, Writing
  <2>2. file[u] + Extent(u) \in 0..BUFFER_SIZE
    BY <1>1, <1>2, <2>1, SizeIsNat DEF MayGo
  <2> QED BY <1>2, <2>2 DEF Advances
<1>3. CASE call[u].op \notin {"read", "write"}
  BY <1>1, <1>3 DEF Advances
<1> QED BY <1>2, <1>3

\* The start of a copy.
LEMMA StartFits ==
  ASSUME DriverInv, NEW u \in Users, file[u] # Closed, NEW n \in Nat,
         NEW op \in {"read", "pread", "write", "pwrite"}, NEW p,
         op \in {"read", "write"} => p = file[u],
         op \in {"pread", "pwrite"} => p \in Positions,
         Fits(Rest(p), n)
  PROVE  p \in Nat /\ MayGo(op, p, n)
<1>1. file[u] \in 0..BUFFER_SIZE /\ file[u] \in Nat
  BY ReadyFacts
<1>2. p \in Nat
  BY <1>1, InputsAssumption
<1>3. CASE p <= BUFFER_SIZE
  <2>1. p \in 0..BUFFER_SIZE
    BY <1>2, <1>3
  <2> QED BY <2>1, <1>2, FitsInside DEF MayGo
<1>4. CASE p > BUFFER_SIZE
  <2>1. op \in {"pread", "pwrite"}
    BY <1>1, <1>4, SizeIsNat
  <2> QED BY <2>1, <1>2, <1>4 DEF MayGo
<1> QED BY <1>2, <1>3, <1>4, SizeIsNat

LEMMA BeginsFacts ==
  ASSUME NEW u \in Users, NEW c, Begins(u, c), overlapped \subseteq Users
  PROVE  call' = [call EXCEPT ![u] = c] /\ overlapped' \subseteq Users
BY DEF Begins

LEMMA ReadStartStep ==
  ASSUME DriverInv, NEW u \in Users, NEW length \in Lengths, NEW op \in {"read", "pread"}, NEW p,
         op = "read" => p = file[u], op = "pread" => p \in Positions,
         ReadStart(u, op, p, length)
  PROVE  DriverInv'
<1> DEFINE c == [op |-> op, from |-> p, length |-> length, data |-> << >>]
<1>1. /\ file[u] # Closed /\ Fits(Rest(p), length) /\ Begins(u, c)
      /\ UNCHANGED <<module, kernelBuffer, openCount, opens, file, got>>
  BY DEF ReadStart, Ready, moduleVars, countVars
<1>2. length \in Nat
  BY InputsAssumption
<1>3. p \in Nat /\ MayGo(op, p, length)
  BY <1>1, <1>2, StartFits
<1>4. /\ c \in Call /\ c.op = op /\ c.from = p /\ c.length = length /\ Len(c.data) = 0
  BY <1>2, <1>3 DEF Call
<1> HIDE DEF c
<1>5. call' = [call EXCEPT ![u] = c] /\ overlapped' \subseteq Users
  BY <1>1, BeginsFacts, ReadyFacts
<1>6. Effect(u, c, file[u], got[u])
  BY <1>1, <1>2, <1>3, <1>4, <1>5, ReadyFacts DEF Effect
<1> QED BY <1>6, UserStep

LEMMA ReadTooLongStep ==
  ASSUME DriverInv, NEW u \in Users, NEW length \in Lengths, NEW p, ReadTooLong(u, p, length)
  PROVE  DriverInv'
<1> DEFINE g == [asked |-> length, data |-> << >>]
<1>1. /\ file[u] # Closed /\ call[u] = Idle /\ got' = [got EXCEPT ![u] = g]
      /\ UNCHANGED <<module, kernelBuffer, openCount, opens, file, call, overlapped>>
  BY DEF ReadTooLong, Ready, moduleVars, countVars
<1>2. g \in Record
  <2>1. << >> \in Seq(Bytes) /\ length \in Nat
    BY InputsAssumption
  <2> QED BY <2>1 DEF Record
<1> HIDE DEF g
<1>3. Effect(u, Idle, file[u], g)
  BY <1>1, <1>2, ReadyFacts DEF Effect
<1> QED BY <1>3, UserStep

\* A user that has a file open, or is in a call, finds NULL or a buffer.
HasBuffer == kernelBuffer \in [Cells -> Bytes]

LEMMA NoBuffer == NULL \notin [Cells -> Bytes] /\ Freed \notin [Cells -> Bytes]
  BY MarksAssumption DEF Cells, Bytes

LEMMA BufferThere ==
  ASSUME DriverInv, NEW u \in Users, file[u] # Closed \/ call[u] # Idle, kernelBuffer # NULL
  PROVE  HasBuffer
BY DEF DriverInv, TypeOK, BufferOutlivesFiles, HasBuffer

\* One byte of a read.
LEMMA ReadByteFacts ==
  ASSUME DriverInv, NEW u \in Users, ReadByte(u)
  PROVE  /\ Reading(u) /\ HasBuffer /\ Len(call[u].data) < call[u].length
         /\ ByteAt(call[u].from + Len(call[u].data)) \in Bytes
         /\ call' = [call EXCEPT ![u] = [call[u] EXCEPT !.data =
              Append(call[u].data, ByteAt(call[u].from + Len(call[u].data)))]]
         /\ UNCHANGED <<module, kernelBuffer, openCount, opens, file, got, overlapped>>
<1>1. /\ Reading(u) /\ Extent(u) - Copied(u) > 0 /\ kernelBuffer # NULL
      /\ UNCHANGED <<module, kernelBuffer, openCount, opens, file, got, overlapped>>
      /\ call' = [call EXCEPT ![u].data = Append(@, ByteAt(call[u].from + Copied(u)))]
  BY DEF ReadByte, Remaining, Place, moduleVars, countVars
<1>2. HasBuffer
  BY <1>1, ReadingFacts, BufferThere
<1>3. /\ Extent(u) = call[u].length /\ Copied(u) = Len(call[u].data)
      /\ call[u].length \in Nat /\ Len(call[u].data) \in Nat
  BY <1>1, ReadingFacts
<1>4. Len(call[u].data) < call[u].length
  BY <1>1, <1>3
<1>5. ByteAt(call[u].from + Len(call[u].data)) \in Bytes
  BY <1>2 DEF ByteAt, HasBuffer, Bytes
<1> QED BY <1>1, <1>2, <1>3, <1>4, <1>5

LEMMA ReadByteStep ==
  ASSUME DriverInv, NEW u \in Users, ReadByte(u)
  PROVE  DriverInv'
<1> DEFINE byte == ByteAt(call[u].from + Len(call[u].data))
           data == Append(call[u].data, byte)
           c    == [call[u] EXCEPT !.data = data]
<1>1. /\ Reading(u) /\ Len(call[u].data) < call[u].length /\ byte \in Bytes
      /\ call' = [call EXCEPT ![u] = c]
      /\ UNCHANGED <<module, kernelBuffer, openCount, opens, file, got, overlapped>>
  BY ReadByteFacts
<1> HIDE DEF byte
<1>2. /\ call[u] \in [op : {"read", "pread"}, from : Nat, length : Lengths, data : Seq(Bytes)]
      /\ file[u] # Closed /\ (call[u].op = "read" => call[u].from = file[u])
      /\ call[u].op = "pread" => call[u].from \in Positions
      /\ call[u].length \in Nat
      /\ MayGo(call[u].op, call[u].from, call[u].length)
  BY <1>1, ReadingFacts
<1>3. data \in Seq(Bytes) /\ Len(data) = Len(call[u].data) + 1
  BY <1>1, <1>2
<1> HIDE DEF data
<1>4. /\ c \in Call /\ c.op = call[u].op /\ c.op \in {"read", "pread"} /\ c.from = call[u].from
      /\ c.length = call[u].length /\ c.data = data
  BY <1>2, <1>3 DEF Call
<1>5. Len(c.data) <= c.length
  BY <1>1, <1>2, <1>3, <1>4
<1> HIDE DEF c
<1>6. Effect(u, c, file[u], got[u])
  BY <1>1, <1>2, <1>4, <1>5, ReadyFacts DEF Effect
<1> QED BY <1>6, UserStep

\* One byte of a write.
LEMMA WriteByteFacts ==
  ASSUME DriverInv, NEW u \in Users, WriteByte(u)
  PROVE  /\ HasBuffer /\ HasBuffer' /\ Writing(u) /\ call[u].done < Len(call[u].text)
         /\ UNCHANGED <<module, openCount, opens, file, got, overlapped>>
         /\ call' = [call EXCEPT ![u] = [call[u] EXCEPT !.done = call[u].done + 1]]
         /\ kernelBuffer' = [c \in Cells |->
              IF c = call[u].from + call[u].done THEN call[u].text[call[u].done + 1]
              ELSE kernelBuffer[c]]
<1>1. /\ Writing(u) /\ Extent(u) - Copied(u) > 0 /\ kernelBuffer # NULL
      /\ UNCHANGED <<module, openCount, opens, file, got, overlapped>>
      /\ call' = [call EXCEPT ![u].done = @ + 1]
      /\ kernelBuffer' = [c \in Cells |->
           IF c = call[u].from + Copied(u) THEN call[u].text[call[u].done + 1]
           ELSE kernelBuffer[c]]
  BY DEF WriteByte, Remaining, Place, countVars
<1>2. /\ Extent(u) = Len(call[u].text) /\ Copied(u) = call[u].done
      /\ Len(call[u].text) \in Nat /\ call[u].done \in Nat /\ call[u].text \in Seq(Values)
  BY <1>1, WritingFacts
<1>3. HasBuffer
  BY <1>1, WritingFacts, BufferThere
<1>4. call[u].done < Len(call[u].text)
  BY <1>1, <1>2
<1>5. call[u].text[call[u].done + 1] \in Bytes
  BY <1>2, <1>4 DEF Bytes
<1>6. HasBuffer'
  BY <1>1, <1>3, <1>5 DEF HasBuffer
<1> QED BY <1>1, <1>2, <1>3, <1>4, <1>6

LEMMA WriteByteStep ==
  ASSUME DriverInv, NEW u \in Users, WriteByte(u)
  PROVE  DriverInv'
<1> DEFINE c == [call[u] EXCEPT !.done = call[u].done + 1]
<1>1. /\ Writing(u) /\ call[u].done < Len(call[u].text) /\ kernelBuffer' \in [Cells -> Bytes]
      /\ call' = [call EXCEPT ![u] = c]
      /\ UNCHANGED <<module, openCount, opens, file, got, overlapped>>
  BY WriteByteFacts DEF HasBuffer
<1>2. /\ call[u] \in [op : {"write", "pwrite"}, from : Nat, text : Seq(Values), done : Nat]
      /\ file[u] # Closed /\ (call[u].op = "write" => call[u].from = file[u])
      /\ call[u].op = "pwrite" => call[u].from \in Positions
      /\ MayGo(call[u].op, call[u].from, Len(call[u].text)) /\ Len(call[u].text) \in Nat
  BY <1>1, WritingFacts
<1>3. /\ c \in Call /\ c.op = call[u].op /\ c.op \in {"write", "pwrite"} /\ c.from = call[u].from
      /\ c.text = call[u].text /\ c.done = call[u].done + 1
  BY <1>2 DEF Call
<1>4. c.done <= Len(c.text)
  BY <1>1, <1>2, <1>3
<1> HIDE DEF c
<1>5. Effect(u, c, file[u], got[u])
  BY <1>1, <1>2, <1>3, <1>4, ReadyFacts DEF Effect
<1> QED BY <1>5, UserStep

LEMMA WriteStartStep ==
  ASSUME DriverInv, NEW u \in Users, NEW text \in Texts, NEW op \in {"write", "pwrite"}, NEW p,
         op = "write" => p = file[u], op = "pwrite" => p \in Positions,
         WriteStart(u, op, p, text)
  PROVE  DriverInv'
<1> DEFINE c == [op |-> op, from |-> p, text |-> text, done |-> 0]
<1>1. /\ file[u] # Closed /\ Fits(Rest(p), Len(text)) /\ Begins(u, c)
      /\ UNCHANGED <<module, kernelBuffer, openCount, opens, file, got>>
  BY DEF WriteStart, Ready, moduleVars, countVars
<1>2. text \in Seq(Values) /\ Len(text) \in Nat
  BY TextsAreSeqs
<1>3. p \in Nat /\ MayGo(op, p, Len(text))
  BY <1>1, <1>2, StartFits
<1>4. /\ c \in Call /\ c.op = op /\ c.from = p /\ c.text = text /\ c.done = 0
  BY <1>2, <1>3 DEF Call
<1> HIDE DEF c
<1>5. call' = [call EXCEPT ![u] = c] /\ overlapped' \subseteq Users
  BY <1>1, BeginsFacts, ReadyFacts
<1>6. Effect(u, c, file[u], got[u])
  BY <1>1, <1>2, <1>3, <1>4, <1>5, ReadyFacts DEF Effect
<1> QED BY <1>6, UserStep

\* The end of a copy.
EndsCall(u) == ReadEnd(u) \/ WriteEnd(u) \/ CopyKilled(u) \/ CopyStops(u)

LEMMA EndStep ==
  ASSUME DriverInv, NEW u \in Users, EndsCall(u)
  PROVE  DriverInv'
<1>1. /\ Copying(u) /\ call' = [call EXCEPT ![u] = Idle] /\ overlapped' = overlapped \ {u}
      /\ UNCHANGED <<module, kernelBuffer, openCount, opens>>
  BY DEF EndsCall, ReadEnd, WriteEnd, CopyKilled, CopyStops, Stuck, Copying, Returns, moduleVars, countVars
<1>2. call[u] # Idle /\ file[u] # Closed
  BY <1>1, ReadingFacts, WritingFacts DEF Copying
<1>3. PICK p \in 0..BUFFER_SIZE \cup {Closed} : file' = [file EXCEPT ![u] = p]
  <2>1. CASE CopyKilled(u)
    BY <2>1 DEF CopyKilled, Closes
  <2>2. CASE ReadEnd(u) \/ WriteEnd(u) \/ CopyStops(u)
    <3>1. Advances(u, Extent(u))
      BY <2>2 DEF ReadEnd, WriteEnd, CopyStops
    <3> QED BY <1>1, <3>1, AdvanceFacts
  <2> QED BY <2>1, <2>2 DEF EndsCall
<1>4. PICK g \in Record : got' = [got EXCEPT ![u] = g]
  <2>1. Reading(u) => [asked |-> Extent(u), data |-> call[u].data] \in Record
    BY ReadingFacts DEF Record
  <2>2. ReadEnd(u) => Reading(u)
    BY DEF ReadEnd
  <2> QED BY <1>2, <2>1, <2>2, ReadyFacts DEF EndsCall, ReadEnd, WriteEnd, CopyKilled, Closes, CopyStops
<1>5. p \in Int \cup {Closed} /\ (p # Closed => p \in 0..BUFFER_SIZE)
  BY SizeIsNat
<1>6. openCount' \in 0..opens /\ overlapped' \subseteq Users
  BY <1>1, <1>2, ReadyFacts
<1>7. Effect(u, Idle, p, g)
  BY <1>1, <1>2, <1>3, <1>4, <1>5, <1>6 DEF Effect
<1> QED BY <1>7, UserStep

\* Read and Write by their steps.
Starts(u) ==
  \/ \E length \in Lengths, op \in {"read", "pread"}, p \in Positions \cup {file[u]} :
       /\ op = "read" => p = file[u]
       /\ op = "pread" => p \in Positions
       /\ ReadStart(u, op, p, length)
  \/ \E text \in Texts, op \in {"write", "pwrite"}, p \in Positions \cup {file[u]} :
       /\ op = "write" => p = file[u]
       /\ op = "pwrite" => p \in Positions
       /\ WriteStart(u, op, p, text)

Refuses(u) == \E length \in Lengths, p \in Positions \cup {file[u]} : ReadTooLong(u, p, length)

LEMMA UserSteps ==
  ASSUME NEW u, \/ Open(u) \/ Close(u) \/ Seek(u) \/ Read(u) \/ Write(u)
                \/ CopyKilled(u) \/ CopyStops(u)
  PROVE  \/ Open(u) \/ Close(u) \/ Seek(u) \/ Starts(u) \/ Refuses(u)
         \/ ReadByte(u) \/ WriteByte(u) \/ EndsCall(u)
<1>1. CASE Read(u)
  <2>1. CASE \E length \in Lengths : ReadStart(u, "read", file[u], length)
    BY <2>1 DEF Starts
  <2>2. CASE \E length \in Lengths, p \in Positions : ReadStart(u, "pread", p, length)
    BY <2>2 DEF Starts
  <2>3. CASE \/ \E length \in Lengths : ReadTooLong(u, file[u], length)
             \/ \E length \in Lengths, p \in Positions : ReadTooLong(u, p, length)
    BY <2>3 DEF Refuses
  <2> QED BY <1>1, <2>1, <2>2, <2>3 DEF Read, EndsCall
<1>2. CASE Write(u)
  <2>1. CASE \E text \in Texts : WriteStart(u, "write", file[u], text)
    BY <2>1 DEF Starts
  <2>2. CASE \E text \in Texts, p \in Positions : WriteStart(u, "pwrite", p, text)
    BY <2>2 DEF Starts
  <2> QED BY <1>2, <2>1, <2>2 DEF Write, EndsCall
<1> QED BY <1>1, <1>2 DEF EndsCall

-----------------------------------------------------------------------------
(* The theorems.                                                           *)

LEMMA DriverStep == DriverInv /\ [Next]_vars => DriverInv'
<1> SUFFICES ASSUME DriverInv, [Next]_vars PROVE DriverInv'
  OBVIOUS
<1>1. CASE Register \/ Allocate \/ Unregister \/ Free
  BY <1>1, ModuleStep
<1>2. ASSUME NEW u \in Users, \/ Open(u) \/ Close(u) \/ Seek(u) \/ Read(u) \/ Write(u)
                              \/ CopyKilled(u) \/ CopyStops(u)
      PROVE  DriverInv'
  <2>1. CASE Starts(u)
    BY <2>1, ReadStartStep, WriteStartStep DEF Starts
  <2>2. CASE Refuses(u)
    BY <2>2, ReadTooLongStep DEF Refuses
  <2> QED BY <1>2, <2>1, <2>2, UserSteps, OpenStep, MoveStep, ReadByteStep, WriteByteStep, EndStep
<1>3. CASE UNCHANGED vars
  BY <1>3 DEF vars, moduleVars, countVars, DriverInv, TypeOK, CallsFit, CountBehind,
              OnlyPositionedLeave, BufferOutlivesFiles, BufferLives, Copying, Reading, Writing, Extent
<1> QED BY <1>1, <1>2, <1>3 DEF Next

LEMMA DriverInvHolds == Spec => []DriverInv
  BY InitDriver, DriverStep, PTL DEF Spec

\* Every variable keeps its type; in particular openCount never gets ahead of the opens.
THEOREM TypeCorrect == Spec => []TypeOK
  BY DriverInvHolds, PTL DEF DriverInv

\* Of any users in any order, with any lengths and positions: a copy leaves the buffer
\* only in a pread or pwrite that begins beyond its end, although the test against it
\* compares a signed number with an unsigned one (lines 17-41, 43-64).
THEOREM OthersStayInside == Spec => []OnlyPositionedLeave
  BY DriverInvHolds, PTL DEF DriverInv

\* rmmod never takes the buffer from under an open file (lines 133-141 and 162-168).
THEOREM NoUseAfterFree == Spec => []BufferOutlivesFiles
  BY DriverInvHolds, PTL DEF DriverInv


-----------------------------------------------------------------------------
(* The refinement of DeviceFile.                                           *)

\* Two copies under way at once are noted on both users.
OverlapsNoted ==
  \A u, v \in Users : Copying(u) /\ Copying(v) /\ u # v => u \in overlapped

\* Without a buffer nothing is copied, and what is copied to a user that no other has
\* overlapped is still in the buffer.
CopiesTrue ==
  /\ module = "registered" => kernelBuffer = NULL
  /\ \A u \in Users :
       /\ Writing(u) /\ call[u].done > 0 => HasBuffer
       /\ Reading(u) /\ Len(call[u].data) > 0 => HasBuffer
       /\ Reading(u) /\ u \notin overlapped =>
            \A k \in 1..Len(call[u].data) :
              call[u].from + k - 1 \in Cells => call[u].data[k] = kernelBuffer[call[u].from + k - 1]

ServedInv == DriverInv /\ OverlapsNoted /\ CopiesTrue

\* A step of u that is not a byte of a copy: u is then in no copy, or at the start of one.
Quiet(u, c) ==
  /\ module' = module /\ kernelBuffer' = kernelBuffer
  /\ call' = [call EXCEPT ![u] = c]
  /\ c # Idle /\ c.op \in {"read", "pread"} => Len(c.data) = 0
  /\ c # Idle /\ c.op \in {"write", "pwrite"} => c.done = 0
  /\ overlapped \ {u} \subseteq overlapped'

LEMMA QuietCopies ==
  ASSUME DriverInv, CopiesTrue, NEW u \in Users, NEW c, Quiet(u, c)
  PROVE  CopiesTrue'
<1>1. /\ \A v \in Users \ {u} : call'[v] = call[v]
      /\ call'[u] = c
  BY DEF DriverInv, TypeOK, Quiet
<1>2. \A v \in Users \ {u} : Reading(v)' = Reading(v) /\ Writing(v)' = Writing(v)
  BY <1>1 DEF Reading, Writing
<1>3. /\ Reading(u)' => Len(call'[u].data) = 0 /\ 1..Len(call'[u].data) = {}
      /\ Writing(u)' => call'[u].done = 0
  BY <1>1 DEF Reading, Writing, Quiet
<1>4. HasBuffer' = HasBuffer
  BY DEF Quiet, HasBuffer
<1>5. ASSUME NEW v \in Users
      PROVE  /\ Writing(v)' /\ call'[v].done > 0 => HasBuffer'
             /\ Reading(v)' /\ Len(call'[v].data) > 0 => HasBuffer'
             /\ Reading(v)' /\ v \notin overlapped' =>
                  \A k \in 1..Len(call'[v].data) : call'[v].from + k - 1 \in Cells =>
                    call'[v].data[k] = kernelBuffer'[call'[v].from + k - 1]
  <2>1. CASE v = u
    BY <2>1, <1>3
  <2>2. CASE v # u
    <3>1. /\ call'[v] = call[v] /\ Reading(v)' = Reading(v) /\ Writing(v)' = Writing(v)
          /\ kernelBuffer' = kernelBuffer /\ (v \notin overlapped' => v \notin overlapped)
      BY <2>2, <1>1, <1>2 DEF Quiet
    <3> QED BY <3>1, <1>4 DEF CopiesTrue
  <2> QED BY <2>1, <2>2
<1>6. module' = "registered" => kernelBuffer' = NULL
  BY DEF Quiet, CopiesTrue
<1> QED BY <1>5, <1>6 DEF CopiesTrue

\* The start of a copy notes every overlap it brings about.
LEMMA BeginsNotes ==
  ASSUME DriverInv, OverlapsNoted, NEW u \in Users, NEW c, call[u] = Idle, Begins(u, c)
  PROVE  OverlapsNoted' /\ (overlapped' = {} => \A v \in Users \ {u} : ~Copying(v) /\ ~Copying(v)')
<1> DEFINE others == {v \in Users : Copying(v)}
<1>1. overlapped' = overlapped \cup IF others = {} THEN {} ELSE others \cup {u}
  BY DEF Begins
<1>2. \A v \in Users \ {u} : call'[v] = call[v]
  BY DEF Begins, DriverInv, TypeOK
<1>3. \A v \in Users \ {u} : Copying(v)' = Copying(v)
  BY <1>2 DEF Copying, Reading, Writing
<1>4. \A v \in Users \ {u} : Copying(v)' => v \in others
  BY <1>3
<1>5. others # {} => others \cup {u} \subseteq overlapped'
  BY <1>1
<1>6. ASSUME NEW v \in Users, NEW w \in Users, Copying(v)', Copying(w)', v # w
      PROVE  v \in overlapped'
  <2>1. others # {}
    BY <1>4, <1>6
  <2>2. v \in others \cup {u}
    BY <1>4, <1>6
  <2> QED BY <2>1, <2>2, <1>5
<1>7. OverlapsNoted'
  BY <1>6 DEF OverlapsNoted
<1>8. overlapped' = {} => others = {}
  BY <1>5
<1> QED BY <1>3, <1>7, <1>8

\* A step of u that ends its copy or begins none.
LEMMA OthersNoted ==
  ASSUME DriverInv, OverlapsNoted, NEW u \in Users, NEW c, call' = [call EXCEPT ![u] = c],
         c # Idle => call[u] # Idle /\ c.op = call[u].op,
         overlapped' = overlapped \/ (c = Idle /\ overlapped' = overlapped \ {u})
  PROVE  OverlapsNoted'
<1>1. /\ \A v \in Users \ {u} : call'[v] = call[v]
      /\ call'[u] = c
  BY DEF DriverInv, TypeOK
<1>2. \A v \in Users : Copying(v)' => Copying(v)
  <2> SUFFICES ASSUME NEW v \in Users, Copying(v)' PROVE Copying(v)
    OBVIOUS
  <2>1. CASE v = u
    BY <2>1, <1>1 DEF Copying, Reading, Writing
  <2>2. CASE v # u
    BY <2>2, <1>1 DEF Copying, Reading, Writing
  <2> QED BY <2>1, <2>2
<1>3. c = Idle => ~Copying(u)'
  BY <1>1 DEF Copying, Reading, Writing
<1> QED BY <1>2, <1>3 DEF OverlapsNoted

\* The steps of a call that begin no copy.
LEMMA StillQuiet ==
  ASSUME DriverInv, OverlapsNoted, NEW u \in Users,
         Open(u) \/ Close(u) \/ Seek(u) \/ Refuses(u) \/ EndsCall(u)
  PROVE  OverlapsNoted' /\ \E c : Quiet(u, c)
<1> DriverInv /\ call \in [Users -> Call \cup {Idle}]
  BY DEF DriverInv, TypeOK
<1>1. CASE OpenRead(u)
  <2> DEFINE c == [op |-> "open", seen |-> openCount]
  <2>1. /\ call' = [call EXCEPT ![u] = c] /\ c.op = "open" /\ overlapped' = overlapped
        /\ module' = module /\ kernelBuffer' = kernelBuffer
    BY <1>1 DEF OpenRead, moduleVars
  <2>2. Quiet(u, c)
    BY <2>1 DEF Quiet
  <2>3. OverlapsNoted'
    <3>1. /\ \A v \in Users \ {u} : call'[v] = call[v]
          /\ call'[u].op = "open"
      BY <2>1
    <3>2. \A v \in Users : Copying(v)' => v # u /\ Copying(v)
      BY <3>1 DEF Copying, Reading, Writing
    <3> QED BY <2>1, <3>2 DEF OverlapsNoted
  <2> QED BY <2>2, <2>3
<1>2. CASE Close(u) \/ Seek(u) \/ Refuses(u)
  <2>1. /\ call[u] = Idle /\ call' = call /\ overlapped' = overlapped
        /\ module' = module /\ kernelBuffer' = kernelBuffer
    BY <1>2 DEF Close, Seek, Refuses, ReadTooLong, Ready, moduleVars
  <2>2. call' = [call EXCEPT ![u] = Idle]
    BY <2>1
  <2>3. Quiet(u, Idle)
    BY <2>1, <2>2 DEF Quiet
  <2> QED BY <2>1, <2>2, <2>3, OthersNoted
<1>3. CASE OpenWrite(u) \/ EndsCall(u)
  <2>1. /\ call' = [call EXCEPT ![u] = Idle]
        /\ overlapped' = overlapped \/ overlapped' = overlapped \ {u}
        /\ module' = module /\ kernelBuffer' = kernelBuffer
    BY <1>3 DEF OpenWrite, EndsCall, ReadEnd, WriteEnd, CopyKilled, CopyStops, Returns, moduleVars
  <2>2. Quiet(u, Idle)
    BY <2>1 DEF Quiet
  <2> QED BY <2>1, <2>2, OthersNoted
<1> QED BY <1>1, <1>2, <1>3 DEF Open

LEMMA CopiesModule ==
  ASSUME ServedInv, Register \/ Allocate \/ Unregister \/ Free
  PROVE  OverlapsNoted' /\ CopiesTrue'
<1>1. call' = call /\ file' = file /\ overlapped' = overlapped
  BY DEF Register, Allocate, Unregister, Free
<1>2. \A u \in Users : /\ Reading(u)' = Reading(u) /\ Writing(u)' = Writing(u)
                       /\ call'[u] = call[u]
  BY <1>1 DEF Reading, Writing
<1>3. OverlapsNoted'
  BY <1>1, <1>2 DEF ServedInv, OverlapsNoted, Copying
<1>4. CASE Register \/ Unregister \/ Free
  <2>1. module \notin {"registered", "in"} \/ Removable
    BY <1>4 DEF Register, Unregister, Free
  <2>2. \A u \in Users : ~Reading(u)' /\ ~Writing(u)'
    BY <2>1, <1>1 DEF ServedInv, DriverInv, BufferOutlivesFiles, Removable, Reading, Writing
  <2>3. module' = "registered" => kernelBuffer' = NULL
    BY <1>4 DEF Register, Unregister, Free
  <2> QED BY <1>3, <2>2, <2>3 DEF CopiesTrue
<1>5. CASE Allocate
  <2>1. kernelBuffer = NULL /\ module' = "in"
    BY <1>5 DEF Allocate, ServedInv, CopiesTrue
  <2>2. \A u \in Users : /\ ~(Writing(u) /\ call[u].done > 0)
                         /\ ~(Reading(u) /\ Len(call[u].data) > 0)
    BY <2>1, NoBuffer DEF ServedInv, CopiesTrue, HasBuffer
  <2>3. \A u \in Users : Reading(u) => Len(call[u].data) \in Nat
    BY ReadingFacts DEF ServedInv
  <2>4. \A u \in Users : Reading(u) => 1..Len(call[u].data) = {}
    BY <2>2, <2>3
  <2> QED BY <1>2, <1>3, <2>1, <2>2, <2>4 DEF CopiesTrue
<1> QED BY <1>4, <1>5

LEMMA CopiesStart ==
  ASSUME ServedInv, NEW u \in Users, Starts(u)
  PROVE  /\ OverlapsNoted' /\ CopiesTrue'
         /\ overlapped' = {} => \A v \in Users \ {u} : ~Copying(v) /\ ~Copying(v)'
<1>1. PICK c : /\ Begins(u, c) /\ module' = module /\ kernelBuffer' = kernelBuffer
               /\ call[u] = Idle
               /\ c.op \in {"read", "pread"} => Len(c.data) = 0
               /\ c.op \in {"write", "pwrite"} => c.done = 0
  <2>1. ASSUME NEW length, NEW op \in {"read", "pread"}, NEW p, ReadStart(u, op, p, length)
        PROVE  \E c : /\ Begins(u, c) /\ module' = module /\ kernelBuffer' = kernelBuffer
                      /\ call[u] = Idle
                      /\ c.op \in {"read", "pread"} => Len(c.data) = 0
                      /\ c.op \in {"write", "pwrite"} => c.done = 0
    <3> DEFINE d == [op |-> op, from |-> p, length |-> length, data |-> << >>]
    <3>1. Begins(u, d) /\ module' = module /\ kernelBuffer' = kernelBuffer /\ call[u] = Idle
      BY <2>1 DEF ReadStart, Ready, moduleVars
    <3>2. d.op = op /\ Len(d.data) = 0
      OBVIOUS
    <3> HIDE DEF d
    <3> QED BY <3>1, <3>2
  <2>2. ASSUME NEW text, NEW op \in {"write", "pwrite"}, NEW p, WriteStart(u, op, p, text)
        PROVE  \E c : /\ Begins(u, c) /\ module' = module /\ kernelBuffer' = kernelBuffer
                      /\ call[u] = Idle
                      /\ c.op \in {"read", "pread"} => Len(c.data) = 0
                      /\ c.op \in {"write", "pwrite"} => c.done = 0
    <3> DEFINE d == [op |-> op, from |-> p, text |-> text, done |-> 0]
    <3>1. Begins(u, d) /\ module' = module /\ kernelBuffer' = kernelBuffer /\ call[u] = Idle
      BY <2>2 DEF WriteStart, Ready, moduleVars
    <3>2. d.op = op /\ d.done = 0
      OBVIOUS
    <3> HIDE DEF d
    <3> QED BY <3>1, <3>2
  <2> QED BY <2>1, <2>2 DEF Starts
<1>2. Quiet(u, c)
  BY <1>1 DEF Quiet, Begins
<1> QED BY <1>1, <1>2, QuietCopies, BeginsNotes DEF ServedInv

LEMMA CopiesRead ==
  ASSUME ServedInv, NEW u \in Users, ReadByte(u)
  PROVE  OverlapsNoted' /\ CopiesTrue'
<1> DriverInv /\ CopiesTrue /\ OverlapsNoted /\ call \in [Users -> Call \cup {Idle}]
  BY DEF ServedInv, DriverInv, TypeOK
<1> DEFINE from == call[u].from
           old  == call[u].data
           byte == ByteAt(from + Len(old))
           c    == [call[u] EXCEPT !.data = Append(old, byte)]
<1>1. /\ Reading(u) /\ HasBuffer /\ call' = [call EXCEPT ![u] = c]
      /\ UNCHANGED <<module, kernelBuffer, overlapped>>
  BY ReadByteFacts
<1>2. /\ call[u] \in [op : {"read", "pread"}, from : Nat, length : Lengths, data : Seq(Bytes)]
      /\ call[u] # Idle
  BY <1>1, ReadingFacts
<1>3. /\ c.op = call[u].op /\ c.from = from /\ c.data = Append(old, byte)
      /\ old \in Seq(Bytes) /\ Len(old) \in Nat /\ from \in Nat
  BY <1>2
<1>4. OverlapsNoted'
  BY <1>1, <1>2, <1>3, OthersNoted
<1>5. /\ \A v \in Users \ {u} : call'[v] = call[v]
      /\ call'[u] = c
  BY <1>1
<1>6. \A v \in Users \ {u} : Reading(v)' = Reading(v) /\ Writing(v)' = Writing(v)
  BY <1>5 DEF Reading, Writing
<1>7. ~Writing(u)' /\ HasBuffer'
  BY <1>1, <1>2, <1>3, <1>5 DEF Writing, HasBuffer
<1>8. ASSUME u \notin overlapped, NEW k \in 1..Len(Append(old, byte)), from + k - 1 \in Cells
      PROVE  Append(old, byte)[k] = kernelBuffer[from + k - 1]
  <2>1. \A j \in 1..Len(old) : from + j - 1 \in Cells => old[j] = kernelBuffer[from + j - 1]
    BY <1>1, <1>8 DEF CopiesTrue
  <2>2. k \in 1..(Len(old) + 1)
    BY <1>3, <1>8
  <2> HIDE DEF old, from
  <2>3. CASE k = Len(old) + 1
    <3>1. from + k - 1 = from + Len(old)
      BY <2>3, <1>3
    <3>2. byte = kernelBuffer[from + k - 1]
      BY <3>1, <1>8 DEF ByteAt
    <3>3. Append(old, byte)[Len(old) + 1] = byte
      <4> HIDE DEF byte
      <4> QED BY <1>3
    <3> QED BY <2>3, <3>2, <3>3
  <2>4. CASE k # Len(old) + 1
    <3>1. k \in 1..Len(old)
      BY <2>2, <2>4, <1>3
    <3>2. Append(old, byte)[k] = old[k]
      <4> HIDE DEF byte
      <4> QED BY <3>1, <1>3
    <3> QED BY <3>1, <3>2, <2>1, <1>8
  <2> QED BY <2>3, <2>4
<1> HIDE DEF byte, old, from
<1>9. ASSUME NEW v \in Users
      PROVE  /\ Writing(v)' /\ call'[v].done > 0 => HasBuffer'
             /\ Reading(v)' /\ Len(call'[v].data) > 0 => HasBuffer'
             /\ Reading(v)' /\ v \notin overlapped' =>
                  \A k \in 1..Len(call'[v].data) : call'[v].from + k - 1 \in Cells =>
                    call'[v].data[k] = kernelBuffer'[call'[v].from + k - 1]
  <2>1. CASE v = u
    <3>1. call'[u].from = from /\ call'[u].data = Append(old, byte)
      BY <1>3, <1>5
    <3> QED BY <2>1, <3>1, <1>1, <1>7, <1>8
  <2>2. CASE v # u
    <3>1. call'[v] = call[v] /\ Reading(v)' = Reading(v) /\ Writing(v)' = Writing(v)
      BY <2>2, <1>5, <1>6
    <3> QED BY <3>1, <1>1, <1>7 DEF CopiesTrue
  <2> QED BY <2>1, <2>2
<1>10. module' = "registered" => kernelBuffer' = NULL
  BY <1>1 DEF CopiesTrue
<1> QED BY <1>4, <1>9, <1>10 DEF CopiesTrue

LEMMA CopiesWrite ==
  ASSUME ServedInv, NEW u \in Users, WriteByte(u)
  PROVE  OverlapsNoted' /\ CopiesTrue'
<1> DriverInv /\ CopiesTrue /\ OverlapsNoted /\ call \in [Users -> Call \cup {Idle}]
  BY DEF ServedInv, DriverInv, TypeOK
<1> DEFINE c == [call[u] EXCEPT !.done = call[u].done + 1]
<1>1. /\ Writing(u) /\ HasBuffer /\ HasBuffer' /\ call' = [call EXCEPT ![u] = c]
      /\ UNCHANGED <<module, overlapped>>
  BY WriteByteFacts
<1>2. c.op = call[u].op /\ call[u] # Idle
  BY <1>1, WritingFacts
<1>3. OverlapsNoted'
  BY <1>1, <1>2, OthersNoted
<1>4. /\ \A v \in Users \ {u} : call'[v] = call[v]
      /\ call'[u] = c
  BY <1>1
<1>5. \A v \in Users : Reading(v)' => v # u /\ Reading(v)
  BY <1>1, <1>2, <1>4 DEF Reading, Writing
<1>6. \A v \in Users : Reading(v) => v = u \/ v \in overlapped
  BY <1>1 DEF OverlapsNoted, Copying
<1>7. \A v \in Users : Reading(v)' => v \in overlapped'
  BY <1>1, <1>5, <1>6
<1>8. module' # "registered"
  BY <1>1, NoBuffer DEF CopiesTrue, HasBuffer
<1> QED BY <1>1, <1>3, <1>7, <1>8 DEF CopiesTrue

LEMMA ServedStep == ServedInv /\ [Next]_vars => ServedInv'
<1> SUFFICES ASSUME ServedInv, [Next]_vars PROVE ServedInv'
  OBVIOUS
<1>1. DriverInv /\ DriverInv' /\ OverlapsNoted /\ CopiesTrue
  BY DriverStep DEF ServedInv
<1>2. CASE UNCHANGED vars
  BY <1>1, <1>2 DEF vars, moduleVars, countVars, ServedInv, OverlapsNoted, CopiesTrue, Copying,
                    Reading, Writing, HasBuffer
<1>3. CASE Register \/ Allocate \/ Unregister \/ Free
  BY <1>1, <1>3, CopiesModule DEF ServedInv
<1>4. ASSUME NEW u \in Users, \/ Open(u) \/ Close(u) \/ Seek(u) \/ Read(u) \/ Write(u)
                              \/ CopyKilled(u) \/ CopyStops(u)
      PROVE  ServedInv'
  <2>1. CASE Open(u) \/ Close(u) \/ Seek(u) \/ Refuses(u) \/ EndsCall(u)
    <3>1. OverlapsNoted' /\ \E c : Quiet(u, c)
      BY <2>1, <1>1, StillQuiet
    <3> QED BY <3>1, <1>1, QuietCopies DEF ServedInv
  <2> QED BY <1>1, <1>4, <2>1, UserSteps, CopiesStart, CopiesRead, CopiesWrite DEF ServedInv
<1> QED BY <1>2, <1>3, <1>4 DEF Next

LEMMA ServedInvHolds == Spec => []ServedInv
<1>1. Init => OverlapsNoted /\ CopiesTrue
  BY DEF Init, OverlapsNoted, CopiesTrue, Copying, Reading, Writing
<1>2. Init => ServedInv
  BY <1>1, InitDriver DEF ServedInv
<1> QED BY <1>2, ServedStep, PTL DEF Spec


-----------------------------------------------------------------------------
(* The mapping, at a step of u that no other's copy overlaps.              *)

Cell(u, c) ==
  IF Writing(u) /\ c - call[u].from \in call[u].done..(Len(call[u].text) - 1)
  THEN call[u].text[c - call[u].from + 1] ELSE kernelBuffer[c]

CursorOf(u) == IF Writing(u) /\ call[u].op = "write" THEN file[u] + Len(call[u].text) ELSE file[u]

Solo(u) == \A v \in Users \ {u} : ~Copying(v)

LEMMA OneCopies ==
  ASSUME OverlapsNoted, overlapped = {}, NEW u \in Users, Copying(u)
  PROVE  Solo(u)
BY DEF OverlapsNoted, Solo

LEMMA CursorIs == Cursor = [w \in Users |-> CursorOf(w)]
  BY DEF Cursor, CursorOf

LEMMA StorageType ==
  ASSUME DriverInv
  PROVE  /\ HasBuffer => /\ Storage \in [Cells -> Bytes] /\ Storage # NULL
                         /\ Storage = [c \in Cells |-> Stored(c)]
         /\ ~HasBuffer => Storage = NULL
<1>1. ~HasBuffer <=> kernelBuffer \in {NULL, Freed}
  BY NoBuffer DEF DriverInv, TypeOK, HasBuffer
<1>2. ASSUME HasBuffer, NEW c \in Cells PROVE Stored(c) \in Bytes
  <2>1. CASE PendingOn(c) = {}
    BY <1>2, <2>1 DEF Stored, HasBuffer
  <2>2. CASE PendingOn(c) # {}
    <3>1. PICK u \in PendingOn(c) : Stored(c) = call[u].text[c - call[u].from + 1]
      BY <2>2 DEF Stored
    <3>2. /\ u \in Users /\ Writing(u)
          /\ c - call[u].from \in call[u].done..(Len(call[u].text) - 1)
      BY <3>1 DEF PendingOn
    <3>3. /\ call[u].text \in Seq(Values) /\ call[u].done \in Nat /\ call[u].from \in Nat
          /\ Len(call[u].text) \in Nat /\ c \in Int
      BY <1>2, <3>2, WritingFacts, SizeIsNat DEF Cells
    <3>4. c - call[u].from + 1 \in 1..Len(call[u].text)
      BY <3>2, <3>3
    <3>5. call[u].text[c - call[u].from + 1] \in Values
      BY <3>3, <3>4
    <3> QED BY <3>1, <3>5 DEF Bytes
  <2> QED BY <2>1, <2>2
<1>3. HasBuffer => Storage = [c \in Cells |-> Stored(c)] /\ Storage \in [Cells -> Bytes]
  BY <1>1, <1>2 DEF Storage
<1>4. ~HasBuffer => Storage = NULL
  BY <1>1 DEF Storage
<1> QED BY <1>3, <1>4, NoBuffer

LEMMA SoloCell ==
  ASSUME NEW u \in Users, Solo(u), NEW c
  PROVE  Stored(c) = Cell(u, c)
<1>1. \A v \in Users : v \in PendingOn(c) => v = u
  BY DEF Solo, PendingOn, Copying
<1>2. CASE Writing(u) /\ c - call[u].from \in call[u].done..(Len(call[u].text) - 1)
  <2>1. PendingOn(c) = {u}
    BY <1>1, <1>2 DEF PendingOn
  <2> QED BY <1>2, <2>1 DEF Stored, Cell
<1>3. CASE ~(Writing(u) /\ c - call[u].from \in call[u].done..(Len(call[u].text) - 1))
  <2>1. PendingOn(c) = {}
    BY <1>1, <1>3 DEF PendingOn
  <2> QED BY <1>3, <2>1 DEF Stored, Cell
<1> QED BY <1>2, <1>3

\* What the device holds while u alone copies.
LEMMA SoloStorage ==
  ASSUME DriverInv, NEW u \in Users, Solo(u)
  PROVE  HasBuffer => /\ Storage = [c \in Cells |-> Cell(u, c)]
                      /\ \A c \in Cells : Storage[c] = Cell(u, c)
BY StorageType, SoloCell

\* The same of the next state.
StorageTyped ==
  /\ HasBuffer => /\ Storage \in [Cells -> Bytes] /\ Storage # NULL
                  /\ Storage = [c \in Cells |-> Stored(c)]
  /\ ~HasBuffer => Storage = NULL

SoloStored(u) == HasBuffer => /\ Storage = [c \in Cells |-> Cell(u, c)]
                              /\ \A c \in Cells : Storage[c] = Cell(u, c)

LEMMA StorageNext == DriverInv' => StorageTyped'
<1>1. DriverInv => StorageTyped
  BY StorageType DEF StorageTyped
<1> QED BY <1>1, PTL

LEMMA SoloNext == DriverInv' => \A u \in Users : Solo(u)' => SoloStored(u)'
<1>1. DriverInv => \A u \in Users : Solo(u) => SoloStored(u)
  BY SoloStorage DEF SoloStored
<1>2. DriverInv' => (\A u \in Users : Solo(u) => SoloStored(u))'
  BY <1>1, PTL
<1> QED BY <1>2

\* A step that no write takes part in leaves the device as it is.
LEMMA QuietStorage ==
  ASSUME NEW u \in Users, kernelBuffer' = kernelBuffer, ~Writing(u), ~Writing(u)',
         \A v \in Users \ {u} : call'[v] = call[v]
  PROVE  Storage' = Storage
<1>1. \A v \in Users : Writing(v)' = Writing(v) /\ (Writing(v) => call'[v] = call[v])
  BY DEF Writing
<1>2. ASSUME NEW c PROVE PendingOn(c)' = PendingOn(c)
  BY <1>1 DEF PendingOn
<1>3. ASSUME NEW c \in Cells PROVE Stored(c)' = Stored(c)
  <2>1. CASE PendingOn(c) = {}
    BY <1>2, <2>1 DEF Stored
  <2>2. CASE PendingOn(c) # {}
    <3>1. (CHOOSE v \in PendingOn(c) : TRUE) \in PendingOn(c)
      BY <2>2
    <3>2. PICK w \in PendingOn(c) : w = CHOOSE v \in PendingOn(c) : TRUE
      BY <3>1
    <3>3. call'[w] = call[w]
      BY <1>1 DEF PendingOn
    <3>4. Stored(c) = call[w].text[c - call[w].from + 1]
      BY <2>2, <3>2 DEF Stored
    <3>5. Stored(c)' = call'[w].text[c - call'[w].from + 1]
      BY <1>2, <2>2, <3>2 DEF Stored
    <3> QED BY <3>3, <3>4, <3>5
  <2> QED BY <2>1, <2>2
<1> QED BY <1>3 DEF Storage

\* How the cursors go when the file and the call of u alone change.
LEMMA CursorMoves ==
  ASSUME NEW u \in Users, \A v \in Users \ {u} : call'[v] = call[v] /\ file'[v] = file[v]
  PROVE  /\ Cursor[u] = CursorOf(u)
         /\ Cursor' = [Cursor EXCEPT ![u] = CursorOf(u)']
         /\ CursorOf(u)' = CursorOf(u) => Cursor' = Cursor
<1>1. \A v \in Users \ {u} : CursorOf(v)' = CursorOf(v)
  BY DEF CursorOf, Writing
<1>2. Cursor' = [w \in Users |-> CursorOf(w)']
  BY DEF Cursor, CursorOf
<1> QED BY <1>1, <1>2, CursorIs

LEMMA CursorPlain ==
  ASSUME NEW u, ~Writing(u)
  PROVE  CursorOf(u) = file[u]
BY DEF CursorOf

\* What a step of u leaves alone.
LEMMA Elsewhere ==
  ASSUME DriverInv, NEW u \in Users,
         \/ Open(u) \/ Close(u) \/ Seek(u) \/ Starts(u) \/ Refuses(u)
         \/ ReadByte(u) \/ WriteByte(u) \/ EndsCall(u)
  PROVE  \A v \in Users \ {u} : call'[v] = call[v] /\ file'[v] = file[v]
<1> call \in [Users -> Call \cup {Idle}] /\ DOMAIN file = Users
  BY DEF DriverInv, TypeOK
<1>1. CASE Open(u) \/ Close(u) \/ Seek(u) \/ Refuses(u)
  BY <1>1 DEF Open, OpenRead, OpenWrite, Close, Closes, Seek, Refuses, ReadTooLong
<1>2. CASE Starts(u)
  BY <1>2 DEF Starts, ReadStart, WriteStart, Begins
<1>3. CASE ReadByte(u) \/ WriteByte(u)
  BY <1>3 DEF ReadByte, WriteByte
<1>4. CASE EndsCall(u)
  BY <1>4 DEF EndsCall, ReadEnd, WriteEnd, CopyKilled, CopyStops, Returns, Advances, Closes
<1> QED BY <1>1, <1>2, <1>3, <1>4

LEMMA MapModule ==
  ASSUME ServedInv, DriverInv', Register \/ Allocate \/ Unregister \/ Free
  PROVE  [Promise!Next]_(Promise!vars)
<1>1. call' = call /\ file' = file /\ got' = got
  BY DEF Register, Allocate, Unregister, Free
<1>2. Cursor' = Cursor
  BY <1>1 DEF Cursor, Writing
<1>3. Storage' \in [Promise!Cells -> Bytes] \cup {NULL}
  <2>1. (HasBuffer' => Storage' \in [Cells -> Bytes]) /\ (~HasBuffer' => Storage' = NULL)
    BY StorageNext DEF StorageTyped
  <2> QED BY <2>1 DEF Cells, Promise!Cells
<1>4. CASE Allocate
  <2>1. Storage = NULL
    BY <1>4, NoBuffer, StorageType DEF Allocate, ServedInv, CopiesTrue, HasBuffer
  <2> QED BY <1>1, <1>2, <1>3, <2>1 DEF Promise!Next, Promise!Load
<1>5. CASE Register \/ Unregister \/ Free
  <2>1. module \notin {"registered", "in"} \/ Removable
    BY <1>5 DEF Register, Unregister, Free
  <2>2. \A u \in Users : file[u] = Closed /\ call[u] = Idle
    BY <2>1 DEF ServedInv, DriverInv, BufferOutlivesFiles, Removable
  <2>3. \A w \in Users : Cursor[w] = Closed
    BY <2>2 DEF Cursor, Writing
  <2> QED BY <1>1, <1>2, <1>3, <2>3 DEF Promise!Next, Promise!Load
<1> QED BY <1>4, <1>5

LEMMA MapOpenClose ==
  ASSUME ServedInv, NEW u \in Users, Open(u) \/ Close(u) \/ Seek(u)
  PROVE  [Promise!Next]_(Promise!vars)
<1> DriverInv /\ call \in [Users -> Call \cup {Idle}] /\ DOMAIN file = Users
  BY DEF ServedInv, DriverInv, TypeOK
<1>1. kernelBuffer' = kernelBuffer
  BY DEF Open, OpenRead, OpenWrite, Close, Seek, moduleVars
<1>2. ~Writing(u) /\ ~Writing(u)'
  <2>1. call'[u] = call[u] \/ call'[u] = Idle \/ call'[u].op = "open"
    BY DEF Open, OpenRead, OpenWrite, Close, Seek
  <2>2. call[u] = Idle \/ call[u].op = "open"
    BY DEF Open, OpenRead, OpenWrite, Close, Seek, Ready
  <2> QED BY <2>1, <2>2 DEF Writing
<1>3. Storage' = Storage
  BY <1>1, <1>2, Elsewhere, QuietStorage
<1>4. /\ Cursor[u] = file[u] /\ Cursor' = [Cursor EXCEPT ![u] = file'[u]]
      /\ file'[u] = file[u] => Cursor' = Cursor
  <2>1. CursorOf(u) = file[u] /\ CursorOf(u)' = file'[u]
    BY <1>2 DEF CursorOf
  <2> QED BY <2>1, Elsewhere, CursorMoves
<1>5. CASE OpenRead(u)
  BY <1>3, <1>4, <1>5 DEF OpenRead, Promise!vars
<1>6. CASE OpenWrite(u)
  <2>1. file[u] = Closed /\ file'[u] = 0 /\ got' = got
    BY <1>6 DEF OpenWrite, DriverInv, CallsFit
  <2>2. Promise!Open(u)
    BY <1>3, <1>4, <2>1 DEF Promise!Open
  <2> QED BY <2>2 DEF Promise!Next
<1>7. CASE Close(u)
  <2>1. file'[u] = Closed /\ got' = [got EXCEPT ![u] = Promise!Nothing]
    BY <1>7 DEF Close, Closes, Nothing, Promise!Nothing
  <2>2. Promise!Close(u)
    BY <1>3, <1>4, <2>1 DEF Promise!Close
  <2> QED BY <2>2 DEF Promise!Next
<1>8. CASE Seek(u)
  <2>1. PICK p \in 0..BUFFER_SIZE : file'[u] = p
    BY <1>8 DEF Seek
  <2>2. file[u] # Closed /\ got' = got
    BY <1>8 DEF Seek, Ready
  <2>3. Promise!Seek(u)
    BY <1>3, <1>4, <2>1, <2>2 DEF Promise!Seek
  <2> QED BY <2>3 DEF Promise!Next
<1> QED BY <1>5, <1>6, <1>7, <1>8 DEF Open

\* The start and the bytes of a read do not show.
LEMMA MapReading ==
  ASSUME ServedInv, NEW u \in Users, Starts(u) \/ ReadByte(u), Reading(u)', ~Writing(u)
  PROVE  UNCHANGED Promise!vars
<1> DriverInv
  BY DEF ServedInv
<1>1. kernelBuffer' = kernelBuffer /\ file' = file /\ got' = got
  BY DEF Starts, ReadStart, WriteStart, ReadByte, moduleVars
<1>2. ~Writing(u)'
  BY DEF Reading, Writing
<1>3. Storage' = Storage
  BY <1>1, <1>2, Elsewhere, QuietStorage
<1>4. Cursor' = Cursor
  <2>1. CursorOf(u)' = CursorOf(u)
    BY <1>1, <1>2 DEF CursorOf
  <2> QED BY <2>1, Elsewhere, CursorMoves
<1> QED BY <1>1, <1>3, <1>4 DEF Promise!vars

\* A read within the buffer happens when it ends.
LEMMA MapReadEnd ==
  ASSUME ServedInv, overlapped = {}, NEW u \in Users, ReadEnd(u), ~(call[u].from > BUFFER_SIZE)
  PROVE  Promise!Next
<1> /\ DriverInv /\ CopiesTrue /\ OverlapsNoted
    /\ DOMAIN file = Users /\ DOMAIN got = Users /\ call \in [Users -> Call \cup {Idle}]
  BY DEF ServedInv, DriverInv, TypeOK
<1> DEFINE n == call[u].length
           p == call[u].from
           d == call[u].data
<1>1. /\ Reading(u) /\ ~Writing(u) /\ n \in Nat /\ n \in Lengths /\ p \in Nat /\ d \in Seq(Bytes)
      /\ call[u].op \in {"read", "pread"}
      /\ call[u].op = "read" => p = file[u]
      /\ call[u].op = "pread" => p \in Positions
      /\ file[u] # Closed /\ MayGo(call[u].op, p, n) /\ Extent(u) = n /\ Len(d) \in Nat
      /\ Copied(u) = Len(d)
  BY ReadingFacts DEF ReadEnd
<1>2. /\ kernelBuffer' = kernelBuffer
      /\ file' = IF call[u].op \in {"read", "write"} THEN [file EXCEPT ![u] = @ + n] ELSE file
      /\ got' = [got EXCEPT ![u] = [asked |-> n, data |-> d]] /\ call'[u] = Idle
      /\ Len(d) = n
  BY <1>1 DEF ReadEnd, Returns, Advances, Remaining, moduleVars
<1>3. ~Writing(u)'
  BY <1>2 DEF Writing
<1>4. /\ Storage' = Storage
      /\ Cursor[u] = file[u] /\ Cursor' = [Cursor EXCEPT ![u] = file'[u]]
      /\ file'[u] = file[u] => Cursor' = Cursor
  <2>1. EndsCall(u)
    BY DEF EndsCall
  <2>2. CursorOf(u) = file[u] /\ CursorOf(u)' = file'[u]
    BY <1>1, <1>3 DEF CursorOf
  <2> QED BY <1>1, <1>2, <1>3, <2>1, <2>2, Elsewhere, QuietStorage, CursorMoves
<1>5. p + n <= BUFFER_SIZE /\ p <= BUFFER_SIZE
  BY <1>1, SizeIsNat DEF MayGo
<1>6. Promise!Granted(p, n) = n
  <2>1. CASE HasBuffer
    <3>1. Promise!Left(p) = BUFFER_SIZE - p
      BY <2>1, <1>1, <1>5, SizeIsNat, StorageType DEF Promise!Left
    <3> HIDE DEF n, p
    <3>2. n <= BUFFER_SIZE - p
      BY <1>1, <1>5, SizeIsNat
    <3> QED BY <3>1, <3>2 DEF Promise!Granted
  <2>2. CASE ~HasBuffer
    <3>1. n = 0
      BY <2>2, <1>1, <1>2 DEF CopiesTrue
    <3>2. Promise!Left(p) = 0
      BY <2>2, StorageType DEF Promise!Left
    <3> HIDE DEF n, p
    <3> QED BY <3>1, <3>2 DEF Promise!Granted
  <2> QED BY <2>1, <2>2
<1>7. ASSUME NEW k \in 1..n PROVE d[k] = Storage[p + k - 1]
  <2>1. Len(d) > 0 /\ HasBuffer
    BY <1>1, <1>2 DEF CopiesTrue
  <2>2. p + k - 1 \in Cells
    BY <1>1, <1>5, SizeIsNat DEF Cells
  <2>3. d[k] = kernelBuffer[p + k - 1]
    BY <1>1, <1>2, <2>2 DEF CopiesTrue
  <2>4. Solo(u)
    BY <1>1, OneCopies DEF Copying
  <2>5. Storage[p + k - 1] = Cell(u, p + k - 1)
    BY <2>1, <2>2, <2>4, SoloStorage
  <2> QED BY <1>1, <2>3, <2>5 DEF Cell
<1>8. d = [k \in 1..n |-> Storage[p + k - 1]]
  <2> HIDE DEF n, p
  <2>1. d = [k \in 1..n |-> d[k]]
    BY <1>1, <1>2
  <2> HIDE DEF d
  <2> QED BY <1>7, <2>1
<1> HIDE DEF n, p, d
<1>9. Promise!Delivers(u, p, n)
  BY <1>2, <1>6, <1>8 DEF Promise!Delivers
<1>10. Cursor[u] # Closed
  BY <1>1, <1>4
<1>11. CASE call[u].op = "read"
  <2>1. p = Cursor[u] /\ Cursor' = [Cursor EXCEPT ![u] = Cursor[u] + n]
    BY <1>1, <1>2, <1>4, <1>11
  <2>2. Promise!Delivers(u, Cursor[u], n) /\ Promise!Granted(Cursor[u], n) = n
    BY <1>6, <1>9, <2>1
  <2>3. Promise!Read(u)
    BY <1>1, <1>4, <1>10, <2>1, <2>2 DEF Promise!Read
  <2> QED BY <2>3 DEF Promise!Next
<1>12. CASE call[u].op = "pread"
  <2>1. p \in Positions /\ Cursor' = Cursor
    BY <1>1, <1>2, <1>4, <1>12
  <2>2. Promise!ReadAt(u)
    BY <1>1, <1>4, <1>9, <1>10, <2>1 DEF Promise!ReadAt
  <2> QED BY <2>2 DEF Promise!Next
<1> QED BY <1>1, <1>11, <1>12

\* A write within the buffer happens when it starts, and one beyond its end not at all.
LEMMA MapWriteStart ==
  ASSUME ServedInv, overlapped' = {}, NEW u \in Users, NEW text \in Texts,
         NEW op \in {"write", "pwrite"}, NEW p,
         op = "write" => p = file[u], op = "pwrite" => p \in Positions,
         WriteStart(u, op, p, text), Starts(u), DriverInv',
         ~(kernelBuffer = NULL /\ op = "write")
  PROVE  [Promise!Next]_(Promise!vars)
<1> /\ DriverInv /\ call \in [Users -> Call \cup {Idle}] /\ DOMAIN file = Users
  BY DEF ServedInv, DriverInv, TypeOK
<1> DEFINE n == Len(text)
           range == p..(p + n - 1)
           w     == [c \in range |-> text[c - p + 1]]
           r     == [op |-> op, from |-> p, text |-> text, done |-> 0]
<1>1. /\ file[u] # Closed /\ call[u] = Idle /\ Fits(Rest(p), n) /\ Begins(u, r)
      /\ kernelBuffer' = kernelBuffer /\ file' = file /\ got' = got
  BY DEF WriteStart, Ready, moduleVars
<1>2. text \in Seq(Values) /\ n \in Nat /\ n \in Lengths
  <2>1. PICK m \in Lengths : text \in [1..m -> Values]
    BY DEF Texts
  <2>2. m \in Nat
    BY InputsAssumption
  <2> QED BY <2>1, <2>2, TextsAreSeqs
<1>3. p \in Nat /\ MayGo(op, p, n)
  BY <1>1, <1>2, StartFits
<1>4. call' = [call EXCEPT ![u] = r]
  BY <1>1 DEF Begins
<1>5. /\ call'[u].op = op /\ call'[u].from = p /\ call'[u].text = text /\ call'[u].done = 0
      /\ r \in Call /\ call'[u] = r
  BY <1>2, <1>3, <1>4 DEF Call
<1>6. Writing(u)' /\ ~Writing(u)
  BY <1>1, <1>5, IdleAssumption DEF Writing
<1>7. Solo(u) /\ Solo(u)'
  BY CopiesStart DEF Solo
<1>8. /\ Cursor[u] = file[u] /\ Cursor[u] # Closed
      /\ op = "write" => Cursor' = [Cursor EXCEPT ![u] = Cursor[u] + n]
      /\ op = "pwrite" => Cursor' = Cursor
  <2>1. CursorOf(u) = file[u]
    BY <1>6 DEF CursorOf
  <2>2. /\ op = "write" => CursorOf(u)' = file[u] + n
        /\ op = "pwrite" => CursorOf(u)' = file[u]
    BY <1>1, <1>5, <1>6 DEF CursorOf
  <2> QED BY <1>1, <2>1, <2>2, Elsewhere, CursorMoves
<1>9. HasBuffer' = HasBuffer
  BY <1>1 DEF HasBuffer
<1>10. CASE ~HasBuffer
  <2>1. kernelBuffer = NULL
    BY <1>1, <1>10, BufferThere
  <2>2. Storage = NULL /\ Storage' = NULL
    BY <1>9, <1>10, StorageType, StorageNext DEF StorageTyped
  <2> QED BY <1>1, <1>8, <2>1, <2>2 DEF Promise!vars
<1>11. ASSUME HasBuffer, NEW c \in Cells
       PROVE  /\ Storage[c] = kernelBuffer[c]
              /\ Cell(u, c)' = IF c - p \in 0..(n - 1) THEN text[c - p + 1] ELSE kernelBuffer[c]
  <2>1. Cell(u, c) = kernelBuffer[c]
    BY <1>6 DEF Cell
  <2>2. Storage[c] = kernelBuffer[c]
    BY <1>7, <1>11, <2>1, SoloStorage
  <2>3. Cell(u, c)' = IF c - p \in 0..(n - 1) THEN text[c - p + 1] ELSE kernelBuffer[c]
    BY <1>1, <1>5, <1>6 DEF Cell
  <2> QED BY <2>2, <2>3
<1>12. HasBuffer => Storage' = [c \in Cells |-> Cell(u, c)']
  BY <1>7, <1>9, SoloNext DEF SoloStored
<1>13. CASE HasBuffer /\ p > BUFFER_SIZE
  <2>1. op = "pwrite"
    <3>1. file[u] \in 0..BUFFER_SIZE
      BY <1>1, ReadyFacts
    <3>2. p # file[u]
      BY <1>3, <1>13, <3>1, SizeIsNat
    <3> QED BY <3>2
  <2>2. ASSUME NEW c \in Cells PROVE Cell(u, c)' = Storage[c]
    <3>1. c - p \notin 0..(n - 1)
      BY <1>2, <1>3, <1>13, SizeIsNat DEF Cells
    <3> QED BY <1>11, <1>13, <3>1
  <2>3. Storage = [c \in Cells |-> Storage[c]]
    BY <1>13, StorageType
  <2>4. Storage' = Storage
    BY <1>12, <1>13, <2>2, <2>3
  <2> QED BY <1>1, <1>8, <2>1, <2>4 DEF Promise!vars
<1>14. CASE HasBuffer /\ ~(p > BUFFER_SIZE)
  <2>1. p + n <= BUFFER_SIZE /\ p <= BUFFER_SIZE
    BY <1>2, <1>3, <1>14, SizeIsNat DEF MayGo
  <2>2. Storage # NULL /\ Promise!Left(p) = BUFFER_SIZE - p /\ n <= BUFFER_SIZE - p
    BY <1>2, <1>3, <1>14, <2>1, SizeIsNat, StorageType DEF Promise!Left
  <2>3. \A c \in range : c - p + 1 \in 1..n
    BY <1>2, <1>3
  <2>4. w \in [range -> Bytes]
    <3>1. \A c \in range : text[c - p + 1] \in Values
      BY <1>2, <2>3
    <3> QED BY <3>1 DEF Bytes
  <2>5. ASSUME NEW c \in Cells
        PROVE  Cell(u, c)' = IF c \in range THEN w[c] ELSE Storage[c]
    <3>1. c - p \in 0..(n - 1) <=> c \in range
      BY <1>2, <1>3, SizeIsNat DEF Cells
    <3> QED BY <1>11, <1>14, <3>1
  <2> HIDE DEF w
  <2>6. Storage' = [c \in Promise!Cells |-> IF c \in range THEN w[c] ELSE Storage[c]]
    BY <1>12, <1>14, <2>5 DEF Cells, Promise!Cells
  <2>7. Promise!Stores(p, n)
    BY <2>2, <2>4, <2>6 DEF Promise!Stores
  <2> HIDE DEF n
  <2>8. CASE op = "write"
    <3>1. p = Cursor[u]
      BY <1>8, <2>8
    <3>2. Promise!Write(u)
      BY <1>1, <1>2, <1>8, <2>7, <2>8, <3>1 DEF Promise!Write
    <3> QED BY <3>2 DEF Promise!Next
  <2>9. CASE op = "pwrite"
    <3>1. Promise!WriteAt(u)
      BY <1>1, <1>2, <1>8, <2>7, <2>9 DEF Promise!WriteAt
    <3> QED BY <3>1 DEF Promise!Next
  <2> QED BY <2>8, <2>9
<1> QED BY <1>10, <1>13, <1>14

\* The byte that reaches the buffer is the one that counted as stored.
LEMMA MapWriteByte ==
  ASSUME ServedInv, overlapped = {}, DriverInv', NEW u \in Users, WriteByte(u)
  PROVE  UNCHANGED Promise!vars
<1> DriverInv /\ OverlapsNoted /\ call \in [Users -> Call \cup {Idle}]
  BY DEF ServedInv, DriverInv, TypeOK
<1>1. /\ HasBuffer /\ HasBuffer' /\ Writing(u) /\ call[u].done < Len(call[u].text)
      /\ file' = file /\ got' = got /\ overlapped' = {}
      /\ call' = [call EXCEPT ![u] = [call[u] EXCEPT !.done = call[u].done + 1]]
      /\ kernelBuffer' = [c \in Cells |->
           IF c = call[u].from + call[u].done THEN call[u].text[call[u].done + 1]
           ELSE kernelBuffer[c]]
  BY WriteByteFacts
<1>2. /\ call[u] \in [op : {"write", "pwrite"}, from : Nat, text : Seq(Values), done : Nat]
      /\ Len(call[u].text) \in Nat
  BY <1>1, WritingFacts
<1>3. /\ call'[u] \in Call /\ call'[u].op = call[u].op /\ call'[u].from = call[u].from
      /\ call'[u].text = call[u].text /\ call'[u].done = call[u].done + 1
  BY <1>1, <1>2 DEF Call
<1>4. Writing(u)'
  BY <1>2, <1>3, IdleAssumption DEF Writing
<1>5. Cursor' = Cursor
  <2>1. CursorOf(u)' = CursorOf(u)
    BY <1>1, <1>3, <1>4 DEF CursorOf
  <2> QED BY <2>1, Elsewhere, CursorMoves
<1>6. Solo(u) /\ Solo(u)'
  <2>1. OverlapsNoted'
    BY CopiesWrite
  <2> QED BY <1>1, <1>4, <2>1, OneCopies DEF Solo, Copying, OverlapsNoted
<1>7. ASSUME NEW c \in Cells PROVE Cell(u, c)' = Cell(u, c)
  <2> DEFINE d == call[u].done
             t == call[u].text
             f == call[u].from
  <2>1. d \in Nat /\ Len(t) \in Nat /\ d < Len(t) /\ f \in Int /\ c \in Int
    BY <1>1, <1>2, SizeIsNat DEF Cells
  <2>2. Cell(u, c) = IF c - f \in d..(Len(t) - 1) THEN t[c - f + 1] ELSE kernelBuffer[c]
    BY <1>1 DEF Cell
  <2>3. Cell(u, c)' = IF c - f \in (d + 1)..(Len(t) - 1) THEN t[c - f + 1] ELSE kernelBuffer'[c]
    BY <1>1, <1>3, <1>4 DEF Cell
  <2>4. kernelBuffer'[c] = IF c = f + d THEN t[d + 1] ELSE kernelBuffer[c]
    BY <1>1
  <2> HIDE DEF d, t, f
  <2>5. CASE c = f + d
    <3>1. c - f = d
      BY <2>1, <2>5
    <3> QED BY <2>1, <2>2, <2>3, <2>4, <2>5, <3>1
  <2>6. CASE c # f + d
    <3>1. c - f \in d..(Len(t) - 1) <=> c - f \in (d + 1)..(Len(t) - 1)
      BY <2>1, <2>6
    <3> QED BY <2>2, <2>3, <2>4, <2>6, <3>1
  <2> QED BY <2>5, <2>6
<1>8. Storage = [c \in Cells |-> Cell(u, c)] /\ Storage' = [c \in Cells |-> Cell(u, c)']
  BY <1>1, <1>6, SoloStorage, SoloNext DEF SoloStored
<1>9. Storage' = Storage
  BY <1>7, <1>8
<1> QED BY <1>1, <1>5, <1>9 DEF Promise!vars

\* A write that ends has nothing more to store: all is copied, or what is left lies
\* outside the buffer, or there is none.
LEMMA MapWritten ==
  ASSUME ServedInv, overlapped = {}, DriverInv', NEW u \in Users, Writing(u),
         WriteEnd(u) \/ CopyKilled(u)
  PROVE  Storage' = Storage /\ ~Writing(u)'
<1> DriverInv /\ OverlapsNoted /\ call \in [Users -> Call \cup {Idle}]
  BY DEF ServedInv, DriverInv, TypeOK
<1>1. /\ kernelBuffer' = kernelBuffer /\ call'[u] = Idle
      /\ Remaining(u) = 0 \/ kernelBuffer = NULL \/ (Remaining(u) > 0 /\ Place(u) \notin Cells)
  BY DEF WriteEnd, CopyKilled, Stuck, Returns, moduleVars
<1>2. /\ call[u].from \in Nat /\ call[u].done \in Nat /\ Len(call[u].text) \in Nat
      /\ Extent(u) = Len(call[u].text) /\ Copied(u) = call[u].done
      /\ call[u].done <= Len(call[u].text)
      /\ MayGo(call[u].op, call[u].from, Len(call[u].text))
  BY WritingFacts
<1>3. ~Writing(u)' /\ HasBuffer' = HasBuffer
  BY <1>1 DEF Writing, HasBuffer
<1>4. Solo(u) /\ Solo(u)'
  <2>1. EndsCall(u)
    BY DEF EndsCall
  <2>2. Solo(u)
    BY OneCopies DEF Copying
  <2> QED BY <2>1, <2>2, Elsewhere DEF Solo, Copying, Reading, Writing
<1>5. ASSUME HasBuffer, NEW c \in Cells PROVE Cell(u, c)' = Cell(u, c)
  <2>1. kernelBuffer # NULL
    BY <1>5, NoBuffer DEF HasBuffer
  <2>2. c - call[u].from \notin call[u].done..(Len(call[u].text) - 1)
    <3>1. CASE Remaining(u) = 0
      BY <1>2, <3>1 DEF Remaining
    <3>2. CASE Remaining(u) > 0 /\ Place(u) \notin Cells
      <4>1. call[u].from + call[u].done \notin Cells /\ call[u].done < Len(call[u].text)
        BY <1>2, <3>2 DEF Place, Remaining
      <4>2. call[u].from > BUFFER_SIZE
        BY <1>2, <4>1, SizeIsNat DEF MayGo, Cells
      <4> QED BY <1>2, <4>2, SizeIsNat DEF Cells
    <3> QED BY <1>1, <2>1, <3>1, <3>2
  <2> QED BY <1>1, <1>3, <2>2 DEF Cell
<1>6. CASE HasBuffer
  <2>1. Storage = [c \in Cells |-> Cell(u, c)] /\ Storage' = [c \in Cells |-> Cell(u, c)']
    BY <1>3, <1>4, <1>6, SoloStorage, SoloNext DEF SoloStored
  <2> QED BY <1>3, <1>5, <1>6, <2>1
<1>7. CASE ~HasBuffer
  BY <1>3, <1>7, StorageType, StorageNext DEF StorageTyped
<1> QED BY <1>3, <1>6, <1>7

LEMMA MapWriteEnd ==
  ASSUME ServedInv, overlapped = {}, DriverInv', NEW u \in Users, WriteEnd(u)
  PROVE  UNCHANGED Promise!vars
<1> DriverInv /\ DOMAIN file = Users
  BY DEF ServedInv, DriverInv, TypeOK
<1>1. /\ Writing(u) /\ got' = got
      /\ file' = IF call[u].op \in {"read", "write"} THEN [file EXCEPT ![u] = @ + Extent(u)] ELSE file
  BY DEF WriteEnd, Advances
<1>2. Extent(u) = Len(call[u].text) /\ call[u].op \in {"write", "pwrite"}
  BY <1>1, WritingFacts
<1>3. Storage' = Storage /\ ~Writing(u)'
  BY <1>1, MapWritten
<1>4. CursorOf(u)' = CursorOf(u)
  BY <1>1, <1>2, <1>3 DEF CursorOf
<1>5. EndsCall(u)
  BY DEF EndsCall
<1>6. Cursor' = Cursor
  BY <1>4, <1>5, Elsewhere, CursorMoves
<1> QED BY <1>1, <1>3, <1>6 DEF Promise!vars

\* A process killed in a call has closed its file.
LEMMA MapKilled ==
  ASSUME ServedInv, overlapped = {}, DriverInv', NEW u \in Users, CopyKilled(u)
  PROVE  Promise!Close(u)
<1> DriverInv /\ DOMAIN file = Users /\ DOMAIN call = Users
  BY DEF ServedInv, DriverInv, TypeOK
<1>1. /\ Copying(u) /\ kernelBuffer' = kernelBuffer /\ call'[u] = Idle /\ file'[u] = Closed
      /\ got' = [got EXCEPT ![u] = Promise!Nothing]
  BY DEF CopyKilled, Stuck, Copying, Closes, Returns, Nothing, Promise!Nothing, moduleVars
<1>2. ~Writing(u)'
  BY <1>1 DEF Writing
<1>3. EndsCall(u)
  BY DEF EndsCall
<1>4. Storage' = Storage
  BY <1>1, <1>2, <1>3, MapWritten, Elsewhere, QuietStorage
<1>5. CursorOf(u)' = Closed
  BY <1>1, <1>2 DEF CursorOf
<1>6. Cursor' = [Cursor EXCEPT ![u] = Closed]
  BY <1>3, <1>5, Elsewhere, CursorMoves
<1> QED BY <1>1, <1>4, <1>6 DEF Promise!Close

\* A copy that stops is one without a buffer, or one beyond its end.
LEMMA StopsStray ==
  ASSUME DriverInv, NEW u \in Users, CopyStops(u)
  PROVE  Strays(u)
<1>1. CASE kernelBuffer = NULL
  BY <1>1 DEF Strays
<1>2. CASE kernelBuffer # NULL
  <2>1. Copying(u) /\ Remaining(u) > 0 /\ Place(u) \notin Cells
    BY <1>2 DEF CopyStops, Stuck
  <2>2. /\ call[u].from \in Nat /\ Copied(u) \in Nat /\ Extent(u) \in Nat
        /\ MayGo(call[u].op, call[u].from, Extent(u))
    BY <2>1, ReadingFacts, WritingFacts DEF Copying
  <2>3. call[u].from > BUFFER_SIZE
    BY <2>1, <2>2, SizeIsNat DEF MayGo, Place, Remaining, Cells
  <2> QED BY <2>3 DEF Strays
<1> QED BY <1>1, <1>2

-----------------------------------------------------------------------------

\* The call of a read is a read until it ends.
LEMMA ReadStartReads ==
  ASSUME DriverInv, NEW u \in Users, NEW length \in Lengths, NEW op \in {"read", "pread"}, NEW p,
         op = "read" => p = file[u], op = "pread" => p \in Positions,
         ReadStart(u, op, p, length)
  PROVE  Reading(u)' /\ ~Writing(u)
<1> DEFINE c == [op |-> op, from |-> p, length |-> length, data |-> << >>]
<1>1. /\ file[u] # Closed /\ Fits(Rest(p), length) /\ call[u] = Idle
      /\ call' = [call EXCEPT ![u] = c] /\ length \in Nat /\ DOMAIN call = Users
  BY InputsAssumption DEF ReadStart, Ready, Begins, DriverInv, TypeOK
<1>2. p \in Nat
  BY <1>1, StartFits
<1>3. c \in Call /\ c.op = op
  BY <1>2 DEF Call
<1> HIDE DEF c
<1> QED BY <1>1, <1>3, IdleAssumption DEF Reading, Writing

LEMMA ReadByteReads ==
  ASSUME DriverInv, NEW u \in Users, ReadByte(u)
  PROVE  Reading(u)' /\ ~Writing(u)
<1> DEFINE byte == ByteAt(call[u].from + Len(call[u].data))
           data == Append(call[u].data, byte)
           c    == [call[u] EXCEPT !.data = data]
<1>1. /\ Reading(u) /\ byte \in Bytes /\ call' = [call EXCEPT ![u] = c]
      /\ DOMAIN call = Users
  BY ReadByteFacts DEF DriverInv, TypeOK
<1> HIDE DEF byte
<1>2. call[u] \in [op : {"read", "pread"}, from : Nat, length : Lengths, data : Seq(Bytes)]
  BY <1>1, ReadingFacts
<1>3. data \in Seq(Bytes)
  BY <1>1, <1>2
<1> HIDE DEF data
<1>4. c \in Call /\ c.op \in {"read", "pread"}
  BY <1>2, <1>3, InputsAssumption DEF Call
<1> HIDE DEF c
<1> QED BY <1>1, <1>4, ReadingFacts, IdleAssumption DEF Reading

\* A step of the driver, as KeepsPromise allows it.
Promised ==
  [\/ overlapped # {} \/ overlapped' # {}
   \/ \E u \in Users : Strays(u)
   \/ Promise!Next]_(Promise!vars)

LEMMA MapStep ==
  ASSUME ServedInv, DriverInv', [Next]_vars
  PROVE  Promised
<1> DriverInv
  BY DEF ServedInv
<1> SUFFICES ASSUME overlapped = {}, overlapped' = {}, \A u \in Users : ~Strays(u)
             PROVE  [Promise!Next]_(Promise!vars)
  BY DEF Promised
<1>1. CASE UNCHANGED vars
  <2>1. Storage' = Storage /\ Cursor' = Cursor /\ got' = got
    BY <1>1 DEF vars, moduleVars, countVars, Storage, Stored, PendingOn, Cursor, Writing
  <2> QED BY <2>1 DEF Promise!vars
<1>2. CASE Register \/ Allocate \/ Unregister \/ Free
  BY <1>2, MapModule
<1>3. ASSUME NEW u \in Users, \/ Open(u) \/ Close(u) \/ Seek(u) \/ Read(u) \/ Write(u)
                              \/ CopyKilled(u) \/ CopyStops(u)
      PROVE  [Promise!Next]_(Promise!vars)
  <2>1. CASE Open(u) \/ Close(u) \/ Seek(u)
    BY <2>1, MapOpenClose
  <2>2. CASE Refuses(u) \/ CopyStops(u)
    <3>1. Strays(u)
      BY <2>2, StopsStray DEF Refuses, Strays
    <3> QED BY <3>1
  <2>3. CASE Starts(u)
    <3>1. ASSUME NEW length \in Lengths, NEW op \in {"read", "pread"}, NEW p,
                 op = "read" => p = file[u], op = "pread" => p \in Positions,
                 ReadStart(u, op, p, length)
          PROVE  UNCHANGED Promise!vars
      BY <2>3, <3>1, ReadStartReads, MapReading
    <3>2. ASSUME NEW text \in Texts, NEW op \in {"write", "pwrite"}, NEW p,
                 op = "write" => p = file[u], op = "pwrite" => p \in Positions,
                 WriteStart(u, op, p, text)
          PROVE  [Promise!Next]_(Promise!vars)
      <4>1. ~(kernelBuffer = NULL /\ op = "write")
        BY <3>2 DEF Strays
      <4> QED BY <2>3, <3>2, <4>1, MapWriteStart
    <3> QED BY <2>3, <3>1, <3>2 DEF Starts
  <2>4. CASE ReadByte(u)
    BY <2>4, ReadByteReads, MapReading
  <2>5. CASE WriteByte(u)
    BY <2>5, MapWriteByte
  <2>6. CASE ReadEnd(u)
    <3>1. ~(call[u].from > BUFFER_SIZE)
      BY <2>6 DEF Strays
    <3> QED BY <2>6, <3>1, MapReadEnd
  <2>7. CASE WriteEnd(u)
    BY <2>7, MapWriteEnd
  <2>8. CASE CopyKilled(u)
    BY <2>8, MapKilled DEF Promise!Next
  <2> QED BY <1>3, <2>1, <2>2, <2>3, <2>4, <2>5, <2>6, <2>7, <2>8, UserSteps DEF EndsCall
<1> QED BY <1>1, <1>2, <1>3 DEF Next

LEMMA MapInit == Init => Promise!Init
<1> SUFFICES ASSUME Init PROVE Promise!Init
  OBVIOUS
<1>1. Storage = NULL
  BY DEF Init, Storage
<1>2. Cursor = [w \in Users |-> Closed]
  BY DEF Init, Cursor, Writing
<1> QED BY <1>1, <1>2 DEF Init, Nothing, Promise!Init, Promise!Nothing

\* Any number of users get from the device what its comments promise, however loading,
\* unloading, a failed kmalloc, kills and the calls of others lie between their calls:
\* but for reads and writes that overlap, and for the three ways of Strays.
THEOREM UsersAreServed == Spec => KeepsPromise
<1>1. ServedInv => DriverInv
  BY DEF ServedInv
<1>2. ServedInv /\ ServedInv' /\ [Next]_vars => Promised
  <2>1. ServedInv' => DriverInv'
    BY DEF ServedInv
  <2> QED BY <2>1, MapStep
<1>3. Spec => Promise!Init /\ [][Promised]_(Promise!vars)
  BY <1>2, MapInit, ServedInvHolds, PTL DEF Spec
<1>4. Promise!Init /\ [][Promised]_(Promise!vars) => KeepsPromise
  <2>1. Promised => [\/ overlapped # {} \/ overlapped' # {}
                     \/ \E u \in Users : Strays(u)
                     \/ Promise!Next]_(Promise!vars)
    BY DEF Promised
  <2> QED BY <2>1, PTL DEF KeepsPromise
<1> QED BY <1>3, <1>4


-----------------------------------------------------------------------------
(* The test program.                                                       *)


Places == {"shell", "opening", "menu", "reading", "writing"}

PlacesOK ==
  /\ at \in [Users -> Places]
  /\ heap \in [Users -> Int] /\ refused \in [Users -> Nat]

\* Where a process is, by the call the driver has of it.
Agrees ==
  \A u \in Users : call[u] # Idle =>
    /\ call[u].op = "open"                => at[u] = "opening"
    /\ call[u].op \in {"read", "pread"}   => at[u] = "reading"
    /\ call[u].op \in {"write", "pwrite"} => at[u] = "writing"

ProgramInv == DriverInv /\ PlacesOK /\ Agrees /\ LeaksOnlyRefused

LEMMA InitProgram == ProgramInit => ProgramInv
<1> SUFFICES ASSUME ProgramInit PROVE ProgramInv
  OBVIOUS
<1>1. DriverInv BY InitDriver DEF ProgramInit
<1> QED BY <1>1 DEF ProgramInit, Init, ProgramInv, PlacesOK, Agrees, LeaksOnlyRefused, Places

\* A step of the program is a step of the driver's users, or none of the driver.
LEMMA ProgramIsUser == [ProgramNext]_allVars => [Next]_vars
<1> SUFFICES ASSUME ProgramNext PROVE [Next]_vars
  BY DEF allVars
<1>1. CASE Module
  BY <1>1 DEF Module, Next
<1>2. ASSUME NEW u \in Users, Process(u) PROVE [Next]_vars
  <2>1. CASE Start(u) \/ Opened(u) BY <2>1 DEF Start, Opened, Next, Open
  <2>2. CASE Terminate(u) \/ Killed(u) \/ ChooseSeek(u)
    BY <2>2 DEF Terminate, Killed, ChooseSeek, Next
  <2>3. CASE ChooseRead(u) \/ ChooseWrite(u)
    <3>1. Read(u) \/ Write(u) \/ UNCHANGED vars
      BY <2>3 DEF ChooseRead, AsksFor, Accepted, ChooseWrite, Read, Write
    <3> QED BY <3>1 DEF Next
  <2>4. CASE Refuse(u) \/ CallDone(u) BY <2>4 DEF Refuse, CallDone
  <2>5. CASE InDriver(u) BY <2>5 DEF InDriver, Next, Read, Write
  <2> QED BY <1>2, <2>1, <2>2, <2>3, <2>4, <2>5 DEF Process
<1> QED BY <1>1, <1>2 DEF ProgramNext

-----------------------------------------------------------------------------
(* A step of one process.                                                  *)

\* Process u gets to place p with h buffers and r refusals, and its call becomes c.
Moves(u, p, h, r, c) ==
  /\ at' = [at EXCEPT ![u] = p] /\ heap' = [heap EXCEPT ![u] = h]
  /\ refused' = [refused EXCEPT ![u] = r] /\ call' = [call EXCEPT ![u] = c]
  /\ p \in Places /\ h \in Int /\ r \in Nat
  /\ h = r + IF p \in {"reading", "writing"} THEN 1 ELSE 0
  /\ c # Idle => /\ c.op = "open"                => p = "opening"
                 /\ c.op \in {"read", "pread"}   => p = "reading"
                 /\ c.op \in {"write", "pwrite"} => p = "writing"

LEMMA MoveKeeps ==
  ASSUME ProgramInv, NEW u \in Users, NEW p, NEW h, NEW r, NEW c, Moves(u, p, h, r, c)
  PROVE  PlacesOK' /\ Agrees' /\ LeaksOnlyRefused'
<1>1. PlacesOK' BY DEF ProgramInv, PlacesOK, Moves
<1>2. /\ at'[u] = p /\ heap'[u] = h /\ refused'[u] = r /\ call'[u] = c
      /\ \A v \in Users \ {u} : /\ at'[v] = at[v] /\ heap'[v] = heap[v]
                                /\ refused'[v] = refused[v] /\ call'[v] = call[v]
  BY DEF ProgramInv, PlacesOK, DriverInv, TypeOK, Moves
<1>3. Agrees' BY <1>2 DEF ProgramInv, Agrees, Moves
<1>4. LeaksOnlyRefused' BY <1>2 DEF ProgramInv, LeaksOnlyRefused, Moves
<1> QED BY <1>1, <1>3, <1>4

\* What the invariant says of one process.
LEMMA ProcessFacts ==
  ASSUME ProgramInv, NEW u \in Users
  PROVE  /\ at[u] \in Places /\ heap[u] \in Int /\ refused[u] \in Nat
         /\ heap[u] = refused[u] + IF at[u] \in {"reading", "writing"} THEN 1 ELSE 0
         /\ at = [at EXCEPT ![u] = at[u]] /\ heap = [heap EXCEPT ![u] = heap[u]]
         /\ refused = [refused EXCEPT ![u] = refused[u]]
         /\ call = [call EXCEPT ![u] = call[u]]
BY DEF ProgramInv, PlacesOK, LeaksOnlyRefused, DriverInv, TypeOK

LEMMA StartStep ==
  ASSUME ProgramInv, NEW u \in Users, Start(u) \/ Opened(u) \/ Terminate(u) \/ Killed(u)
  PROVE  \E p, h, r, c : Moves(u, p, h, r, c)
<1>1. CASE Start(u)
  <2>1. Moves(u, "opening", heap[u], refused[u], [op |-> "open", seen |-> openCount])
    BY <1>1, ProcessFacts DEF Start, Goes, OpenRead, Moves, Places
  <2> QED BY <2>1
<1>2. CASE Opened(u)
  <2>1. Moves(u, "menu", heap[u], refused[u], Idle)
    BY <1>2, ProcessFacts DEF Opened, Goes, OpenWrite, Moves, Places
  <2> QED BY <2>1
<1>3. CASE Terminate(u) \/ Killed(u)
  <2>1. Moves(u, "shell", 0, 0, Idle)
    BY <1>3, ProcessFacts
    DEF Terminate, Killed, Gone, Close, Ready, CopyKilled, Returns, Moves, Places
  <2> QED BY <2>1
<1> QED BY <1>1, <1>2, <1>3

LEMMA MenuStep ==
  ASSUME ProgramInv, NEW u \in Users,
         ChooseRead(u) \/ ChooseWrite(u) \/ Refuse(u) \/ CallDone(u) \/ ChooseSeek(u)
  PROVE  \E p, h, r, c : Moves(u, p, h, r, c)
<1>1. at[u] = "menu" => call[u] = Idle
  <2>1. call[u] # Idle => call[u].op \in {"open", "read", "pread", "write", "pwrite"}
    BY DEF ProgramInv, DriverInv, TypeOK, Call
  <2> QED BY <2>1 DEF ProgramInv, Agrees
<1>2. CASE ChooseRead(u)
  <2>1. \E c : call' = [call EXCEPT ![u] = c] /\ (c # Idle => c.op = "read")
    <3>1. ASSUME NEW length, ReadStart(u, "read", file[u], length)
          PROVE  \E c : call' = [call EXCEPT ![u] = c] /\ (c # Idle => c.op = "read")
      <4> DEFINE d == [op |-> "read", from |-> file[u], length |-> length, data |-> << >>]
      <4>1. call' = [call EXCEPT ![u] = d]
        BY <3>1 DEF ReadStart, Begins
      <4>2. d.op = "read"
        OBVIOUS
      <4> HIDE DEF d
      <4> QED BY <4>1, <4>2
    <3>2. ASSUME NEW length, ReadTooLong(u, file[u], length)
          PROVE  call' = [call EXCEPT ![u] = Idle]
      BY <3>2, ProcessFacts DEF ReadTooLong, Ready
    <3> QED BY <1>2, <3>1, <3>2 DEF ChooseRead, AsksFor
  <2>2. PICK c : call' = [call EXCEPT ![u] = c] /\ (c # Idle => c.op = "read")
    BY <2>1
  <2>3. /\ Goes(u, "menu", "reading") /\ Mallocs(u) /\ UNCHANGED refused
        /\ heap[u] + 1 \in Int /\ heap[u] + 1 = refused[u] + 1
    BY <1>2, ProcessFacts DEF ChooseRead, Goes
  <2>4. Moves(u, "reading", heap[u] + 1, refused[u], c)
    BY <2>2, <2>3, ProcessFacts DEF Goes, Mallocs, Moves, Places
  <2> QED BY <2>4
<1>3. CASE ChooseWrite(u)
  <2>1. \E c : call' = [call EXCEPT ![u] = c] /\ (c # Idle => c.op = "write")
    <3>1. ASSUME NEW text, WriteStart(u, "write", file[u], text)
          PROVE  \E c : call' = [call EXCEPT ![u] = c] /\ (c # Idle => c.op = "write")
      <4> DEFINE d == [op |-> "write", from |-> file[u], text |-> text, done |-> 0]
      <4>1. call' = [call EXCEPT ![u] = d]
        BY <3>1 DEF WriteStart, Begins
      <4>2. d.op = "write"
        OBVIOUS
      <4> HIDE DEF d
      <4> QED BY <4>1, <4>2
    <3>2. CASE UNCHANGED vars
      BY <1>1, <1>3, <3>2, ProcessFacts DEF ChooseWrite, Goes, vars
    <3> QED BY <1>3, <3>1, <3>2 DEF ChooseWrite
  <2>2. PICK c : call' = [call EXCEPT ![u] = c] /\ (c # Idle => c.op = "write")
    BY <2>1
  <2>3. /\ Goes(u, "menu", "writing") /\ Mallocs(u) /\ UNCHANGED refused
        /\ heap[u] + 1 \in Int /\ heap[u] + 1 = refused[u] + 1
    BY <1>3, ProcessFacts DEF ChooseWrite, Goes
  <2>4. Moves(u, "writing", heap[u] + 1, refused[u], c)
    BY <2>2, <2>3, ProcessFacts DEF Goes, Mallocs, Moves, Places
  <2> QED BY <2>4
<1>4. CASE Refuse(u)
  <2>1. Moves(u, at[u], heap[u] + 1, refused[u] + 1, call[u])
    BY <1>4, <1>1, ProcessFacts DEF Refuse, Mallocs, vars, Moves
  <2> QED BY <2>1
<1>5. CASE CallDone(u)
  <2>1. Moves(u, "menu", heap[u] - 1, refused[u], Idle)
    BY <1>5, ProcessFacts DEF CallDone, Goes, Frees, vars, Moves, Places
  <2> QED BY <2>1
<1>6. CASE ChooseSeek(u)
  <2>1. Moves(u, at[u], heap[u], refused[u], Idle)
    BY <1>6, ProcessFacts DEF ChooseSeek, Seek, Ready, programVars, Moves
  <2> QED BY <2>1
<1> QED BY <1>2, <1>3, <1>4, <1>5, <1>6

\* Within a call the driver goes on with the same call or ends it.
LEMMA DriverKeepsCall ==
  ASSUME ProgramInv, NEW u \in Users, InDriver(u)
  PROVE  \E p, h, r, c : Moves(u, p, h, r, c)
<1>1. \E c : call' = [call EXCEPT ![u] = c] /\ (c # Idle => call[u] # Idle /\ c.op = call[u].op)
  <2>1. CASE ReadEnd(u) \/ WriteEnd(u) \/ CopyStops(u)
    BY <2>1 DEF ReadEnd, WriteEnd, CopyStops, Returns
  <2>2. CASE ReadByte(u)
    <3> DEFINE d == [call[u] EXCEPT !.data =
                      Append(call[u].data, ByteAt(call[u].from + Len(call[u].data)))]
    <3>1. /\ call[u] \in [op : {"read", "pread"}, from : Nat, length : Lengths, data : Seq(Bytes)]
          /\ call[u] # Idle /\ call' = [call EXCEPT ![u] = d]
      BY <2>2, ReadByteFacts, ReadingFacts DEF ProgramInv
    <3>2. d.op = call[u].op
      BY <3>1
    <3> HIDE DEF d
    <3> QED BY <3>1, <3>2
  <2>3. CASE WriteByte(u)
    <3> DEFINE d == [call[u] EXCEPT !.done = call[u].done + 1]
    <3>1. /\ call[u] \in [op : {"write", "pwrite"}, from : Nat, text : Seq(Values), done : Nat]
          /\ call[u] # Idle /\ call' = [call EXCEPT ![u] = d]
      BY <2>3, WriteByteFacts, WritingFacts DEF ProgramInv
    <3>2. d.op = call[u].op
      BY <3>1
    <3> HIDE DEF d
    <3> QED BY <3>1, <3>2
  <2> QED BY <2>1, <2>2, <2>3 DEF InDriver
<1>2. PICK c : call' = [call EXCEPT ![u] = c] /\ (c # Idle => call[u] # Idle /\ c.op = call[u].op)
  BY <1>1
<1>3. c # Idle => /\ c.op = "open"                => at[u] = "opening"
                  /\ c.op \in {"read", "pread"}   => at[u] = "reading"
                  /\ c.op \in {"write", "pwrite"} => at[u] = "writing"
  BY <1>2 DEF ProgramInv, Agrees
<1>4. Moves(u, at[u], heap[u], refused[u], c)
  BY <1>2, <1>3, ProcessFacts DEF InDriver, programVars, Moves
<1> QED BY <1>4

-----------------------------------------------------------------------------

LEMMA ProgramStep == ProgramInv /\ [ProgramNext]_allVars => ProgramInv'
<1> SUFFICES ASSUME ProgramInv, [ProgramNext]_allVars PROVE ProgramInv'
  OBVIOUS
<1>1. DriverInv' BY ProgramIsUser, DriverStep DEF ProgramInv
<1>2. PlacesOK' /\ Agrees' /\ LeaksOnlyRefused'
  <2>1. CASE UNCHANGED <<programVars, call>>
    BY <2>1 DEF programVars, ProgramInv, PlacesOK, Agrees, LeaksOnlyRefused
  <2>2. ASSUME NEW u \in Users, Process(u) PROVE PlacesOK' /\ Agrees' /\ LeaksOnlyRefused'
    BY <2>2, StartStep, MenuStep, DriverKeepsCall, MoveKeeps DEF Process
  <2>3. CASE Module
    BY <2>1, <2>3 DEF Module, Register, Allocate, Unregister, Free
  <2>4. CASE UNCHANGED allVars BY <2>1, <2>4 DEF allVars, vars
  <2> QED BY <2>2, <2>3, <2>4 DEF ProgramNext
<1> QED BY <1>1, <1>2 DEF ProgramInv

LEMMA ProgramInvHolds == ProgramSpec => []ProgramInv
  BY InitProgram, ProgramStep, PTL DEF ProgramSpec

\* A process loses a buffer for each input it refuses and for nothing else, for any
\* processes that share the driver (testProgram.c:57-91).
THEOREM BuffersAccounted == ProgramSpec => []LeaksOnlyRefused
<1>1. ProgramInv => LeaksOnlyRefused BY DEF ProgramInv
<1> QED BY <1>1, ProgramInvHolds, PTL

\* The driver copies only to and from a buffer the process has and waits with
\* (testProgram.c:71-76 and 88-91).
THEOREM CallsHaveBuffers == ProgramSpec => []BufferOutlivesCall
<1>1. ProgramInv => BufferOutlivesCall
  <2> SUFFICES ASSUME ProgramInv, NEW u \in Users, Reading(u) \/ Writing(u)
               PROVE  /\ Reading(u) => at[u] = "reading" /\ heap[u] > 0
                      /\ Writing(u) => at[u] = "writing" /\ heap[u] > 0
    BY DEF BufferOutlivesCall
  <2>1. (Reading(u) => at[u] = "reading") /\ (Writing(u) => at[u] = "writing")
    BY DEF ProgramInv, Agrees, Reading, Writing
  <2> QED BY <2>1, ProcessFacts
<1> QED BY <1>1, ProgramInvHolds, PTL

\* Any number of runs of testProgram.c read what was written, whatever inputs they refuse
\* and however they are killed (the calls of lines 71, 88 and 98): but for calls that
\* overlap, and for the ways in which the driver strays.
THEOREM ProgramIsServed == ProgramSpec => KeepsPromise
<1>1. ProgramInit => Init
  BY DEF ProgramInit
<1>2. ProgramSpec => Spec
  BY <1>1, ProgramIsUser, PTL DEF ProgramSpec, Spec
<1> QED BY <1>2, UsersAreServed, PTL

=============================================================================
