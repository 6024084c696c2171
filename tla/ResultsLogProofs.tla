---------------------------- MODULE ResultsLogProofs ---------------------------
(***************************************************************************)
(* What the results file of multi-lookup says, for any files, resolvers,   *)
(* streams and answers.  A line carries the answer to its own name: it     *)
(* rests on NameDelivery, by which no name is delivered twice, so that the *)
(* answer to a name that was printed does not change.  And each resolver's *)
(* lines are in the file in the order it printed them, the last ones apart *)
(* while the process runs, all of them once main has returned.             *)
(***************************************************************************)
EXTENDS ResultsLog, Induction

Text == {<<"name">>, <<"none">>, <<"UNHANDELED">>} \cup {<<"address", n>> : n \in Names}

LogTypes ==
  /\ printed \in [Resolvers -> Seq([of : Names, text : Text])]
  /\ answer \in [Names -> Answers \cup {<< >>}]
  /\ DOMAIN ipString = Resolvers

\* The names that have been read, and where each is.
Places ==
  /\ unread \in [Files -> Nat \ {0}]
  /\ stack \in Seq(Names) /\ held \subseteq Names /\ written \subseteq Names
  /\ \A n \in held \cup written : n[2] < unread[n[1]] /\ \A m \in DOMAIN stack : stack[m] # n
  /\ \A m \in DOMAIN stack : stack[m][2] < unread[stack[m][1]]
  /\ \A m, k \in DOMAIN stack : m # k => stack[m] # stack[k]
  /\ held \cap written = {}

\* What is printed belongs to names that are written.
PrintedWritten == \A v \in Resolvers : \A p \in Range(printed[v]) : p.of \in written

LogInv == LogTypes /\ Places /\ PrintedWritten /\ OwnAnswer

LEMMA NameIsPair ==
  ASSUME NEW n \in Names
  PROVE  n[1] \in Files /\ n[2] \in Nat /\ n[2] <= Lines[n[1]] /\ n = <<n[1], n[2]>>
<1>1. PICK f \in Files : n \in {f} \X (1..Lines[f])
  BY DEF Names
<1>2. Lines[f] \in Nat BY LinesAssumption
<1> QED BY <1>1, <1>2

LEMMA RangeOfJoin ==
  ASSUME NEW S, NEW s \in Seq(S), NEW t \in Seq(S)
  PROVE  s \o t \in Seq(S) /\ Range(s \o t) = Range(s) \cup Range(t)
<1>1. \A x : x \in Range(s) \/ x \in Range(t) => x \in Range(s \o t)
  <2>1. \A m \in DOMAIN s : m \in DOMAIN (s \o t) /\ (s \o t)[m] = s[m]
    OBVIOUS
  <2>2. \A m \in DOMAIN t : Len(s) + m \in DOMAIN (s \o t) /\ (s \o t)[Len(s) + m] = t[m]
    OBVIOUS
  <2> QED BY <2>1, <2>2 DEF Range
<1>2. \A x \in Range(s \o t) : x \in Range(s) \/ x \in Range(t)
  <2> SUFFICES ASSUME NEW m \in DOMAIN (s \o t)
               PROVE  (s \o t)[m] \in Range(s) \cup Range(t)
    BY DEF Range
  <2>1. CASE m <= Len(s)
    <3>1. m \in DOMAIN s /\ (s \o t)[m] = s[m] BY <2>1
    <3> QED BY <3>1 DEF Range
  <2>2. CASE m > Len(s)
    <3>1. m - Len(s) \in DOMAIN t /\ (s \o t)[m] = t[m - Len(s)] BY <2>2
    <3> QED BY <3>1 DEF Range
  <2> QED BY <2>1, <2>2
<1>3. s \o t \in Seq(S) OBVIOUS
<1> QED BY <1>1, <1>2, <1>3

-----------------------------------------------------------------------------
(* The transport of names: NameDelivery.                                   *)

LEMMA PutKeeps ==
  ASSUME Places, NEW f \in Files, Put(f)
  PROVE  Places'
<1> DEFINE n == <<f, unread[f]>>
<1>1. /\ unread[f] \in Nat \ {0} /\ stack' = Append(stack, n) /\ UNCHANGED <<held, written>>
      /\ unread' = [unread EXCEPT ![f] = @ + 1] /\ unread[f] <= Lines[f] /\ Lines[f] \in Nat
  BY LinesAssumption DEF Put, Places
<1>2. n \in Names /\ n[1] = f /\ n[2] = unread[f]
  BY <1>1 DEF Names
<1>3. \A k \in Names : k[2] < unread[k[1]] => k[2] < unread'[k[1]] /\ k # n
  BY <1>1, <1>2, NameIsPair DEF Places
<1>4. n[2] < unread'[n[1]]
  BY <1>1, <1>2 DEF Places
<1> HIDE DEF n
<1>5. \A m \in DOMAIN stack' :
        \/ m \in DOMAIN stack /\ stack'[m] = stack[m] /\ stack[m] \in Names
        \/ m = Len(stack) + 1 /\ stack'[m] = n
  BY <1>1, <1>2 DEF Places
<1>6. unread' \in [Files -> Nat \ {0}] /\ stack' \in Seq(Names)
  BY <1>1, <1>2 DEF Places
<1>7. \A k \in held' \cup written' : k[2] < unread'[k[1]] /\ \A m \in DOMAIN stack' : stack'[m] # k
  BY <1>1, <1>3, <1>5 DEF Places
<1>8. \A m \in DOMAIN stack' : stack'[m][2] < unread'[stack'[m][1]]
  BY <1>3, <1>4, <1>5 DEF Places
<1>9. \A m, k \in DOMAIN stack' : m # k => stack'[m] # stack'[k]
  BY <1>3, <1>5 DEF Places
<1> QED BY <1>1, <1>6, <1>7, <1>8, <1>9 DEF Places

LEMMA TakeKeeps ==
  ASSUME Places, Take
  PROVE  Places'
<1> DEFINE n == stack[Len(stack)]
<1>1. /\ Len(stack) \in Nat /\ Len(stack) > 0
      /\ stack' = SubSeq(stack, 1, Len(stack) - 1)
      /\ held' = held \cup {n} /\ UNCHANGED <<unread, written>>
  BY DEF Take, Places
<1>2. n \in Names /\ n[2] < unread[n[1]] /\ n \notin written
  BY <1>1 DEF Places
<1>3. \A m \in DOMAIN stack' :
        m \in DOMAIN stack /\ stack'[m] = stack[m] /\ m # Len(stack)
  BY <1>1 DEF Places
<1>4. stack' \in Seq(Names) BY <1>1 DEF Places
<1>5. \A m \in DOMAIN stack' : stack'[m] # n
  BY <1>1, <1>3 DEF Places
<1> HIDE DEF n
<1> QED BY <1>1, <1>2, <1>3, <1>4, <1>5 DEF Places

LEMMA WriteKeeps ==
  ASSUME Places, NEW n \in Names, Write(n)
  PROVE  Places' /\ n \notin written /\ written' = written \cup {n}
BY DEF Places, Write

-----------------------------------------------------------------------------
(* What is printed.                                                        *)

\* The pieces of a line for name n, printed after the answer list.
OwnLine(line, n, list) ==
  \A p \in Range(line) :
    /\ p.of = n
    /\ p.text = <<"none">> <=> p.text # <<"name">> /\ list = << >>
    /\ p.text[1] = "address" => p.text[2] = n /\ list[1] = "AF_INET"

LEMMA LineIsOwn ==
  ASSUME NEW n \in Names, NEW list \in Answers, NEW text,
         list = << >> => text = <<"none">>, list # << >> => text = FirstIP(n, list)
  PROVE  /\ Line(n, text) \in Seq([of : Names, text : Text])
         /\ OwnLine(Line(n, text), n, list)
         /\ text \in Text /\ text # <<"name">>
<1>1. text \in Text /\ text # <<"name">>
      /\ (text = <<"none">> <=> list = << >>)
      /\ (text[1] = "address" => text[2] = n /\ list[1] = "AF_INET")
  <2>1. CASE list = << >> BY <2>1 DEF Text
  <2>2. CASE list # << >> /\ list[1] = "AF_INET"
    <3>1. text = <<"address", n>> BY <2>2 DEF FirstIP
    <3>2. text[1] = "address" /\ text[2] = n BY <3>1
    <3>3. <<"none">>[1] = "none" /\ <<"name">>[1] = "name" OBVIOUS
    <3>4. text # <<"none">> /\ text # <<"name">> BY <3>2, <3>3
    <3> QED BY <2>2, <3>1, <3>2, <3>4 DEF Text
  <2>3. CASE list # << >> /\ list[1] # "AF_INET"
    <3>1. text = <<"UNHANDELED">> BY <2>3 DEF FirstIP
    <3> QED BY <2>3, <3>1 DEF Text
  <2> QED BY <2>1, <2>2, <2>3
<1> DEFINE a == Piece(n, <<"name">>)
           b == Piece(n, text)
<1>2. /\ a \in [of : Names, text : Text] /\ a.of = n /\ a.text = <<"name">>
      /\ b \in [of : Names, text : Text] /\ b.of = n /\ b.text = text
  BY <1>1 DEF Piece, Text
<1>3. Line(n, text) = <<a, b>> BY DEF Line
<1> HIDE DEF a, b
<1>4. Line(n, text) \in Seq([of : Names, text : Text]) BY <1>2, <1>3
<1>5. \A p \in Range(Line(n, text)) : p = a \/ p = b BY <1>3 DEF Range
<1>6. <<"name">> # <<"none">> /\ <<"name">>[1] # "address" OBVIOUS
<1> QED BY <1>1, <1>2, <1>4, <1>5, <1>6 DEF OwnLine

LEMMA ResolvePrints ==
  ASSUME LogInv, NEW v \in Resolvers, NEW n \in Names, NEW list \in Answers, Resolve(v, n, list)
  PROVE  /\ Places' /\ n \notin written /\ written' = written \cup {n}
         /\ \E text : /\ list = << >> => text = <<"none">>
                      /\ list # << >> => text = FirstIP(n, list)
                      /\ Fprintf(v, Line(n, text))
<1>1. Places' /\ n \notin written /\ written' = written \cup {n}
  BY WriteKeeps DEF LogInv, Resolve
<1>2. CASE list = << >> BY <1>1, <1>2 DEF Resolve
<1>3. CASE list # << >>
  <2>1. ipString' = [ipString EXCEPT ![v] = FirstIP(n, list)] /\ Fprintf(v, Line(n, ipString'[v]))
    BY <1>3 DEF Resolve
  <2>2. ipString'[v] = FirstIP(n, list) BY <2>1 DEF LogInv, LogTypes
  <2> QED BY <1>1, <1>3, <2>1, <2>2
<1> QED BY <1>2, <1>3

LEMMA ResolveKeeps ==
  ASSUME LogInv, NEW v \in Resolvers, NEW n \in Names, NEW list \in Answers, Resolve(v, n, list)
  PROVE  LogInv'
<1>1. Places' /\ n \notin written /\ written' = written \cup {n}
  BY ResolvePrints
<1>2. PICK text : /\ list = << >> => text = <<"none">>
                  /\ list # << >> => text = FirstIP(n, list)
                  /\ Fprintf(v, Line(n, text))
  BY ResolvePrints
<1> DEFINE line == Line(n, text)
<1>3. /\ line \in Seq([of : Names, text : Text])
      /\ OwnLine(line, n, list)
  BY <1>2, LineIsOwn
<1>4. answer' = [answer EXCEPT ![n] = list] /\ DOMAIN ipString' = Resolvers
  BY DEF Resolve, LogInv, LogTypes
<1>5. printed' = [printed EXCEPT ![v] = printed[v] \o line]
  BY <1>2 DEF Fprintf
<1> HIDE DEF line
<1>6. LogTypes'
  <2>1. printed[v] \o line \in Seq([of : Names, text : Text])
    <3>1. printed[v] \in Seq([of : Names, text : Text]) BY DEF LogInv, LogTypes
    <3> QED BY <1>3, <3>1, RangeOfJoin
  <2>2. printed' \in [Resolvers -> Seq([of : Names, text : Text])]
    BY <1>5, <2>1 DEF LogInv, LogTypes
  <2>3. answer' \in [Names -> Answers \cup {<< >>}]
    BY <1>4 DEF LogInv, LogTypes
  <2> QED BY <1>4, <2>2, <2>3 DEF LogTypes
<1>7. ASSUME NEW w \in Resolvers, NEW p \in Range(printed'[w])
      PROVE  (p \in Range(printed[w]) /\ p.of # n /\ p.of \in written) \/ p \in Range(line)
  <2>1. printed[v] \in Seq([of : Names, text : Text]) BY DEF LogInv, LogTypes
  <2>2. p \in Range(printed[w]) \/ p \in Range(line)
    <3>1. CASE w = v
      <4>1. printed'[v] = printed[v] \o line BY <1>5 DEF LogInv, LogTypes
      <4> QED BY <1>3, <1>7, <2>1, <3>1, <4>1, RangeOfJoin
    <3>2. CASE w # v
      BY <1>5, <1>7, <3>2 DEF LogInv, LogTypes
    <3> QED BY <3>1, <3>2
  <2>3. p \in Range(printed[w]) => p.of \in written BY DEF LogInv, PrintedWritten
  <2> QED BY <1>1, <2>2, <2>3
<1>8. PrintedWritten'
  BY <1>1, <1>3, <1>7 DEF PrintedWritten, OwnLine
<1>9. OwnAnswer'
  <2> SUFFICES ASSUME NEW w \in Resolvers, NEW p \in Range(printed'[w])
               PROVE  /\ p.text = <<"none">> <=> p.text # <<"name">> /\ answer'[p.of] = << >>
                      /\ p.text[1] = "address" => p.text[2] = p.of /\ answer'[p.of][1] = "AF_INET"
    BY DEF OwnAnswer
  <2>1. CASE p \in Range(printed[w]) /\ p.of # n /\ p.of \in written
    <3>1. answer'[p.of] = answer[p.of]
      BY <1>4, <2>1 DEF LogInv, LogTypes, Places
    <3> QED BY <2>1, <3>1 DEF LogInv, OwnAnswer
  <2>2. CASE p \in Range(line)
    <3>1. answer'[n] = list BY <1>4 DEF LogInv, LogTypes
    <3> QED BY <1>3, <2>2, <3>1 DEF OwnLine
  <2> QED BY <1>7, <2>1, <2>2
<1> QED BY <1>1, <1>6, <1>8, <1>9 DEF LogInv

-----------------------------------------------------------------------------

LEMMA InitLog == LogInit => LogInv
<1> SUFFICES ASSUME LogInit PROVE LogInv
  OBVIOUS
<1>1. LogTypes BY DEF LogInit, LogTypes
<1>2. Places BY DEF LogInit, Init, Places
<1>3. \A v \in Resolvers : Range(printed[v]) = {} BY DEF LogInit, Range
<1> QED BY <1>1, <1>2, <1>3 DEF LogInv, PrintedWritten, OwnAnswer

\* Steps that print nothing.
LEMMA SilentStep ==
  ASSUME LogInv, UNCHANGED <<printed, answer, ipString>>, Places', written' = written
  PROVE  LogInv'
BY DEF LogInv, LogTypes, PrintedWritten, OwnAnswer

LEMMA LogStep == LogInv /\ [LogNext]_<<vars, logVars>> => LogInv'
<1> SUFFICES ASSUME LogInv, [LogNext]_<<vars, logVars>> PROVE LogInv'
  OBVIOUS
<1>1. CASE UNCHANGED <<unread, stack, held, written>> /\ UNCHANGED <<printed, answer, ipString>>
  BY <1>1, SilentStep DEF LogInv, Places
<1>2. CASE Transport
  <2>1. UNCHANGED <<printed, answer, ipString>> /\ written' = written
    BY <1>2 DEF Transport, logVars, Put, Take
  <2>2. Places' BY <1>2, PutKeeps, TakeKeeps DEF Transport, LogInv
  <2> QED BY <2>1, <2>2, SilentStep
<1>3. CASE clearLogs \/ CheckArguments \/ Finish \/ Killed
  BY <1>1, <1>3 DEF clearLogs, CheckArguments, Finish, Killed, Return, Fail, vars, logVars
<1>4. ASSUME NEW v \in Resolvers, OpenResults(v) \/ Flush(v) PROVE LogInv'
  BY <1>1, <1>4 DEF OpenResults, Flush, vars
<1>5. CASE UNCHANGED <<vars, logVars>> BY <1>1, <1>5 DEF vars, logVars
<1> QED BY <1>2, <1>3, <1>4, <1>5, ResolveKeeps DEF LogNext

\* A line carries the answer to its own name and to no other, also after a lookup that
\* failed and left the last address in the string it is printed from
\* (multi-lookup.c:98 and 119-124).
THEOREM AnswersMatch == LogSpec => []OwnAnswer
<1>1. LogInv => OwnAnswer BY DEF LogInv
<1> QED BY <1>1, InitLog, LogStep, PTL DEF LogSpec

-----------------------------------------------------------------------------
(* Concatenation.                                                          *)

\* Concatenation, kept apart from what the provers know of \o.
Join(s, t) == s \o t

LEMMA JoinType ==
  ASSUME NEW U, NEW s \in Seq(U), NEW t \in Seq(U)
  PROVE  Join(s, t) \in Seq(U) /\ Range(Join(s, t)) = Range(s) \cup Range(t)
BY RangeOfJoin DEF Join

LEMMA JoinEmpty ==
  ASSUME NEW U, NEW s \in Seq(U)
  PROVE  Join(s, << >>) = s /\ Join(<< >>, s) = s
BY DEF Join

LEMMA JoinAssoc ==
  ASSUME NEW U, NEW r \in Seq(U), NEW s \in Seq(U), NEW t \in Seq(U)
  PROVE  Join(Join(r, s), t) = Join(r, Join(s, t))
BY DEF Join

LEMMA SameSeq ==
  ASSUME NEW U, NEW s \in Seq(U), NEW t \in Seq(U), Len(s) = Len(t),
         \A i \in 1..Len(s) : s[i] = t[i]
  PROVE  s = t
OBVIOUS

LEMMA JoinIs ==
  ASSUME NEW U, NEW a \in Seq(U), NEW b \in Seq(U), NEW s \in Seq(U),
         Len(a) + Len(b) = Len(s),
         \A i \in 1..Len(a) : a[i] = s[i],
         \A i \in 1..Len(b) : b[i] = s[Len(a) + i]
  PROVE  Join(a, b) = s
<1>1. /\ a \o b \in Seq(U) /\ Len(a \o b) = Len(s)
      /\ \A i \in 1..Len(s) : (a \o b)[i] = IF i <= Len(a) THEN a[i] ELSE b[i - Len(a)]
  OBVIOUS
<1>2. \A i \in 1..Len(s) : (a \o b)[i] = s[i]
  <2> SUFFICES ASSUME NEW i \in 1..Len(s) PROVE (a \o b)[i] = s[i]
    OBVIOUS
  <2>1. CASE i <= Len(a) BY <1>1, <2>1
  <2>2. CASE i > Len(a)
    <3>1. i - Len(a) \in 1..Len(b) /\ Len(a) + (i - Len(a)) = i BY <2>2
    <3> QED BY <1>1, <2>2, <3>1
  <2> QED BY <2>1, <2>2
<1>3. PICK t \in Seq(U) : t = a \o b BY <1>1
<1>4. t = s BY <1>1, <1>2, <1>3, SameSeq
<1> QED BY <1>3, <1>4 DEF Join

\* a holds the first k elements of s, b the others.
Split(s, k, a, b) == a = SubSeq(s, 1, k) /\ b = SubSeq(s, k + 1, Len(s))

LEMMA SplitJoin ==
  ASSUME NEW U, NEW s \in Seq(U), NEW k \in 0..Len(s)
  PROVE  \E a, b \in Seq(U) : Split(s, k, a, b) /\ Join(a, b) = s
<1> DEFINE a == SubSeq(s, 1, k)
           b == SubSeq(s, k + 1, Len(s))
<1>1. a \in Seq(U) /\ Len(a) = k /\ \A i \in 1..k : a[i] = s[i]
  OBVIOUS
<1>2. b \in Seq(U) /\ Len(b) = Len(s) - k /\ \A i \in 1..(Len(s) - k) : b[i] = s[k + i]
  OBVIOUS
<1>3. Len(s) \in Nat OBVIOUS
<1> HIDE DEF a, b
<1>4. Len(a) + Len(b) = Len(s) BY <1>1, <1>2, <1>3
<1>5. \A i \in 1..Len(a) : a[i] = s[i] BY <1>1
<1>6. \A i \in 1..Len(b) : b[i] = s[Len(a) + i] BY <1>1, <1>2
<1>7. Join(a, b) = s BY <1>1, <1>2, <1>4, <1>5, <1>6, JoinIs
<1> QED BY <1>1, <1>2, <1>7 DEF a, b, Split

\* A stream that is written out to a point: what is out and what waits are still what
\* was printed.
LEMMA Advance ==
  ASSUME NEW U, NEW old \in Seq(U), NEW waits \in Seq(U), NEW new \in Seq(U),
         NEW out \in Seq(U), NEW rest \in Seq(U),
         Join(out, rest) = Join(waits, new)
  PROVE  Join(Join(old, out), rest) = Join(Join(old, waits), new)
BY JoinAssoc

-----------------------------------------------------------------------------
(* Only: the pieces of a sequence that are in a set.                       *)

\* The function by which Only is defined: every value is the sequence chosen so far.
OnlyFcn(s, S) ==
  CHOOSE part : part = [m \in 0..Len(s) |-> IF m = 0 THEN << >>
                                            ELSE IF s[m] \in S THEN Append(part[m - 1], s[m])
                                            ELSE part[m - 1]]

LEMMA OnlyRecursion ==
  ASSUME NEW U, NEW s \in Seq(U), NEW S
  PROVE  /\ Only(s, S) = OnlyFcn(s, S)[Len(s)]
         /\ OnlyFcn(s, S) \in [0..Len(s) -> Seq(U)]
         /\ OnlyFcn(s, S)[0] = << >>
         /\ \A m \in 1..Len(s) : OnlyFcn(s, S)[m] = IF s[m] \in S THEN Append(OnlyFcn(s, S)[m - 1], s[m])
                                                                ELSE OnlyFcn(s, S)[m - 1]
<1> DEFINE N == Len(s)
           T == Seq(U)
           step(m, t) == IF s[m] \in S THEN Append(t, s[m]) ELSE t
           next == [x \in (1..N) \X T |-> step(x[1], x[2])]
           G == OnlyFcn(s, S)
<1>1. N \in Nat /\ << >> \in T OBVIOUS
<1>2. \A m \in 1..N, t \in T : step(m, t) \in T OBVIOUS
<1>3. G = CHOOSE part : part = [m \in 0..N |-> IF m = 0 THEN << >> ELSE step(m, part[m - 1])]
  BY DEF OnlyFcn
<1>4. Only(s, S) = G[N]
  BY DEF Only, OnlyFcn
<1> HIDE DEF N, T, step, G
<1>5. next \in [(1..N) \X T -> T] BY <1>2
<1>6. \A m \in 1..N, t \in T : next[<<m, t>>] = step(m, t) OBVIOUS
<1> HIDE DEF next
<1>7. PICK F \in [0..N -> T] : F[0] = << >> /\ \A i \in 1..N : F[i] = next[<<i, F[i - 1]>>]
  <2>1. \E F : Recursive(F, N, T, << >>, next) BY <1>1, <1>5, Recursion
  <2> QED BY <2>1 DEF Recursive
<1>8. \A i \in 1..N : F[i] = step(i, F[i - 1])
  BY <1>1, <1>6, <1>7
<1>9. F = [m \in 0..N |-> IF m = 0 THEN << >> ELSE step(m, F[m - 1])]
  <2>1. \A m \in 0..N : F[m] = IF m = 0 THEN << >> ELSE step(m, F[m - 1])
    BY <1>1, <1>7, <1>8
  <2> QED BY <2>1
<1>10. G = [m \in 0..N |-> IF m = 0 THEN << >> ELSE step(m, G[m - 1])]
  BY <1>3, <1>9
<1>11. G[0] = << >> /\ \A m \in 1..N : G[m] = step(m, G[m - 1])
  BY <1>1, <1>10
<1>12. \A m \in 0..N : G[m] \in T
  <2> DEFINE H == {m \in 0..N : G[m] \in T}
  <2>1. 0 \in H BY <1>1, <1>11
  <2>2. \A n \in 0..(N - 1) : n \in H => n + 1 \in H
    <3> SUFFICES ASSUME NEW n \in 0..(N - 1), G[n] \in T PROVE G[n + 1] \in T /\ n + 1 \in 0..N
      OBVIOUS
    <3>1. n + 1 \in 1..N /\ (n + 1) - 1 = n BY <1>1
    <3> QED BY <1>2, <1>11, <3>1
  <2> HIDE DEF H
  <2>3. 0..N \subseteq H BY <1>1, <2>1, <2>2, InductiveUpTo
  <2> QED BY <2>3 DEF H
<1>13. G \in [0..N -> T] BY <1>10, <1>12
<1> QED BY <1>4, <1>11, <1>13 DEF N, T, G, step

LEMMA OnlyEmpty ==
  ASSUME NEW S
  PROVE  Only(<< >>, S) = << >>
<1>1. ASSUME NEW U, NEW s \in Seq(U), Len(s) = 0 PROVE Only(s, S) = << >>
  <2>1. Only(s, S) = OnlyFcn(s, S)[Len(s)] BY OnlyRecursion
  <2>2. OnlyFcn(s, S)[0] = << >> BY OnlyRecursion
  <2> QED BY <1>1, <2>1, <2>2
<1>2. << >> \in Seq({}) /\ Len(<< >>) = 0 OBVIOUS
<1> QED BY <1>1, <1>2

LEMMA OnlyType ==
  ASSUME NEW U, NEW s \in Seq(U), NEW S
  PROVE  Only(s, S) \in Seq(U)
<1>1. Only(s, S) = OnlyFcn(s, S)[Len(s)] /\ OnlyFcn(s, S) \in [0..Len(s) -> Seq(U)]
  BY OnlyRecursion
<1>2. Len(s) \in 0..Len(s) OBVIOUS
<1> QED BY <1>1, <1>2

LEMMA OnlyAppend ==
  ASSUME NEW U, NEW s \in Seq(U), NEW x \in U, NEW S
  PROVE  Only(Append(s, x), S) = IF x \in S THEN Append(Only(s, S), x) ELSE Only(s, S)
<1> DEFINE N == Len(s)
           G == OnlyFcn(s, S)
           t == Append(s, x)
           F == OnlyFcn(t, S)
           step(m, a, p) == IF p \in S THEN Append(a, p) ELSE a
<1>1. N \in Nat /\ t \in Seq(U) /\ Len(t) = N + 1 /\ t[N + 1] = x /\ \A m \in 1..N : t[m] = s[m]
  OBVIOUS
<1>2. /\ Only(s, S) = G[N] /\ G[0] = << >>
      /\ \A m \in 1..N : G[m] = step(m, G[m - 1], s[m])
  BY OnlyRecursion
<1> HIDE DEF t
<1>3. /\ Only(t, S) = F[N + 1] /\ F[0] = << >>
      /\ \A m \in 1..(N + 1) : F[m] = step(m, F[m - 1], t[m])
  BY <1>1, OnlyRecursion
<1> HIDE DEF N, G, F, step
<1>4. \A m \in 0..N : F[m] = G[m]
  <2> DEFINE H == {m \in 0..N : F[m] = G[m]}
  <2>1. 0 \in H BY <1>1, <1>2, <1>3
  <2>2. \A n \in 0..(N - 1) : n \in H => n + 1 \in H
    <3> SUFFICES ASSUME NEW n \in 0..(N - 1), F[n] = G[n]
                 PROVE  F[n + 1] = G[n + 1] /\ n + 1 \in 0..N
      OBVIOUS
    <3>1. n + 1 \in 1..N /\ n + 1 \in 1..(N + 1) /\ (n + 1) - 1 = n BY <1>1
    <3> QED BY <1>1, <1>2, <1>3, <3>1
  <2> HIDE DEF H
  <2>3. 0..N \subseteq H BY <1>1, <2>1, <2>2, InductiveUpTo
  <2> QED BY <2>3 DEF H
<1>5. Only(t, S) = step(N + 1, Only(s, S), x)
  <2>1. N + 1 \in 1..(N + 1) /\ (N + 1) - 1 = N /\ N \in 0..N BY <1>1
  <2> QED BY <1>1, <1>2, <1>3, <1>4, <2>1
<1> QED BY <1>5 DEF step, t

LEMMA RangeOfAppend ==
  ASSUME NEW U, NEW s \in Seq(U), NEW x \in U
  PROVE  Range(Append(s, x)) = Range(s) \cup {x} /\ Range(s) \subseteq U
<1>1. DOMAIN Append(s, x) = DOMAIN s \cup {Len(s) + 1} OBVIOUS
<1>2. \A m \in DOMAIN s : Append(s, x)[m] = s[m] OBVIOUS
<1>3. Append(s, x)[Len(s) + 1] = x OBVIOUS
<1>4. \A m \in DOMAIN s : s[m] \in U OBVIOUS
<1> QED BY <1>1, <1>2, <1>3, <1>4 DEF Range

LEMMA OnlyAll ==
  ASSUME NEW U, NEW s \in Seq(U), NEW S
  PROVE  /\ Range(s) \subseteq S => Only(s, S) = s
         /\ Range(s) \cap S = {} => Only(s, S) = << >>
<1> DEFINE G == {t \in Seq(U) : /\ Range(t) \subseteq S => Only(t, S) = t
                                /\ Range(t) \cap S = {} => Only(t, S) = << >>}
<1>1. << >> \in G BY OnlyEmpty
<1>2. ASSUME NEW t \in Seq(U), NEW x \in U, t \in G PROVE Append(t, x) \in G
  <2>1. Append(t, x) \in Seq(U) OBVIOUS
  <2>2. Range(Append(t, x)) = Range(t) \cup {x} BY RangeOfAppend
  <2>3. Only(Append(t, x), S) = IF x \in S THEN Append(Only(t, S), x) ELSE Only(t, S) BY OnlyAppend
  <2> QED BY <1>2, <2>1, <2>2, <2>3
<1> HIDE DEF G
<1>3. Seq(U) \subseteq G BY <1>1, <1>2, InductiveSeq
<1> QED BY <1>3 DEF G

LEMMA OnlySame ==
  ASSUME NEW U, NEW s \in Seq(U), NEW S, NEW T, \A p \in Range(s) : p \in S <=> p \in T
  PROVE  Only(s, S) = Only(s, T)
<1> DEFINE G == {t \in Seq(U) : (\A p \in Range(t) : p \in S <=> p \in T) => Only(t, S) = Only(t, T)}
<1>1. << >> \in G BY OnlyEmpty
<1>2. ASSUME NEW t \in Seq(U), NEW x \in U, t \in G PROVE Append(t, x) \in G
  <2>1. Append(t, x) \in Seq(U) OBVIOUS
  <2>2. Range(Append(t, x)) = Range(t) \cup {x} BY RangeOfAppend
  <2>3. Only(Append(t, x), S) = IF x \in S THEN Append(Only(t, S), x) ELSE Only(t, S) BY OnlyAppend
  <2>4. Only(Append(t, x), T) = IF x \in T THEN Append(Only(t, T), x) ELSE Only(t, T) BY OnlyAppend
  <2> QED BY <1>2, <2>1, <2>2, <2>3, <2>4
<1> HIDE DEF G
<1>3. Seq(U) \subseteq G BY <1>1, <1>2, InductiveSeq
<1> QED BY <1>3 DEF G

LEMMA OnlyJoin ==
  ASSUME NEW U, NEW s \in Seq(U), NEW t \in Seq(U), NEW S
  PROVE  Only(s \o t, S) = Only(s, S) \o Only(t, S)
<1> DEFINE G == {r \in Seq(U) : Only(s \o r, S) = Only(s, S) \o Only(r, S)}
<1>1. << >> \in G
  <2>1. s \o << >> = s OBVIOUS
  <2>2. Only(s, S) \o << >> = Only(s, S) BY OnlyType
  <2>3. Only(<< >>, S) = << >> BY OnlyEmpty
  <2>4. << >> \in Seq(U) OBVIOUS
  <2> QED BY <2>1, <2>2, <2>3, <2>4
<1>2. ASSUME NEW r \in Seq(U), NEW x \in U, r \in G PROVE Append(r, x) \in G
  <2>1. Append(r, x) \in Seq(U) /\ s \o r \in Seq(U) /\ s \o Append(r, x) = Append(s \o r, x) OBVIOUS
  <2>2. Only(s, S) \in Seq(U) /\ Only(r, S) \in Seq(U) BY OnlyType
  <2>3. Only(s, S) \o Append(Only(r, S), x) = Append(Only(s, S) \o Only(r, S), x) BY <2>2
  <2>4. Only(s \o r, S) = Only(s, S) \o Only(r, S) BY <1>2
  <2>5. Only(Append(s \o r, x), S) = IF x \in S THEN Append(Only(s \o r, S), x) ELSE Only(s \o r, S)
    BY <2>1, OnlyAppend
  <2>6. Only(Append(r, x), S) = IF x \in S THEN Append(Only(r, S), x) ELSE Only(r, S)
    BY OnlyAppend
  <2> QED BY <2>1, <2>3, <2>4, <2>5, <2>6
<1> HIDE DEF G
<1>3. Seq(U) \subseteq G BY <1>1, <1>2, InductiveSeq
<1> QED BY <1>3 DEF G

LEMMA OnlyRange ==
  ASSUME NEW U, NEW s \in Seq(U), NEW S
  PROVE  Range(Only(s, S)) = Range(s) \cap S
<1> DEFINE G == {t \in Seq(U) : Range(Only(t, S)) = Range(t) \cap S}
<1>1. << >> \in G BY OnlyEmpty DEF Range
<1>2. ASSUME NEW t \in Seq(U), NEW x \in U, t \in G PROVE Append(t, x) \in G
  <2>1. Append(t, x) \in Seq(U) /\ Only(t, S) \in Seq(U) BY OnlyType
  <2>2. Range(Append(Only(t, S), x)) = Range(Only(t, S)) \cup {x} BY <2>1, RangeOfAppend
  <2>3. Range(Append(t, x)) = Range(t) \cup {x} BY RangeOfAppend
  <2>4. Only(Append(t, x), S) = IF x \in S THEN Append(Only(t, S), x) ELSE Only(t, S) BY OnlyAppend
  <2>5. Range(Only(t, S)) = Range(t) \cap S BY <1>2
  <2>6. Range(Only(Append(t, x), S)) = Range(Append(t, x)) \cap S
    <3>1. CASE x \in S BY <2>2, <2>3, <2>4, <2>5, <3>1
    <3>2. CASE x \notin S BY <2>2, <2>3, <2>4, <2>5, <3>2
    <3> QED BY <3>1, <3>2
  <2> QED BY <2>1, <2>6
<1> HIDE DEF G
<1>3. Seq(U) \subseteq G BY <1>1, <1>2, InductiveSeq
<1> QED BY <1>3 DEF G

Distinct(s) == \A m, k \in DOMAIN s : s[m] = s[k] => m = k

\* What occurs once among the pieces of S in s occurs once in s.
LEMMA OnlyOnce ==
  ASSUME NEW U, NEW s \in Seq(U), NEW S, Distinct(Only(s, S)),
         NEW m \in DOMAIN s, NEW k \in DOMAIN s, s[m] = s[k], s[m] \in S
  PROVE  m = k
<1> DEFINE Once(t) == \A i, j \in DOMAIN t : t[i] \in S /\ t[i] = t[j] => i = j
           G == {t \in Seq(U) : Distinct(Only(t, S)) => Once(t)}
<1>1. << >> \in G OBVIOUS
<1>2. ASSUME NEW t \in Seq(U), NEW x \in U, t \in G PROVE Append(t, x) \in G
  <2> DEFINE o == Only(t, S)
             tx == Append(t, x)
  <2>1. tx \in Seq(U) /\ o \in Seq(U) /\ Range(o) = Range(t) \cap S BY OnlyType, OnlyRange
  <2>2. /\ DOMAIN tx = DOMAIN t \cup {Len(t) + 1} /\ tx[Len(t) + 1] = x
        /\ \A i \in DOMAIN t : tx[i] = t[i]
    OBVIOUS
  <2> SUFFICES ASSUME Distinct(Only(tx, S)) PROVE Once(tx)
    BY <2>1
  <2>3. CASE x \in S
    <3>1. Only(tx, S) = Append(o, x) BY <2>3, OnlyAppend
    <3> HIDE DEF tx, o
    <3>2. /\ DOMAIN Append(o, x) = DOMAIN o \cup {Len(o) + 1} /\ Append(o, x)[Len(o) + 1] = x
          /\ \A i \in DOMAIN o : Append(o, x)[i] = o[i] /\ i # Len(o) + 1
      BY <2>1
    <3>3. Distinct(o) /\ \A i \in DOMAIN o : o[i] # x
      BY <3>1, <3>2 DEF Distinct
    <3>4. x \notin Range(t) BY <2>1, <2>3, <3>3 DEF Range
    <3>5. Once(t) BY <1>2, <3>3 DEF o
    <3>6. \A i \in DOMAIN t : t[i] # x BY <3>4 DEF Range
    <3> QED BY <2>2, <3>5, <3>6
  <2>4. CASE x \notin S
    <3>1. Only(tx, S) = o BY <2>4, OnlyAppend
    <3>2. Once(t) BY <1>2, <3>1
    <3> HIDE DEF tx
    <3> QED BY <2>2, <2>4, <3>2
  <2> QED BY <2>3, <2>4
<1> HIDE DEF G
<1>3. Seq(U) \subseteq G BY <1>1, <1>2, InductiveSeq
<1> QED BY <1>3 DEF G

-----------------------------------------------------------------------------
(* The file.                                                               *)

Pieces == [of : Names, text : Text]

\* What tells the pieces of a run apart.
Key(p) == <<p.of, IF p.text = <<"name">> THEN 1 ELSE 2>>

\* What is printed is printed once, by one resolver.
PrintedOnce ==
  \A v, w \in Resolvers : \A i \in DOMAIN printed[v], j \in DOMAIN printed[w] :
    Key(printed[v][i]) = Key(printed[w][j]) => v = w /\ i = j

\* Both pieces of each name that is written are printed.
WrittenPrinted ==
  \A n \in written :
    /\ \E v \in Resolvers : \E p \in Range(printed[v]) : p = Piece(n, <<"name">>)
    /\ \E v \in Resolvers : \E p \in Range(printed[v]) : p.of = n /\ p.text # <<"name">>

\* What is printed is in the file, or comes behind what is in the file: it waits in the
\* stream, unless the process was killed.
Kept ==
  /\ file \in Seq(Pieces) /\ stream \in [Resolvers -> Seq(Pieces)]
  /\ \A p \in Range(file) : \E v \in Resolvers : p \in Range(printed[v])
  /\ \A v \in Resolvers : \E rest \in Seq(Pieces) :
       Join(InFile(v), rest) = printed[v] /\ (outcome # "failed" => rest = stream[v])

\* Nothing is printed before the file was emptied and the arguments looked at.
NotYet ==
  /\ outcome = "running" /\ written = {}
  /\ stream = [v \in Resolvers |-> << >>] /\ printed = [v \in Resolvers |-> << >>]

FileInv ==
  /\ PrintedOnce /\ WrittenPrinted
  /\ stage \in {"start", "cleared", "working", "refused"}
  /\ stage # "working" => NotYet
  /\ stage \in {"cleared", "refused"} => file = << >>
  /\ stage = "working" => Kept
  /\ outcome = "returned" => written = Names

LEMMA OnlyOfJoin ==
  ASSUME NEW U, NEW s \in Seq(U), NEW t \in Seq(U), NEW S
  PROVE  Only(Join(s, t), S) = Join(Only(s, S), Only(t, S))
BY OnlyJoin DEF Join

\* Distinct resolvers print distinct pieces.
LEMMA PrintedApart ==
  ASSUME PrintedOnce, NEW v \in Resolvers, NEW w \in Resolvers, v # w
  PROVE  Range(printed[v]) \cap Range(printed[w]) = {}
<1> SUFFICES ASSUME NEW i \in DOMAIN printed[v], NEW j \in DOMAIN printed[w], printed[v][i] = printed[w][j]
             PROVE  FALSE
  BY DEF Range
<1> QED BY DEF PrintedOnce

\* fprintf of pieces nobody printed, and the flush of a stream, which is fprintf of none.
LEMMA FprintfKeeps ==
  ASSUME Kept, PrintedOnce, printed \in [Resolvers -> Seq(Pieces)], outcome # "failed", outcome' = outcome,
         NEW v \in Resolvers, NEW pieces \in Seq(Pieces), Fprintf(v, pieces),
         \A w \in Resolvers : Range(pieces) \cap Range(printed[w]) = {}
  PROVE  Kept'
<1>1. PICK k \in 0..Len(Join(stream[v], pieces)) :
        /\ file' = Join(file, SubSeq(Join(stream[v], pieces), 1, k))
        /\ stream' = [stream EXCEPT ![v] = SubSeq(Join(stream[v], pieces), k + 1, Len(Join(stream[v], pieces)))]
        /\ printed' = [printed EXCEPT ![v] = Join(printed[v], pieces)]
  BY DEF Fprintf, Join
<1>2. /\ stream[v] \in Seq(Pieces) /\ file \in Seq(Pieces) /\ printed[v] \in Seq(Pieces)
      /\ stream \in [Resolvers -> Seq(Pieces)]
  BY DEF Kept
<1>3. PICK out \in Seq(Pieces), rest \in Seq(Pieces) :
        /\ Join(out, rest) = Join(stream[v], pieces)
        /\ file' = Join(file, out)
        /\ stream' = [stream EXCEPT ![v] = rest]
  <2>1. PICK waiting \in Seq(Pieces) : waiting = Join(stream[v], pieces) BY <1>2, JoinType
  <2>2. PICK out \in Seq(Pieces), rest \in Seq(Pieces) :
          Split(waiting, k, out, rest) /\ Join(out, rest) = waiting
    <3>1. k \in 0..Len(waiting) BY <2>1
    <3> QED BY <3>1, SplitJoin
  <2> QED BY <1>1, <2>1, <2>2 DEF Split
<1>4. PICK old \in Seq(Pieces) : old = InFile(v)
  BY <1>2, OnlyType DEF InFile
<1>5. /\ stream'[v] = rest /\ stream' \in [Resolvers -> Seq(Pieces)]
      /\ \A w \in Resolvers : w # v => stream'[w] = stream[w]
  BY <1>2, <1>3
<1>6. /\ printed'[v] = Join(printed[v], pieces)
      /\ \A w \in Resolvers : w # v => printed'[w] = printed[w]
  BY <1>1
<1>7. Join(old, stream[v]) = printed[v]
  BY <1>4 DEF Kept
<1>8. Join(Join(old, out), rest) = printed'[v]
  BY <1>2, <1>3, <1>6, <1>7, Advance
<1>9. Range(printed'[v]) = Range(printed[v]) \cup Range(pieces)
  BY <1>2, <1>6, JoinType
<1>10. Range(out) \subseteq Range(printed'[v])
  <2>1. Join(old, out) \in Seq(Pieces) /\ Range(Join(old, out)) = Range(old) \cup Range(out) BY JoinType
  <2>2. Range(Join(Join(old, out), rest)) = Range(Join(old, out)) \cup Range(rest) BY <2>1, JoinType
  <2> QED BY <1>8, <2>1, <2>2
<1>11. file' \in Seq(Pieces) /\ Range(file') = Range(file) \cup Range(out)
  BY <1>2, <1>3, JoinType
<1>12. \A p \in Range(file') : \E w \in Resolvers : p \in Range(printed'[w])
  <2> SUFFICES ASSUME NEW p \in Range(file') PROVE \E w \in Resolvers : p \in Range(printed'[w])
    OBVIOUS
  <2>1. CASE p \in Range(out) BY <1>10, <2>1
  <2>2. CASE p \in Range(file)
    <3>1. PICK w \in Resolvers : p \in Range(printed[w]) BY <2>2 DEF Kept
    <3>2. p \in Range(printed'[w]) BY <1>6, <1>9, <3>1
    <3> QED BY <3>2
  <2> QED BY <1>11, <2>1, <2>2
<1>13. ASSUME NEW w \in Resolvers
       PROVE  \E r \in Seq(Pieces) : Join(InFile(w)', r) = printed'[w] /\ (outcome' # "failed" => r = stream'[w])
  <2>1. InFile(w)' = Join(Only(file, Range(printed'[w])), Only(out, Range(printed'[w])))
    <3>1. Only(Join(file, out), Range(printed'[w])) = Join(Only(file, Range(printed'[w])), Only(out, Range(printed'[w])))
      BY <1>2, OnlyOfJoin
    <3>2. InFile(w)' = Only(file', Range(printed'[w])) BY DEF InFile
    <3> QED BY <1>3, <3>1, <3>2
  <2>2. CASE w = v
    <3>1. \A p \in Range(file) : p \in Range(printed[v]) <=> p \in Range(printed'[v])
      <4> SUFFICES ASSUME NEW p \in Range(file) PROVE p \notin Range(pieces)
        BY <1>9
      <4>1. PICK u \in Resolvers : p \in Range(printed[u]) BY DEF Kept
      <4> QED BY <4>1
    <3>2. Only(file, Range(printed'[v])) = old
      <4>1. Only(file, Range(printed[v])) = Only(file, Range(printed'[v])) BY <1>2, <3>1, OnlySame
      <4> QED BY <1>4, <4>1 DEF InFile
    <3>3. Only(out, Range(printed'[v])) = out BY <1>10, OnlyAll
    <3>4. Join(InFile(w)', rest) = printed'[w] BY <1>8, <2>1, <2>2, <3>2, <3>3
    <3> QED BY <1>5, <2>2, <3>4
  <2>3. CASE w # v
    <3>1. printed'[w] = printed[w] /\ stream'[w] = stream[w] BY <1>5, <1>6, <2>3
    <3>2. Range(out) \cap Range(printed[w]) = {}
      BY <1>9, <1>10, <2>3, PrintedApart
    <3>3. Only(out, Range(printed[w])) = << >> BY <3>2, OnlyAll
    <3>4. PICK mine \in Seq(Pieces) : mine = InFile(w) /\ mine = Only(file, Range(printed[w]))
      BY <1>2, OnlyType DEF InFile
    <3>5. Join(mine, << >>) = mine BY JoinEmpty
    <3>6. InFile(w)' = InFile(w) BY <2>1, <3>1, <3>3, <3>4, <3>5
    <3>7. PICK r \in Seq(Pieces) : Join(InFile(w), r) = printed[w] /\ (outcome # "failed" => r = stream[w])
      BY DEF Kept
    <3> QED BY <3>1, <3>6, <3>7
  <2> QED BY <2>2, <2>3
<1> QED BY <1>5, <1>11, <1>12, <1>13 DEF Kept

-----------------------------------------------------------------------------
(* Every step keeps FileInv.                                               *)

\* s with the two pieces of a line behind it.
LEMMA LineBehind ==
  ASSUME NEW U, NEW s \in Seq(U), NEW a \in U, NEW b \in U
  PROVE  /\ DOMAIN (s \o <<a, b>>) = DOMAIN s \cup {Len(s) + 1, Len(s) + 2}
         /\ (s \o <<a, b>>)[Len(s) + 1] = a /\ (s \o <<a, b>>)[Len(s) + 2] = b
         /\ \A i \in DOMAIN s : (s \o <<a, b>>)[i] = s[i]
OBVIOUS

LEMMA ResolveFile ==
  ASSUME LogInv, LogInv', FileInv, stage = "working", stage' = stage, outcome = "running", outcome' = outcome,
         NEW v \in Resolvers, NEW n \in Names, NEW list \in Answers, Resolve(v, n, list)
  PROVE  FileInv'
<1>1. n \notin written /\ written' = written \cup {n}
  BY ResolvePrints
<1>2. PICK text : /\ list = << >> => text = <<"none">>
                  /\ list # << >> => text = FirstIP(n, list)
                  /\ Fprintf(v, Line(n, text))
  BY ResolvePrints
<1>3. text \in Text /\ text # <<"name">> /\ Line(n, text) \in Seq(Pieces)
  BY <1>2, LineIsOwn DEF Pieces
<1>4. PICK a \in Pieces, b \in Pieces :
        /\ a = Piece(n, <<"name">>) /\ a.of = n /\ a.text = <<"name">>
        /\ b = Piece(n, text) /\ b.of = n /\ b.text = text
        /\ Line(n, text) = <<a, b>>
  <2> DEFINE a == Piece(n, <<"name">>)
             b == Piece(n, text)
  <2>1. a \in Pieces /\ a.of = n /\ a.text = <<"name">> BY DEF Piece, Pieces, Text
  <2>2. b \in Pieces /\ b.of = n /\ b.text = text BY <1>3 DEF Piece, Pieces
  <2>3. Line(n, text) = <<a, b>> BY DEF Line
  <2> QED BY <2>1, <2>2, <2>3
<1>5. Key(a) = <<n, 1>> /\ Key(b) = <<n, 2>>
  BY <1>3, <1>4 DEF Key
<1>6. printed \in [Resolvers -> Seq(Pieces)]
  BY DEF LogInv, LogTypes, Pieces
<1>7. /\ printed'[v] = printed[v] \o <<a, b>>
      /\ \A w \in Resolvers : w # v => printed'[w] = printed[w]
  BY <1>2, <1>4, <1>6 DEF Fprintf
<1>8. PICK old \in Seq(Pieces) : old = printed[v] BY <1>6
<1>9. /\ DOMAIN printed'[v] = DOMAIN old \cup {Len(old) + 1, Len(old) + 2}
      /\ printed'[v][Len(old) + 1] = a /\ printed'[v][Len(old) + 2] = b
      /\ \A i \in DOMAIN old : printed'[v][i] = old[i]
  BY <1>7, <1>8, LineBehind
<1>10. \A w \in Resolvers : \A i \in DOMAIN printed[w] :
         i \in DOMAIN printed'[w] /\ printed'[w][i] = printed[w][i]
  BY <1>7, <1>8, <1>9
<1>11. \A w \in Resolvers : \A i \in DOMAIN printed[w] :
         printed[w][i].of \in written /\ printed[w][i] \in Range(printed[w])
  BY DEF LogInv, PrintedWritten, Range
<1> DEFINE Old(w, i) == i \in DOMAIN printed[w] /\ Key(printed'[w][i]) = Key(printed[w][i])
                        /\ Key(printed'[w][i])[1] # n
           New(w, i) == w = v /\ \/ i = Len(old) + 1 /\ Key(printed'[w][i]) = <<n, 1>>
                                 \/ i = Len(old) + 2 /\ Key(printed'[w][i]) = <<n, 2>>
<1>12. ASSUME NEW w \in Resolvers, NEW i \in DOMAIN printed'[w]
       PROVE  Old(w, i) \/ New(w, i)
  <2>1. CASE i \in DOMAIN printed[w]
    <3>1. printed'[w][i] = printed[w][i] /\ printed[w][i].of # n BY <1>1, <1>10, <1>11, <2>1
    <3>2. Key(printed[w][i])[1] = printed[w][i].of BY DEF Key
    <3> QED BY <2>1, <3>1, <3>2
  <2>2. CASE i \notin DOMAIN printed[w]
    <3>1. w = v BY <1>7, <1>12, <2>2
    <3>2. i = Len(old) + 1 \/ i = Len(old) + 2 BY <1>8, <1>9, <1>12, <2>2, <3>1
    <3> QED BY <1>5, <1>9, <3>1, <3>2
  <2> QED BY <2>1, <2>2
<1>13. PrintedOnce'
  <2> SUFFICES ASSUME NEW u \in Resolvers, NEW w \in Resolvers,
                      NEW i \in DOMAIN printed'[u], NEW j \in DOMAIN printed'[w],
                      Key(printed'[u][i]) = Key(printed'[w][j])
               PROVE  u = w /\ i = j
    BY DEF PrintedOnce
  <2>1. Old(u, i) \/ New(u, i) BY <1>12
  <2>2. Old(w, j) \/ New(w, j) BY <1>12
  <2>3. CASE Old(u, i) /\ Old(w, j)
    <3>1. i \in DOMAIN printed[u] /\ j \in DOMAIN printed[w] BY <2>3
    <3>2. Key(printed[u][i]) = Key(printed[w][j]) BY <2>3
    <3> QED BY <3>1, <3>2 DEF FileInv, PrintedOnce
  <2>4. <<n, 1>>[1] = n /\ <<n, 2>>[1] = n /\ <<n, 1>> # <<n, 2>> OBVIOUS
  <2>5. CASE New(u, i) /\ New(w, j)
    <3>1. u = v /\ w = v BY <2>5
    <3>2. \/ i = Len(old) + 1 /\ Key(printed'[u][i]) = <<n, 1>>
          \/ i = Len(old) + 2 /\ Key(printed'[u][i]) = <<n, 2>>
      BY <2>5
    <3>3. \/ j = Len(old) + 1 /\ Key(printed'[w][j]) = <<n, 1>>
          \/ j = Len(old) + 2 /\ Key(printed'[w][j]) = <<n, 2>>
      BY <2>5
    <3> QED BY <2>4, <3>1, <3>2, <3>3
  <2> QED BY <2>1, <2>2, <2>3, <2>4, <2>5
<1>14. WrittenPrinted'
  <2>1. \A w \in Resolvers : Range(printed[w]) \subseteq Range(printed'[w])
    BY <1>10 DEF Range
  <2>2. a \in Range(printed'[v]) /\ b \in Range(printed'[v])
    BY <1>9 DEF Range
  <2>3. ASSUME NEW m \in written
        PROVE  /\ \E w \in Resolvers : \E p \in Range(printed'[w]) : p = Piece(m, <<"name">>)
               /\ \E w \in Resolvers : \E p \in Range(printed'[w]) : p.of = m /\ p.text # <<"name">>
    BY <2>1 DEF FileInv, WrittenPrinted
  <2>4. /\ \E w \in Resolvers : \E p \in Range(printed'[w]) : p = Piece(n, <<"name">>)
        /\ \E w \in Resolvers : \E p \in Range(printed'[w]) : p.of = n /\ p.text # <<"name">>
    BY <1>3, <1>4, <2>2
  <2> QED BY <1>1, <2>3, <2>4 DEF WrittenPrinted
<1>15. Kept'
  <2>1. \A w \in Resolvers : Range(Line(n, text)) \cap Range(printed[w]) = {}
    <3>1. \A p \in Range(Line(n, text)) : p.of = n BY <1>4 DEF Range
    <3> QED BY <1>1, <3>1 DEF LogInv, PrintedWritten
  <2>2. Kept /\ PrintedOnce BY DEF FileInv
  <2> QED BY <1>2, <1>3, <1>6, <2>1, <2>2, FprintfKeeps
<1>16. stage' = "working" /\ outcome' = "running" OBVIOUS
<1> QED BY <1>13, <1>14, <1>15, <1>16 DEF FileInv

\* Before anything is printed the file, once it is empty, holds all that was printed.
LEMMA NothingYet ==
  ASSUME NotYet, file = << >>
  PROVE  Kept
<1>1. << >> \in Seq(Pieces) OBVIOUS
<1>2. \A v \in Resolvers : printed[v] = << >> /\ stream[v] = << >> BY DEF NotYet
<1>3. stream \in [Resolvers -> Seq(Pieces)] BY <1>1 DEF NotYet
<1>4. Range(file) = {} BY DEF Range
<1>5. \A v \in Resolvers : InFile(v) = << >> BY OnlyEmpty DEF InFile
<1>6. Join(<< >>, << >>) = << >> BY <1>1, JoinEmpty
<1>7. \A v \in Resolvers : \E rest \in Seq(Pieces) :
        Join(InFile(v), rest) = printed[v] /\ (outcome # "failed" => rest = stream[v])
  BY <1>1, <1>2, <1>5, <1>6
<1> QED BY <1>1, <1>3, <1>4, <1>7 DEF Kept

LEMMA InitFile == LogInit => FileInv
<1> SUFFICES ASSUME LogInit PROVE FileInv
  OBVIOUS
<1>1. stage = "start" /\ NotYet BY DEF LogInit, Init, NotYet
<1>2. \A v \in Resolvers : DOMAIN printed[v] = {} BY <1>1 DEF NotYet
<1>3. PrintedOnce /\ WrittenPrinted
  BY <1>1, <1>2 DEF PrintedOnce, WrittenPrinted, NotYet
<1> QED BY <1>1, <1>3 DEF FileInv, NotYet

\* Steps that neither print nor write to the file.
LEMMA StillFile ==
  ASSUME FileInv, UNCHANGED <<stage, file, stream, printed, written>>,
         stage # "working" => outcome' = outcome,
         outcome = "failed" => outcome' = "failed",
         outcome' = "returned" => outcome = "returned" \/ written = Names
  PROVE  FileInv'
<1>1. PrintedOnce' /\ WrittenPrinted' BY DEF FileInv, PrintedOnce, WrittenPrinted
<1>2. stage # "working" => NotYet' BY DEF FileInv, NotYet
<1>3. \A v \in Resolvers : InFile(v)' = InFile(v) BY DEF InFile
<1>4. Kept => Kept' BY <1>3 DEF Kept
<1> QED BY <1>1, <1>2, <1>4 DEF FileInv

LEMMA KilledFile ==
  ASSUME FileInv, Killed
  PROVE  FileInv'
<1>1. /\ stage = "working" /\ outcome = "running" /\ outcome' = "failed"
      /\ UNCHANGED <<stage, file, printed, written>>
      /\ stream' = [v \in Resolvers |-> << >>]
  BY DEF Killed, Working, Fail
<1>2. PrintedOnce' /\ WrittenPrinted' BY <1>1 DEF FileInv, PrintedOnce, WrittenPrinted
<1>3. \A v \in Resolvers : InFile(v)' = InFile(v) BY <1>1 DEF InFile
<1>4. << >> \in Seq(Pieces) OBVIOUS
<1>5. stream' \in [Resolvers -> Seq(Pieces)] BY <1>1, <1>4
<1>6. Kept' BY <1>1, <1>3, <1>5 DEF FileInv, Kept
<1> QED BY <1>1, <1>2, <1>6 DEF FileInv

\* A stream that is flushed at exit.
LEMMA FlushFile ==
  ASSUME LogInv, FileInv, NEW v \in Resolvers, Flush(v)
  PROVE  FileInv'
<1>1. /\ outcome = "returned" /\ UNCHANGED <<stage, printed, written, outcome>>
      /\ file' = file \o stream[v] /\ stream' = [stream EXCEPT ![v] = << >>]
  BY DEF Flush, vars
<1>2. stage = "working" /\ Kept /\ PrintedOnce BY <1>1 DEF FileInv, NotYet
<1>3. printed \in [Resolvers -> Seq(Pieces)] BY DEF LogInv, LogTypes, Pieces
<1>4. PICK s \in Seq(Pieces) : s = stream[v] BY <1>2 DEF Kept
<1>5. Fprintf(v, << >>)
  <2>1. s \o << >> = s /\ Len(s) \in 0..Len(s) OBVIOUS
  <2>2. SubSeq(s, 1, Len(s)) = s /\ SubSeq(s, Len(s) + 1, Len(s)) = << >> OBVIOUS
  <2>3. printed[v] \o << >> = printed[v] BY <1>3
  <2>4. [printed EXCEPT ![v] = printed[v] \o << >>] = printed BY <1>3, <2>3
  <2>5. \E k \in 0..Len(s) : /\ file' = file \o SubSeq(s, 1, k)
                             /\ stream' = [stream EXCEPT ![v] = SubSeq(s, k + 1, Len(s))]
    BY <1>1, <1>4, <2>1, <2>2
  <2> QED BY <1>1, <1>4, <2>1, <2>4, <2>5 DEF Fprintf
<1>6. << >> \in Seq(Pieces) /\ Range(<< >>) = {} BY DEF Range
<1>7. Kept' BY <1>1, <1>2, <1>3, <1>5, <1>6, FprintfKeeps
<1>8. PrintedOnce' /\ WrittenPrinted' BY <1>1 DEF FileInv, PrintedOnce, WrittenPrinted
<1> QED BY <1>1, <1>2, <1>7, <1>8 DEF FileInv

LEMMA FileStep == LogInv /\ LogInv' /\ FileInv /\ [LogNext]_<<vars, logVars>> => FileInv'
<1> SUFFICES ASSUME LogInv, LogInv', FileInv, [LogNext]_<<vars, logVars>> PROVE FileInv'
  OBVIOUS
<1>1. CASE clearLogs
  <2>1. /\ stage = "start" /\ stage' = "cleared" /\ file' = << >>
        /\ UNCHANGED <<outcome, written, stream, printed>>
    BY <1>1 DEF clearLogs, vars
  <2> QED BY <2>1 DEF FileInv, NotYet, PrintedOnce, WrittenPrinted
<1>2. CASE CheckArguments
  <2>1. /\ stage = "cleared" /\ stage' \in {"working", "refused"}
        /\ UNCHANGED <<outcome, written, stream, printed, file>>
    BY <1>2 DEF CheckArguments, vars
  <2>2. NotYet /\ file = << >> /\ Kept BY <2>1, NothingYet DEF FileInv
  <2>3. \A v \in Resolvers : InFile(v)' = InFile(v) BY <2>1 DEF InFile
  <2>4. Kept' BY <2>1, <2>2, <2>3 DEF Kept
  <2> QED BY <2>1, <2>2, <2>4 DEF FileInv, NotYet, PrintedOnce, WrittenPrinted
<1>3. CASE Transport
  <2>1. UNCHANGED <<stage, file, stream, printed, written, outcome>>
    BY <1>3 DEF Transport, Put, Take, logVars
  <2> QED BY <2>1, StillFile
<1>4. CASE Finish
  <2>1. /\ UNCHANGED <<stage, file, stream, printed, written>> /\ stage = "working"
        /\ outcome = "running" /\ outcome' = "returned" /\ written = Names
    BY <1>4 DEF Finish, Working, Return, logVars
  <2> QED BY <2>1, StillFile
<1>5. CASE Killed BY <1>5, KilledFile
<1>6. ASSUME NEW v \in Resolvers, OpenResults(v) PROVE FileInv'
  <2>1. UNCHANGED <<stage, file, stream, printed, written, outcome>>
    BY <1>6 DEF OpenResults, vars
  <2> QED BY <2>1, StillFile
<1>7. ASSUME NEW v \in Resolvers, Flush(v) PROVE FileInv' BY <1>7, FlushFile
<1>8. ASSUME NEW v \in Resolvers, NEW n \in Names, NEW list \in Answers, Resolve(v, n, list) PROVE FileInv'
  <2>1. stage = "working" /\ outcome = "running" /\ stage' = stage /\ outcome' = outcome
    BY <1>8 DEF Resolve, Working, Write
  <2> QED BY <1>8, <2>1, ResolveFile
<1>9. CASE UNCHANGED <<vars, logVars>>
  <2>1. UNCHANGED <<stage, file, stream, printed, written, outcome>> BY <1>9 DEF vars, logVars
  <2> QED BY <2>1, StillFile
<1> QED BY <1>1, <1>2, <1>3, <1>4, <1>5, <1>6, <1>7, <1>8, <1>9 DEF LogNext

-----------------------------------------------------------------------------
(* What follows from the invariant.                                        *)

LEMMA PrefixFollows == LogInv /\ FileInv => PrefixSurvives
<1> SUFFICES ASSUME LogInv, FileInv, stage = "working", NEW v \in Resolvers
             PROVE  /\ IsPrefix(InFile(v), printed[v])
                    /\ outcome # "failed" => InFile(v) \o stream[v] = printed[v]
  BY DEF PrefixSurvives
<1>1. PICK rest \in Seq(Pieces) :
        Join(InFile(v), rest) = printed[v] /\ (outcome # "failed" => rest = stream[v])
  BY DEF FileInv, Kept
<1>2. PICK s \in Seq(Pieces) : s = InFile(v)
  BY OnlyType DEF FileInv, Kept, InFile
<1>3. IsPrefix(s, s \o rest)
  <2>1. Len(s) <= Len(s \o rest) OBVIOUS
  <2>2. SubSeq(s, 1, Len(s)) = SubSeq(s \o rest, 1, Len(s)) OBVIOUS
  <2> QED BY <2>1, <2>2 DEF IsPrefix
<1> QED BY <1>1, <1>2, <1>3 DEF Join

\* Every piece in the file is there once.
LEMMA FileOnce ==
  ASSUME LogInv, FileInv, stage = "working", \A v \in Resolvers : InFile(v) = printed[v],
         NEW m \in DOMAIN file, NEW k \in DOMAIN file, Key(file[m]) = Key(file[k])
  PROVE  m = k
<1>1. file \in Seq(Pieces) BY DEF FileInv, Kept
<1>2. PICK v \in Resolvers : \E i \in DOMAIN printed[v] : file[m] = printed[v][i]
  <2>1. file[m] \in Range(file) BY DEF Range
  <2> QED BY <2>1 DEF FileInv, Kept, Range
<1>3. PICK w \in Resolvers : \E j \in DOMAIN printed[w] : file[k] = printed[w][j]
  <2>1. file[k] \in Range(file) BY DEF Range
  <2> QED BY <2>1 DEF FileInv, Kept, Range
<1>4. file[m] = file[k] BY <1>2, <1>3 DEF FileInv, PrintedOnce
<1>5. Distinct(printed[v]) BY DEF FileInv, PrintedOnce, Distinct
<1>6. Only(file, Range(printed[v])) = printed[v] BY DEF InFile
<1>7. file[m] \in Range(printed[v]) BY <1>2 DEF Range
<1> QED BY <1>1, <1>4, <1>5, <1>6, <1>7, OnlyOnce

LEMMA TwoIsTwo == IsFiniteSet(1..2) /\ Cardinality(1..2) = 2
<1>1. \A a, b \in Int : IsFiniteSet(a..b) /\ Cardinality(a..b) = IF a > b THEN 0 ELSE b - a + 1
  BY FS_Interval
<1>2. 1 \in Int /\ 2 \in Int /\ (IF 1 > 2 THEN 0 ELSE 2 - 1 + 1) = 2 OBVIOUS
<1> QED BY <1>1, <1>2

\* As many pieces as names, twice.
LEMMA CountTwice ==
  ASSUME NEW L \in Nat, NEW N, NEW F \in [1..L -> N \X (1..2)],
         \A m, k \in 1..L : F[m] = F[k] => m = k,
         \A x \in N \X (1..2) : \E m \in 1..L : F[m] = x
  PROVE  L = 2 * Cardinality(N)
<1>1. IsFiniteSet(1..L) /\ Cardinality(1..L) = L
  BY FS_Interval
<1>2. ExistsBijection(1..L, N \X (1..2))
  BY DEF ExistsBijection, Bijection, Injection, Surjection, IsInjective
<1>3. IsFiniteSet(N \X (1..2)) /\ Cardinality(N \X (1..2)) = L
  BY <1>1, <1>2, FS_Bijection
<1>4. IsFiniteSet(N)
  <2> DEFINE G == [x \in N \X (1..2) |-> x[1]]
  <2>1. G \in Surjection(N \X (1..2), N)
    <3>1. \A n \in N : <<n, 1>> \in N \X (1..2) /\ G[<<n, 1>>] = n OBVIOUS
    <3>2. G \in [N \X (1..2) -> N] OBVIOUS
    <3> QED BY <3>1, <3>2 DEF Surjection
  <2> QED BY <1>3, <2>1, FS_Surjection
<1>5. IsFiniteSet(1..2) /\ Cardinality(1..2) = 2
  BY TwoIsTwo
<1>6. Cardinality(N \X (1..2)) = Cardinality(N) * 2
  BY <1>4, <1>5, FS_Product
<1>7. Cardinality(N) \in Nat BY <1>4, FS_CardinalityType
<1> QED BY <1>3, <1>6, <1>7

LEMMA CompleteFollows == LogInv /\ FileInv => FileComplete
<1> SUFFICES ASSUME LogInv, FileInv, outcome = "returned", \A v \in Resolvers : stream[v] = << >>
             PROVE  /\ Len(file) = 2 * Cardinality(Names)
                    /\ \A n \in Names :
                         /\ \E m \in DOMAIN file : file[m] = Piece(n, <<"name">>)
                         /\ \E m \in DOMAIN file : file[m].of = n /\ file[m].text # <<"name">>
  BY DEF FileComplete
<1>1. stage = "working" /\ written = Names BY DEF FileInv, NotYet
<1>2. file \in Seq(Pieces) BY <1>1 DEF FileInv, Kept
<1>3. ASSUME NEW v \in Resolvers PROVE InFile(v) = printed[v]
  <2>1. InFile(v) \in Seq(Pieces) BY <1>2, OnlyType DEF InFile
  <2>2. Join(InFile(v), << >>) = printed[v] BY <1>1 DEF FileInv, Kept
  <2> QED BY <2>1, <2>2, JoinEmpty
<1>4. \A v \in Resolvers : Range(printed[v]) \subseteq Range(file)
  <2> SUFFICES ASSUME NEW v \in Resolvers PROVE Range(printed[v]) \subseteq Range(file)
    OBVIOUS
  <2>1. Range(Only(file, Range(printed[v]))) = Range(file) \cap Range(printed[v])
    BY <1>2, OnlyRange
  <2> QED BY <1>3, <2>1 DEF InFile
<1>5. ASSUME NEW n \in Names
      PROVE  /\ \E m \in DOMAIN file : file[m] = Piece(n, <<"name">>)
             /\ \E m \in DOMAIN file : file[m].of = n /\ file[m].text # <<"name">>
  <2>1. \E p \in Range(file) : p = Piece(n, <<"name">>)
    BY <1>1, <1>4 DEF FileInv, WrittenPrinted
  <2>2. \E p \in Range(file) : p.of = n /\ p.text # <<"name">>
    BY <1>1, <1>4 DEF FileInv, WrittenPrinted
  <2> QED BY <2>1, <2>2 DEF Range
<1> DEFINE F == [m \in 1..Len(file) |-> Key(file[m])]
<1>6. Len(file) \in Nat /\ DOMAIN file = 1..Len(file) BY <1>2
<1>7. \A m \in 1..Len(file) : Key(file[m]) \in Names \X (1..2)
  <2> SUFFICES ASSUME NEW m \in 1..Len(file) PROVE Key(file[m]) \in Names \X (1..2)
    OBVIOUS
  <2>1. file[m] \in Pieces BY <1>2
  <2>2. file[m].of \in Names BY <2>1 DEF Pieces
  <2> QED BY <2>2 DEF Key
<1>8. F \in [1..Len(file) -> Names \X (1..2)] BY <1>7
<1>9. \A m, k \in 1..Len(file) : F[m] = F[k] => m = k
  BY <1>1, <1>3, <1>6, FileOnce
<1>10. \A x \in Names \X (1..2) : \E m \in 1..Len(file) : F[m] = x
  <2> SUFFICES ASSUME NEW n \in Names, NEW t \in 1..2
               PROVE  \E m \in 1..Len(file) : F[m] = <<n, t>>
    OBVIOUS
  <2>1. PICK m \in DOMAIN file : file[m] = Piece(n, <<"name">>) BY <1>5
  <2>2. PICK k \in DOMAIN file : file[k].of = n /\ file[k].text # <<"name">> BY <1>5
  <2>3. file[m].of = n /\ file[m].text = <<"name">> BY <2>1 DEF Piece
  <2>6. Key(file[m]) = <<n, 1>> BY <2>3 DEF Key
  <2>4. Key(file[k]) = <<n, 2>> BY <2>2 DEF Key
  <2>5. F[m] = <<n, 1>> /\ F[k] = <<n, 2>> BY <1>6, <2>4, <2>6
  <2> QED BY <1>6, <2>5
<1> HIDE DEF F
<1>11. Len(file) = 2 * Cardinality(Names)
  BY <1>6, <1>8, <1>9, <1>10, CountTwice
<1> QED BY <1>5, <1>11

THEOREM FileInvariant == LogSpec => [](LogInv /\ FileInv)
<1>1. LogInv /\ FileInv /\ [LogNext]_<<vars, logVars>> => LogInv' /\ FileInv'
  BY LogStep, FileStep
<1> QED BY <1>1, InitLog, InitFile, PTL DEF LogSpec

\* What the results file holds of a resolver is the beginning of what the resolver
\* printed, in order and once, and unless the process was killed its stream holds the
\* rest: however the streams are flushed into the one file (multi-lookup.c:87-129).
THEOREM PrefixKept == LogSpec => []PrefixSurvives
BY FileInvariant, PrefixFollows, PTL

\* When the process has returned and every stream is flushed, the file holds the two
\* pieces of each name once and nothing else (multi-lookup.c:104-126 and 268-287).
THEOREM FileHasAll == LogSpec => []FileComplete
BY FileInvariant, CompleteFollows, PTL

=============================================================================
