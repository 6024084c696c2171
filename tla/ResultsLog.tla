------------------------------ MODULE ResultsLog -------------------------------
(***************************************************************************)
(* The results file of multi-lookup, from the command line to the end of   *)
(* the process.  The names reach the resolvers as in NameDelivery, which   *)
(* the threads implement (see MultiLookup); here a name that is written is *)
(* looked up by one of the resolvers, which prints a line into a stdio     *)
(* stream of its own.  The stream is never closed: what is printed reaches *)
(* the file when the stream is full, or when main returns, and never if    *)
(* the process is killed.                                                  *)
(*                                                                         *)
(* A line is two pieces, the name and the answer, and a flush may come     *)
(* between them: results_lock is held around the printing, but the streams *)
(* are several, so that lines of two resolvers may be torn in the file.    *)
(***************************************************************************)
EXTENDS NameDelivery, SequencesExt

CONSTANTS
  Resolvers,   \* resolver threads
  Answers      \* what getaddrinfo may return: sequences of families, << >> an error

ASSUME ResolversAssumption == IsFiniteSet(Resolvers) /\ Workers = Cardinality(Resolvers)
ASSUME AnswersAssumption == Answers \subseteq Seq({"AF_INET", "AF_INET6", "other"})

VARIABLES
  stage,      \* of main: before clearLogs, before the check, past it, or refused
  file,       \* the pieces in the results file
  opened,     \* the resolvers that have opened it
  stream,     \* per resolver: the pieces in its stream
  ipString,   \* per resolver: what dnslookup stored last
  printed,    \* per resolver: all the pieces it printed
  answer      \* per name: what getaddrinfo returned for it

logVars == <<stage, file, opened, stream, ipString, printed, answer>>

Piece(n, text) == [of |-> n, text |-> text]
OldPiece       == Piece(<< >>, <<"old">>)    \* from an earlier run of the program

LogInit ==
  /\ Init
  /\ stage = "start" /\ file = <<OldPiece, OldPiece>>
  /\ opened = {} /\ stream = [v \in Resolvers |-> << >>]
  /\ ipString = [v \in Resolvers |-> <<"garbage">>]
  /\ printed = [v \in Resolvers |-> << >>]
  /\ answer = [n \in Names |-> << >>]

-----------------------------------------------------------------------------
(* main: the logs are emptied, then the arguments are looked at.           *)

\* A mutant of clearLogs: the file is opened to append.
clearLogsAppending ==
  /\ stage = "start" /\ stage' = "cleared"
  /\ UNCHANGED <<vars, file, opened, stream, ipString, printed, answer>>

clearLogs ==
  /\ stage = "start" /\ stage' = "cleared"
  /\ file' = << >>
  /\ UNCHANGED <<vars, opened, stream, ipString, printed, answer>>

\* Too few arguments, or too few or too many threads: main returns -1.
CheckArguments ==
  /\ stage = "cleared" /\ stage' \in {"working", "refused"}
  /\ UNCHANGED <<vars, file, opened, stream, ipString, printed, answer>>

Working == stage = "working" /\ outcome = "running"

-----------------------------------------------------------------------------
(* resolverThreads: the part that looks up and prints.                     *)

\* A mutant of OpenResults: fopen(resultstxtfile, "w").
OpenResultsTruncating(v) ==
  /\ Working
  /\ v \notin opened /\ opened' = opened \cup {v}
  /\ file' = << >>
  /\ UNCHANGED <<vars, stage, stream, ipString, printed, answer>>

\* fopen(resultstxtfile, "a"): what others have put into the file stays.
OpenResults(v) ==
  /\ Working
  /\ v \notin opened /\ opened' = opened \cup {v}
  /\ UNCHANGED <<vars, stage, file, stream, ipString, printed, answer>>

\* What dnslookup stores for the address of n: the first in the list counts, and only
\* AF_INET is converted.  (An inet_ntop that fails, line 47, needs a buffer too small
\* for an address, and there is none.)
FirstIP(n, list) == IF list[1] = "AF_INET" THEN <<"address", n>> ELSE <<"UNHANDELED">>

\* fprintf: the pieces go behind those in the stream; what does not fit is preceded by
\* a write of all that does, wherever that cuts the line.
Fprintf(v, pieces) ==
  LET waiting == stream[v] \o pieces
  IN  \E k \in 0..Len(waiting) :
        /\ file' = file \o SubSeq(waiting, 1, k)
        /\ stream' = [stream EXCEPT ![v] = SubSeq(waiting, k + 1, Len(waiting))]
        /\ printed' = [printed EXCEPT ![v] = @ \o pieces]

Line(n, text) == <<Piece(n, <<"name">>), Piece(n, text)>>

\* A mutant of Resolve: the result of dnslookup is not looked at.
ResolveBlind(v, n, list) ==
  /\ Working /\ v \in opened /\ Write(n)
  /\ answer' = [answer EXCEPT ![n] = list]
  /\ ipString' = IF list = << >> THEN ipString ELSE [ipString EXCEPT ![v] = FirstIP(n, list)]
  /\ Fprintf(v, Line(n, ipString'[v]))
  /\ UNCHANGED <<stage, opened>>

\* Under results_lock: dnslookup, then a line with the address or, after
\* UTIL_FAILURE, without one.  Only a lookup that succeeds stores an address.
Resolve(v, n, list) ==
  /\ Working /\ v \in opened /\ Write(n)
  /\ answer' = [answer EXCEPT ![n] = list]
  /\ \/ /\ list = << >>
        /\ Fprintf(v, Line(n, <<"none">>))
        /\ UNCHANGED ipString
     \/ /\ list # << >>
        /\ ipString' = [ipString EXCEPT ![v] = FirstIP(n, list)]
        /\ Fprintf(v, Line(n, ipString'[v]))
  /\ UNCHANGED <<stage, opened>>

-----------------------------------------------------------------------------
(* The names on their way, and the end of the process.                     *)

Transport ==
  /\ Working /\ ((\E f \in Files : Put(f)) \/ Take)
  /\ UNCHANGED logVars

\* main has joined every resolver, and free() of the two arrays of the stack did no
\* harm.
Finish ==
  /\ Working /\ opened = Resolvers /\ Return
  /\ UNCHANGED logVars

\* A fault of a thread (getline on a file that cannot be opened, a name below the
\* buffer) or of that free(): the streams are lost.
Killed ==
  /\ Working /\ Fail
  /\ stream' = [v \in Resolvers |-> << >>]
  /\ UNCHANGED <<stage, file, opened, ipString, printed, answer>>

\* exit() flushes the streams one by one.
Flush(v) ==
  /\ outcome = "returned" /\ stream[v] # << >>
  /\ file' = file \o stream[v]
  /\ stream' = [stream EXCEPT ![v] = << >>]
  /\ UNCHANGED <<vars, stage, opened, ipString, printed, answer>>

LogNext ==
  \/ clearLogs \/ CheckArguments \/ Transport \/ Finish \/ Killed
  \/ \E v \in Resolvers :
       OpenResults(v) \/ Flush(v) \/ \E n \in Names, list \in Answers : Resolve(v, n, list)

LogSpec == LogInit /\ [][LogNext]_<<vars, logVars>>

-----------------------------------------------------------------------------
(* Properties.                                                             *)

\* A line carries the answer to its own name and to no other, although the string it
\* is printed from is shared by all lookups of a resolver and keeps the last address
\* when a lookup fails (multi-lookup.c:98 and 119-124, util.c:34-84).
OwnAnswer ==
  \A v \in Resolvers : \A p \in Range(printed[v]) :
    /\ p.text = <<"none">> <=> p.text # <<"name">> /\ answer[p.of] = << >>
    /\ p.text[1] = "address" => p.text[2] = p.of /\ answer[p.of][1] = "AF_INET"

\* The pieces of s that are in set S, in the order of s.
Only(s, S) ==
  LET part[m \in 0..Len(s)] == IF m = 0 THEN << >>
                               ELSE IF s[m] \in S THEN Append(part[m - 1], s[m])
                               ELSE part[m - 1]
  IN  part[Len(s)]

\* The pieces resolver v has in the file.
InFile(v) == Only(file, Range(printed[v]))

\* What the file holds of a resolver is what it printed up to some point, in order and
\* once, and the rest is in its stream, whenever the other resolvers open the file and
\* flush into it.  A process that is killed loses the rest and no more.
PrefixSurvives ==
  stage = "working" =>
    \A v \in Resolvers :
      /\ IsPrefix(InFile(v), printed[v])
      /\ outcome # "failed" => InFile(v) \o stream[v] = printed[v]

\* When the process has returned, the file holds both pieces of each name of this run,
\* and nothing else, in particular nothing of an earlier run.
FileComplete ==
  outcome = "returned" /\ (\A v \in Resolvers : stream[v] = << >>) =>
    /\ Len(file) = 2 * Cardinality(Names)
    /\ \A n \in Names :
         /\ \E m \in DOMAIN file : file[m] = Piece(n, <<"name">>)
         /\ \E m \in DOMAIN file : file[m].of = n /\ file[m].text # <<"name">>

=============================================================================
