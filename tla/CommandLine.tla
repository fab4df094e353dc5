---------------------------- MODULE CommandLine ----------------------------
(***************************************************************************)
(* From a line to a command: trim, count_args, tokenize_buffer and         *)
(* parse_buffer, the same in the server and in the client.  A line is a    *)
(* sequence of characters; of the letters one is enough, in both cases.    *)
(*                                                                         *)
(* parse_buffer allocates its array for the tokens it counts, and reads    *)
(* the last of them; strtok() writes those it finds.  Parse is the set of  *)
(* what may come of a line.                                                *)
(*                                                                         *)
(* Definitions ending in _Faulty are mistakes the property named in their  *)
(* comment excludes; they are not part of the model.                       *)
(***************************************************************************)
EXTENDS Integers, Sequences, SequencesExt, Ascending

CONSTANT MaxLength     \* bound: the length of a line

ASSUME LengthAssumption == MaxLength \in Nat

VARIABLE line          \* what has arrived of the line

Space == " "                     \* what separates words
White == {Space, "\t", "\r", "\n"}
Characters == White \cup {"a", "A"}

LineInit == line = <<>>

\* getline() and fgets() read up to a line feed, which may be missing at the end of
\* the stream.
Arrive ==
    /\ Len(line) < MaxLength
    /\ \A i \in DOMAIN line : line[i] # "\n"
    /\ \E c \in Characters : line' = Append(line, c)

Unwritten == <<"?">>             \* what malloc() left in the array
Nothing == [name |-> <<>>, argc |-> 0, argv |-> <<>>]
Crashed == [name |-> Unwritten, argc |-> 0, argv |-> <<>>]

LineSpec == LineInit /\ [][Arrive]_line

-----------------------------------------------------------------------------
Upper(c) == IF c = "a" THEN "A" ELSE c

\* White space at the start stays (ParsesWords).
Trim_Faulty(str) ==
    LET ink == {i \in DOMAIN str : str[i] \notin White} IN
    IF ink = {} THEN <<>> ELSE SubSeq(str, 1, Max(ink))

Trim(str) ==
    LET ink == {i \in DOMAIN str : str[i] \notin White} IN
    IF ink = {} THEN <<>> ELSE SubSeq(str, Min(ink), Max(ink))

Spaces(buffer) == {i \in DOMAIN buffer : buffer[i] = Space}

\* The first token is forgotten (TokensFit).
CountArgs_Faulty(buffer) == Cardinality(Spaces(buffer))

CountArgs(buffer) == Cardinality(Spaces(buffer)) + 1

\* strtok(buffer, " ") at one more character; its successive calls return the tokens.
NoTokens == [tokens |-> <<>>, token |-> <<>>]

Scan(state, c) ==
    IF c # Space THEN [state EXCEPT !.token = Append(@, c)]
    ELSE IF state.token = <<>> THEN state
    ELSE [tokens |-> Append(state.tokens, state.token), token |-> <<>>]

Tokens(buffer) == FoldLeft(Scan, NoTokens, Append(buffer, Space)).tokens

Without(token, end) == IF Last(token) = end THEN Front(token) ELSE token

\* A carriage return, then a line feed.
Chomp(token) == Without(Without(token, "\r"), "\n")

TokenizeBuffer(buffer, count) ==
    LET tokens == Tokens(buffer) IN
    [i \in 1..count |-> IF i > Len(tokens) THEN Unwritten
                        ELSE IF i = count THEN Chomp(tokens[i]) ELSE tokens[i]]

\* setup_command, and the upper case get_command_handler makes of the name.
Command(tokens) ==
    [name |-> [i \in DOMAIN tokens[1] |-> Upper(tokens[1][i])],
     argc |-> Len(tokens) - 1,
     argv |-> Tail(tokens)]

Parse(str) ==
    LET buffer == Trim(str)
        tokens == TokenizeBuffer(buffer, CountArgs(buffer))
    IN  IF buffer = <<>> THEN {Nothing}
        ELSE IF Last(tokens) = Unwritten THEN {Crashed, Command(tokens)}
        ELSE {Command(tokens)}

-----------------------------------------------------------------------------
(* What the words of a line are, without reading it from left to right.    *)

\* A word stretches from i to j.
IsWord(str, i, j) ==
    /\ i =< j
    /\ \A k \in i..j : str[k] # Space
    /\ i = 1 \/ str[i - 1] = Space
    /\ j = Len(str) \/ str[j + 1] = Space

Words(str) ==
    LET starts == Ascending({i \in DOMAIN str : \E j \in DOMAIN str : IsWord(str, i, j)})
        WordAt(i) == SubSeq(str, i, CHOOSE j \in DOMAIN str : IsWord(str, i, j))
    IN  [n \in DOMAIN starts |-> WordAt(starts[n])]

\* No two spaces in a row, but for the ends of the line.
Single == LET buffer == Trim(line) IN \A i \in Spaces(buffer) : buffer[i + 1] # Space

\* A line that separates its words by one space is read as its words, whatever
\* white space it has at its ends and however it ends; a line of white space as
\* nothing, for which both programs have their own answer (parse_command_buffer).
ParsesWords ==
    LET words == Words(Trim(line)) IN
    Single => Parse(line) = {IF words = <<>> THEN Nothing ELSE Command(words)}

\* strtok() never finds more tokens than the array has room for, and leaves the one
\* that is read last unwritten, so that its reader may crash, only where two spaces
\* follow each other (count_args and tokenize_buffer).
TokensFit ==
    LET buffer == Trim(line) IN
    buffer # <<>> =>
        /\ Len(Tokens(buffer)) =< CountArgs(buffer)
        /\ Crashed \in Parse(line) <=> ~Single

=============================================================================
