------------------------------- MODULE RefCat -------------------------------
(***************************************************************************)
(* The download of a reference catalogue (get_astreffield of astrefcat.c)  *)
(* through the buffered reader of url.c.  The servers of REF_SERVER are    *)
(* tried in turn until one answers with a line that starts with '#'; what  *)
(* it sends after that is read line by line.  The transfer is driven by    *)
(* the reader itself: fill_buffer lets libcurl deliver whatever has        *)
(* arrived, in pieces of any size, until a whole buffer is there or the    *)
(* transfer has ended, and the reader cannot tell whether it ended because *)
(* all has been sent or because the connection was lost.                   *)
(*                                                                         *)
(* A stream is a sequence of tokens: "#" a comment, "-" a rule of the      *)
(* header, "n" a newline, other tokens the rows of the table.  One token   *)
(* of a row stands for all its columns.                                    *)
(***************************************************************************)
EXTENDS Integers, Sequences, SequencesExt, FiniteSetsExt

CONSTANTS NServer,    \* prefs.nref_server
          Streams,    \* what a server may send, <<>> included
          Rows,       \* the tokens that are rows with a usable magnitude
          DarkRow,    \* the token that is a row without one
          MaxLine,    \* MAXCHAR-1, the longest line url_fgets returns
          MaxPiece    \* bound: the most tokens one call of libcurl delivers

ASSUME ServerAssumption == NServer \in Nat \ {0} /\ MaxLine \in Nat \ {0}
ASSUME StreamAssumption ==
    \A s \in Streams : Range(s) \subseteq Rows \union {DarkRow, "#", "-", "n"}

Servers == 1..NServer

VARIABLES stream,      \* [server -> what it has to send]
          received,    \* [server -> what write_callback has been given of it]
          server,      \* s of the server loop, from 1
          step,        \* where get_astreffield is, see Steps
          buffer,      \* file->buffer, up to buffer_pos
          running,     \* file->still_running
          performed,   \* fill_buffer has been round its loop for this line
          lines,       \* history: the lines url_fgets has returned for server
          kept         \* the first tokens of the samples of the set

vars == <<stream, received, server, step, buffer, running, performed, lines, kept>>

\* "field": a reference field is returned; "none": NULL, no source; "error":
\* error() after the last server; "crash": url_fopen gave up and url_fgets
\* follows its NULL.
Steps == {"open", "greeting", "rows", "field", "none", "error", "crash"}

Init ==
    /\ stream \in [Servers -> Streams]
    /\ received = [s \in Servers |-> <<>>]
    /\ server = 1
    /\ step = "open"
    /\ buffer = <<>>
    /\ running = FALSE
    /\ performed = FALSE
    /\ lines = <<>>
    /\ kept = <<>>

\* curl_multi_perform: the next n tokens go through write_callback, and the
\* transfer goes on or has ended, for whatever reason.
Perform(n) ==
    LET have == Len(received[server])
        piece == SubSeq(stream[server], have + 1, have + n)
    IN  /\ have + n <= Len(stream[server])
        /\ received' = [received EXCEPT ![server] = @ \o piece]
        /\ buffer' = buffer \o piece
        /\ running' \in BOOLEAN

-----------------------------------------------------------------------------
\* url_fopen, which starts the transfer.  A transfer that ends at once without
\* a byte makes it return NULL, and get_astreffield does not look.
Open ==
    /\ step = "open"
    /\ \E n \in 0..MaxPiece : Perform(n)
    /\ step' = IF buffer' = <<>> /\ ~running' THEN "crash" ELSE "greeting"
    /\ performed' = FALSE
    /\ lines' = <<>>
    /\ UNCHANGED <<stream, server, kept>>

\* The loop of fill_buffer: entered unless there is more than a line already,
\* left when there is as much as a line.
Wanting ==
    /\ step \in {"greeting", "rows"}
    /\ running
    /\ Len(buffer) < MaxLine \/ (Len(buffer) = MaxLine /\ ~performed)

Fill ==
    /\ Wanting
    /\ \E n \in 0..MaxPiece : Perform(n)
    /\ performed' = TRUE
    /\ UNCHANGED <<stream, server, step, lines, kept>>

\* The end of the first line of the buffer, as url_fgets finds it.
LineEnd(text) ==
    LET want == Min({Len(text), MaxLine})
    IN  Min({want} \union {i \in 1..want : text[i] = "n"})

\* Defect: one token too many is moved out of the way.
RestOneOff(text, n) == SubSeq(text, n + 2, Len(text))
\* use_buffer: what is left behind the first n tokens.
Rest(text, n) == SubSeq(text, n + 1, Len(text))

\* What url_fgets returns when fill_buffer is back: the first line of the
\* buffer, or NULL if nothing has come and nothing will.
LineReady == ~Wanting /\ buffer # <<>>
EndOfFile == ~Wanting /\ buffer = <<>>
Line == SubSeq(buffer, 1, LineEnd(buffer))

ReadLine ==
    /\ LineReady
    /\ buffer' = Rest(buffer, LineEnd(buffer))
    /\ performed' = FALSE
    /\ lines' = Append(lines, Line)

\* url_fclose.
CloseFile == buffer' = <<>> /\ running' = FALSE /\ performed' = FALSE

-----------------------------------------------------------------------------
\* Defect: any first line will do.
GreetsAnyway(line) == line # <<>>
\* The first line decides whether the server is taken.
Greets(line) == Head(line) = "#"

Greeting ==
    /\ step = "greeting"
    /\ ReadLine
    /\ Greets(Line)
    /\ step' = "rows"
    /\ UNCHANGED <<stream, received, server, running, kept>>

\* No line, or one of another kind: the next server, or error() after the last.
NextServer ==
    /\ step = "greeting"
    /\ EndOfFile \/ (LineReady /\ ~Greets(Line))
    /\ CloseFile
    /\ IF server = NServer
       THEN step' = "error" /\ UNCHANGED server
       ELSE step' = "open" /\ server' = server + 1
    /\ UNCHANGED <<stream, received, lines, kept>>

\* One more line.  Comments, empty lines and rules are skipped.  A row in which
\* no magnitude is usable is to be dropped, but the test reads mag[nband],
\* which this catalogue has not set: the row may as well be kept.
Row ==
    /\ step = "rows"
    /\ ReadLine
    /\ \/ Head(Line) \in Rows \union {DarkRow} /\ kept' = Append(kept, Head(Line))
       \/ Head(Line) \notin Rows /\ UNCHANGED kept
    /\ UNCHANGED <<stream, received, server, step, running>>

\* No more lines: a field with the samples kept, or NULL without any.
Finish ==
    /\ step = "rows"
    /\ EndOfFile
    /\ CloseFile
    /\ step' = IF kept = <<>> THEN "none" ELSE "field"
    /\ UNCHANGED <<stream, received, server, lines, kept>>

Next == Open \/ Fill \/ Greeting \/ NextServer \/ Row \/ Finish

Spec == Init /\ [][Next]_vars

-----------------------------------------------------------------------------
\* A text cut into lines of at most limit tokens, by going through it once.
Lines(text, limit) ==
    LET Add(cut, token) ==
            LET open == Append(cut.open, token)
            IN  IF token = "n" \/ Len(open) = limit
                THEN [whole |-> Append(cut.whole, open), open |-> <<>>]
                ELSE [cut EXCEPT !.open = open]
        all == FoldLeft(Add, [whole |-> <<>>, open |-> <<>>], text)
    IN  IF all.open = <<>> THEN all.whole ELSE Append(all.whole, all.open)

\* The lines of a text however long, and the rows among them.
TextLines(text) == Lines(text, Len(text) + 1)
ShortLines(text) == \A i \in DOMAIN TextLines(text) : Len(TextLines(text)[i]) <= MaxLine

IsRow(token) == token \in Rows
Table(text) ==
    SelectSeq([i \in DOMAIN TextLines(text) |-> Head(TextLines(text)[i])], IsRow)

\* However the stream is cut into pieces by the network, what url_fgets returns
\* is that stream cut into lines, in order, and what it has not returned yet is
\* in the buffer: a line is never cut because its end was late, nothing is lost
\* or read twice when the buffer is moved down (fill_buffer, use_buffer,
\* url_fgets of url.c).
LinesWhole ==
    step \in {"greeting", "rows", "field", "none"} =>
        /\ IsPrefix(lines, Lines(received[server], MaxLine))
        /\ FlattenSeq(lines) \o buffer = received[server]

\* get_astreffield takes the first server that answers as a VizieR server does,
\* gives up only when none has, and if the transfer was not cut short and no line
\* is longer than its buffer, the field has every row with a magnitude once, in
\* order.  A field without such a row has only rows the test on magnitudes let
\* through.
FirstAnswerUsed ==
    LET Answered(s) == received[s] # <<>> /\ Head(received[s]) = "#"
    IN  /\ step \in {"field", "none"} =>
             /\ Answered(server)
             /\ \A s \in 1..server - 1 : ~Answered(s)
             /\ received[server] = stream[server] /\ ShortLines(stream[server]) =>
                    SelectSeq(kept, IsRow) = Table(stream[server])
        /\ step = "error" => \A s \in Servers : ~Answered(s)
=============================================================================
