----------------------------- MODULE CommandLoop -----------------------------
(***************************************************************************)
(* The printer's loop (app_main in mendel.c), the G-code parser and the    *)
(* commands for the SD card.  Lines come from the host and from the file   *)
(* being printed; both go through one parser with one global next_target,  *)
(* and one FIL serves for printing and for storing an upload.              *)
(*                                                                         *)
(* A line is a sequence of words, separated by single spaces ('*' and the  *)
(* end of line are attached): a letter with its number, a file name, '*'   *)
(* with a checksum, a comment mark, the end of the line.  A file is the    *)
(* sequence of its words, and may have a CR before the end of a line: each *)
(* counts as one in sizes and positions.  X stands for all axes, S for S,  *)
(* P and F; names contain no letter that the parser knows.                 *)
(***************************************************************************)
EXTENDS Integers, FiniteSets, SequencesExt

CONSTANTS
  MAX_LINE,      \* words a line buffer holds
  CardSpace,     \* words a file can hold before the card is full
  HostLines,     \* the lines a host may send
  Names,         \* file names
  InitialCard    \* the files on the card at the start

LF == [f |-> "LF", v |-> 0]
CR == [f |-> "CR", v |-> 0]                \* f_gets drops it
NoWord == [f |-> "none", v |-> 0]
Absent == <<NoWord>>                       \* content of a file that does not exist
NoName == -1                               \* no name given so far
Odd == 0                                   \* any other word, taken for a file name

Words == UNION {ToSet(l) : l \in HostLines \cup Range(InitialCard)}

ASSUME LineAssumption == MAX_LINE \in Nat \ {0, 1} /\ CardSpace \in Nat
ASSUME CardAssumption ==
  /\ Names \subseteq Nat \ {Odd}
  /\ InitialCard \in [Names \cup {Odd} -> Seq(Words)]
ASSUME HostAssumption ==
  \A l \in HostLines :
    l \in Seq(Words) /\ Len(l) > 0 /\ l[Len(l)] = LF /\ CR \notin ToSet(l)
ASSUME WordAssumption ==
  \A w \in Words : w.v \in Nat /\ (w.f = "name" => w.v \in Names)

VARIABLES
  pc,               \* where the loop is: "serial", "sd", "parse"
  serial_line_buf,  \* words of the pending line of the host, <<>> if none
  sd_line_buf,      \* words of the pending line of the file, <<>> if none
  next_target,      \* the parser: everything that outlives a line
  sd,               \* sd_active, sd_printing, sd_writing_file, sd_pos, filesize
  file,             \* the FIL: how it is opened, on which file, where it stands
  card,             \* the files
  last,             \* history: what this step executed
  strays,           \* history: lines of a printed file stored in this upload
  dropped           \* history: CRs dropped since the position was set

vars == <<pc, serial_line_buf, sd_line_buf, next_target, sd, file, card, last,
          strays, dropped>>

Numbered == {"G", "M", "X", "S", "N", "*"}
Closed == [mode |-> "closed", name |-> Odd, at |-> 0]
Nothing == [line |-> <<>>, clean |-> FALSE, letter |-> "none", number |-> 0, x |-> 0,
            s |-> 0, inches |-> FALSE]

Init ==
  /\ pc = "serial"
  /\ serial_line_buf = <<>> /\ sd_line_buf = <<>>
  /\ next_target = [seen |-> {}, val |-> [l \in Numbered |-> 0], last_field |-> NoWord,
                    getting_string |-> FALSE, filename |-> NoName, first |-> TRUE,
                    relative |-> FALSE, inches |-> FALSE]
  /\ sd = [active |-> FALSE, printing |-> FALSE, writing |-> FALSE, pos |-> 0, size |-> 0]
  /\ file = Closed
  /\ card = InitialCard
  /\ last = Nothing /\ strays = 0 /\ dropped = 0

-----------------------------------------------------------------------------
(* gcode_parse_char, a word at a time.                                     *)

\* A letter, '*' or the end of the line completes the field before it.
Completes(w) == w.f \notin {";", "(", ")"}

\* The number of a field as next_target keeps it: G and the checksum in 8 bits,
\* M in 16, S in 16 with a sign, coordinates in tenths of a millimetre.
FieldValue(w, inches) ==
  CASE w.f \in {"G", "*"} -> w.v % 256
    [] w.f = "M" -> w.v % 65536
    [] w.f = "S" -> ((w.v + 32768) % 65536) - 32768
    [] w.f = "X" -> w.v * (IF inches THEN 254 ELSE 10)
    [] OTHER -> w.v

\* M23 and M28 are followed by a name.
TakesName(w) == w.f = "M" /\ FieldValue(w, FALSE) \in {23, 28}

StoreField(p, w) ==
  IF Completes(w) /\ p.last_field # NoWord
    THEN [p EXCEPT
           !.val = [l \in Numbered |-> IF l = p.last_field.f
                                       THEN FieldValue(p.last_field, p.inches) ELSE @[l]],
           !.getting_string = @ \/ TakesName(p.last_field),
           !.last_field = NoWord]
    ELSE p

CardName(w) == IF w.f = "name" THEN w.v ELSE Odd

\* A file name ends at a space, '*' or the end of the line.
TakeName(p, w) ==
  CASE ~p.getting_string -> p
    [] p.getting_string /\ w.f \in {"LF", "*"} -> [p EXCEPT !.getting_string = FALSE]
    [] OTHER -> [p EXCEPT !.filename = CardName(w)]

InComment(p) == p.seen \cap {";", "("} # {}

\* A new G forgets the M of the line, and a new M its G.
NewField(p, w) ==
  LET other == CASE w.f = "G" -> {"M"} [] w.f = "M" -> {"G"} [] OTHER -> {}
  IN  [p EXCEPT !.last_field = IF Completes(w) /\ w # LF THEN w ELSE @,
                !.seen = (@ \ other) \cup ({w.f} \cap (Numbered \cup {";", "("})),
                !.val = [l \in Numbered |-> IF l \in other THEN 0 ELSE @[l]]]

gcode_parse_char(p, w) ==
  LET spaced == [p EXCEPT !.getting_string = @ /\ p.first, !.first = FALSE]
      q == TakeName(StoreField(spaced, w), w)
  IN  CASE q.getting_string -> q
        [] ~q.getting_string /\ InComment(q) ->
             IF w.f = ")" THEN [q EXCEPT !.seen = @ \ {"("}] ELSE q
        [] OTHER -> NewField(q, w)

-----------------------------------------------------------------------------
(* gcode_parse_line.                                                       *)

\* The parser after the first n words of a line.
Parsed(line) ==
  LET after[n \in 0 .. Len(line)] ==
        IF n = 0 THEN next_target ELSE gcode_parse_char(after[n - 1], line[n])
  IN  after[Len(line)]

\* The checksum of a line is 1: '*' is followed by 1 or by a wrong number.
Accepted(p) == p.val["*"] = 1 \/ "*" \notin p.seen

\* Variant with a defect: relative coordinates outlive their line.
EndOfLineKeepsX(p) ==
  [p EXCEPT !.seen = {}, !.last_field = NoWord, !.first = TRUE,
            !.val = [@ EXCEPT !["*"] = 0, !["G"] = 0]]

\* The reset at the end of each line.
EndOfLine(p) ==
  [p EXCEPT !.seen = {}, !.last_field = NoWord, !.first = TRUE,
            !.val = [p.val EXCEPT !["*"] = 0, !["G"] = 0,
                                   !["X"] = IF p.relative THEN 0 ELSE p.val["X"]]]

SDCode(p) == "M" \in p.seen /\ p.val["M"] \in 20..29
StopWriting(p) == SDCode(p) /\ p.val["M"] = 29

\* f_write stores what fits and reports success.
Stored(content, line) ==
  SubSeq(content \o line, 1, Min({CardSpace, Len(content) + Len(line)}))

\* A line that arrives during an upload: M29 ends it, other SD codes are
\* answered and ignored, everything else is stored.
WriteLine(line, p, stray) ==
  /\ Accepted(p) /\ sd.writing
  /\ next_target' = EndOfLine(p)
  /\ IF StopWriting(p)
       THEN sd' = [sd EXCEPT !.writing = FALSE] /\ file' = Closed
       ELSE UNCHANGED <<sd, file>>
  /\ IF ~SDCode(p) /\ file.mode = "write"
       THEN /\ card' = [card EXCEPT ![file.name] = Stored(@, line)]
            /\ strays' = strays + stray
       ELSE UNCHANGED <<card, strays>>
  /\ last' = Nothing /\ UNCHANGED dropped

RejectLine(p) ==
  /\ ~Accepted(p)
  /\ next_target' = EndOfLine(p)
  /\ last' = Nothing
  /\ UNCHANGED <<sd, file, card, strays, dropped>>

-----------------------------------------------------------------------------
(* process_gcode_command.                                                  *)

\* Variant with a defect: sd_pos is not reset with the file.
SelectKeepsPos(p) ==
  LET name == p.filename
      found == name # NoName /\ card[name] # Absent
  IN  /\ sd' = [sd EXCEPT !.active = TRUE, !.printing = FALSE,
                          !.size = IF found THEN Len(card[name]) ELSE @]
      /\ file' = IF found THEN [mode |-> "read", name |-> name, at |-> 0] ELSE Closed
      /\ dropped' = IF found THEN 0 ELSE dropped
      /\ UNCHANGED <<card, strays>>

\* M23: select a file for printing.
SelectFile(p) ==
  LET name == p.filename
      found == name # NoName /\ card[name] # Absent
  IN  /\ sd' = [sd EXCEPT !.active = TRUE, !.printing = FALSE,
                          !.pos = IF found THEN 0 ELSE @,
                          !.size = IF found THEN Len(card[name]) ELSE @]
      /\ file' = IF found THEN [mode |-> "read", name |-> name, at |-> 0] ELSE Closed
      /\ dropped' = IF found THEN 0 ELSE dropped
      /\ UNCHANGED <<card, strays>>

\* Variant with a defect: the print is not stopped.
WritingWhilePrinting(p) ==
  LET name == p.filename
      made == name # NoName
  IN  /\ sd' = [sd EXCEPT !.active = TRUE, !.writing = made]
      /\ file' = IF made THEN [mode |-> "write", name |-> name, at |-> 0] ELSE Closed
      /\ card' = IF made THEN [card EXCEPT ![name] = <<>>] ELSE card
      /\ strays' = 0 /\ UNCHANGED dropped

\* M28: create a file and store the lines that follow in it.
StartWriting(p) ==
  LET name == p.filename
      made == name # NoName
  IN  /\ sd' = [sd EXCEPT !.active = TRUE, !.printing = FALSE, !.writing = made]
      /\ file' = IF made THEN [mode |-> "write", name |-> name, at |-> 0] ELSE Closed
      /\ card' = IF made THEN [card EXCEPT ![name] = <<>>] ELSE card
      /\ strays' = 0 /\ UNCHANGED dropped

\* M26: f_lseek clips at the end of a file open for reading.  A negative S
\* becomes a number beyond the end of every file in the 32 bits of sd_pos; it
\* is kept as it is here.
SeekTo(s, size) == IF s < 0 THEN size ELSE Min({s, size})

SetPosition(p) ==
  /\ IF sd.active /\ "S" \in p.seen
       THEN /\ sd' = [sd EXCEPT !.pos = p.val["S"]]
            /\ file' = IF file.mode = "read"
                         THEN [file EXCEPT !.at = SeekTo(p.val["S"], Len(card[file.name]))]
                         ELSE file
            /\ dropped' = 0
       ELSE UNCHANGED <<sd, file, dropped>>
  /\ UNCHANGED <<card, strays>>

\* M21, M22, M24, M25: the flags alone.
CardFlags(m) ==
  CASE m = 21 -> [sd EXCEPT !.printing = FALSE, !.active = TRUE]
    [] m = 22 -> [sd EXCEPT !.printing = FALSE, !.active = FALSE]
    [] m = 24 -> [sd EXCEPT !.printing = @ \/ sd.active]
    [] m = 25 -> [sd EXCEPT !.printing = FALSE]
    [] OTHER -> sd

CardCommand(p) ==
  IF "M" \notin p.seen THEN UNCHANGED <<sd, file, card, strays, dropped>>
  ELSE CASE p.val["M"] = 23 -> SelectFile(p)
         [] p.val["M"] = 26 -> SetPosition(p)
         [] p.val["M"] = 28 -> StartWriting(p)
         [] OTHER -> sd' = CardFlags(p.val["M"]) /\ UNCHANGED <<file, card, strays, dropped>>

\* G20 and G21, G90 and G91.  N_expected, which nothing reads without
\* REQUIRE_LINENUMBER, is left out, and with it M110.
Modes(p) ==
  LET code == IF "G" \in p.seen THEN p.val["G"] ELSE -1
  IN  [p EXCEPT !.relative = (code = 91) \/ (code # 90 /\ p.relative),
                !.inches = (code = 20) \/ (code # 21 /\ p.inches)]

\* The target of a move: relative moves add every axis, absolute ones those seen.
Target(p) == IF p.relative \/ "X" \in p.seen THEN p.val["X"] ELSE 0

Letter(p) == CASE "G" \in p.seen -> "G" [] "M" \in p.seen -> "M" [] OTHER -> "none"

process_gcode_command(line, p) ==
  /\ Accepted(p) /\ ~sd.writing
  /\ CardCommand(p)
  /\ next_target' = EndOfLine(Modes(p))
  /\ last' = [line |-> line,
              clean |-> line[Len(line)] = LF /\ ~next_target.getting_string,
              letter |-> Letter(p),
              number |-> IF Letter(p) = "none" THEN 0 ELSE p.val[Letter(p)],
              x |-> Target(p), s |-> p.val["S"], inches |-> p.inches]

gcode_parse_line(line, stray) ==
  LET p == Parsed(line)
  IN  RejectLine(p) \/ WriteLine(line, p, stray) \/ process_gcode_command(line, p)

-----------------------------------------------------------------------------
(* The loop.                                                               *)

\* Variant with a defect: the length of the line is not checked.
SerialLineUnbounded ==
  /\ pc = "serial" /\ pc' = "sd"
  /\ serial_line_buf = <<>>
  /\ \E l \in HostLines : serial_line_buf' = IF l = <<LF>> THEN <<>> ELSE l
  /\ last' = Nothing
  /\ UNCHANGED <<sd_line_buf, next_target, sd, file, card, strays, dropped>>

\* Characters beyond the buffer are dropped, the end of the line too; an
\* empty line is forgotten.
SerialLine ==
  /\ pc = "serial" /\ pc' = "sd"
  /\ serial_line_buf = <<>>
  /\ \E l \in HostLines :
       serial_line_buf' = IF l = <<LF>> THEN <<>>
                          ELSE SubSeq(l, 1, Min({MAX_LINE, Len(l)}))
  /\ last' = Nothing
  /\ UNCHANGED <<sd_line_buf, next_target, sd, file, card, strays, dropped>>

SerialNothing ==
  /\ pc = "serial" /\ pc' = "sd"
  /\ last' = Nothing
  /\ UNCHANGED <<serial_line_buf, sd_line_buf, next_target, sd, file, card, strays, dropped>>

\* What f_gets keeps of the first n words of a text.
Kept(text) ==
  LET kept[n \in 0 .. Len(text)] ==
        IF n = 0 THEN <<>>
        ELSE IF text[n] = CR THEN kept[n - 1] ELSE Append(kept[n - 1], text[n])
  IN  kept

\* f_gets reads up to the end of a line, of the file or of the buffer, and
\* strips CRs: the line, and how many words it has read for it.
f_gets ==
  LET rest == IF file.mode = "read"
                THEN SubSeq(card[file.name], file.at + 1, Len(card[file.name])) ELSE <<>>
      kept == Kept(rest)
      stop == {n \in 1..Len(rest) :
                 rest[n] = LF \/ Len(kept[n]) = MAX_LINE - 1 \/ n = Len(rest)}
      n == IF rest = <<>> THEN 0 ELSE Min(stop)
  IN  [line |-> kept[n], read |-> n]

\* An empty line means the end of the file.
sd_read_file ==
  /\ pc = "sd" /\ pc' = "parse"
  /\ sd_line_buf = <<>> /\ sd.printing
  /\ sd_line_buf' = f_gets.line
  /\ sd' = IF f_gets.line = <<>> THEN [sd EXCEPT !.printing = FALSE]
           ELSE [sd EXCEPT !.pos = @ + Len(f_gets.line)]
  /\ file' = [file EXCEPT !.at = @ + f_gets.read]
  /\ dropped' = dropped + (f_gets.read - Len(f_gets.line))
  /\ last' = Nothing
  /\ UNCHANGED <<serial_line_buf, next_target, card, strays>>

NoRead ==
  /\ pc = "sd" /\ pc' = "parse"
  /\ sd_line_buf # <<>> \/ ~sd.printing
  /\ last' = Nothing
  /\ UNCHANGED <<serial_line_buf, sd_line_buf, next_target, sd, file, card, strays, dropped>>

\* plan_queue_full, or no line pending.
NoParse ==
  /\ pc = "parse" /\ pc' = "serial"
  /\ last' = Nothing
  /\ UNCHANGED <<serial_line_buf, sd_line_buf, next_target, sd, file, card, strays, dropped>>

ParseSerial ==
  /\ pc = "parse" /\ pc' = "serial"
  /\ serial_line_buf # <<>> /\ serial_line_buf' = <<>>
  /\ gcode_parse_line(serial_line_buf, 0)
  /\ UNCHANGED sd_line_buf

\* Variant with a defect: the line of the file stays pending.
ParseSDAgain ==
  /\ pc = "parse" /\ pc' = "serial"
  /\ serial_line_buf = <<>> /\ sd_line_buf # <<>>
  /\ gcode_parse_line(sd_line_buf, 1)
  /\ UNCHANGED <<serial_line_buf, sd_line_buf>>

ParseSD ==
  /\ pc = "parse" /\ pc' = "serial"
  /\ serial_line_buf = <<>>
  /\ sd_line_buf # <<>> /\ sd_line_buf' = <<>>
  /\ gcode_parse_line(sd_line_buf, 1)
  /\ UNCHANGED serial_line_buf

Next ==
  \/ SerialLine \/ SerialNothing
  \/ sd_read_file \/ NoRead
  \/ NoParse \/ ParseSerial \/ ParseSD

Spec == Init /\ [][Next]_vars

-----------------------------------------------------------------------------
(* Properties.                                                             *)

Parsers ==
  [seen : SUBSET (Numbered \cup {";", "("}), val : [Numbered -> Int],
   last_field : Words \cup {NoWord}, getting_string : BOOLEAN,
   filename : Names \cup {Odd, NoName}, first : BOOLEAN, relative : BOOLEAN,
   inches : BOOLEAN]

\* Every piece of state has its type; no line buffer holds more than MAX_LINE
\* words, and f_gets leaves room for its terminator.
TypeOK ==
  /\ pc \in {"serial", "sd", "parse"}
  /\ serial_line_buf \in Seq(Words) /\ Len(serial_line_buf) <= MAX_LINE
  /\ sd_line_buf \in Seq(Words) /\ Len(sd_line_buf) < MAX_LINE
  /\ next_target \in Parsers
  /\ sd \in [active : BOOLEAN, printing : BOOLEAN, writing : BOOLEAN,
             pos : Int, size : Nat]
  /\ file \in [mode : {"closed", "read", "write"}, name : Names \cup {Odd},
               at : Nat]
  /\ card \in [Names \cup {Odd} -> Seq(Words) \cup {Absent}]
  /\ strays \in Nat /\ dropped \in Nat

\* What a line means by itself, read without a parser state: words in comments
\* do not count, nor does the word after M23 or M28, which is a file name.
InParens(line, i) ==
  \E j \in 1..(i - 1) : line[j].f = "(" /\ \A k \in j..(i - 1) : line[k].f # ")"

Commented(line, i) ==
  \/ InParens(line, i)
  \/ \E j \in 1..(i - 1) : line[j].f = ";" /\ ~InParens(line, j)

Hidden(line, i) ==
  \/ Commented(line, i)
  \/ i > 1 /\ TakesName(line[i - 1]) /\ line[i].f \notin {"*", "LF"}

\* The last word of the line with one of these letters that counts.
LastOf(line, letters) ==
  LET at == {i \in 1..Len(line) : line[i].f \in letters /\ ~Hidden(line, i)}
  IN  IF at = {} THEN NoWord ELSE line[Max(at)]

\* The command of a complete line, its number, its coordinate and, if it gives
\* one, its S are those it says by itself, as next_target's fields can hold
\* them, whatever lines, of whichever source, were read, rejected or stored
\* before: no seen flag, command, coordinate or comment of theirs is left in
\* next_target.  What earlier lines do decide is the unit of the coordinate
\* (G20, G21) and the S, P, F or file name of a line that gives none.  A line
\* is complete if its end was not cut off and the line before it was not cut
\* off inside a file name (getting_string is the one flag that
\* gcode_parse_line does not reset).
LinesIndependent ==
  LET command == LastOf(last.line, {"G", "M"})
      given == LastOf(last.line, {"S"})
  IN  last.clean =>
        /\ last.letter = command.f
        /\ last.number = FieldValue(command, FALSE)
        /\ last.x = FieldValue(LastOf(last.line, {"X"}), last.inches)
        /\ given # NoWord => last.s = FieldValue(given, FALSE)

\* While an upload is stored, the shared FIL is open for writing and the print
\* has stopped: no sequence of SD codes closes or reopens it before M29.
UploadOwnsFile == sd.writing => file.mode = "write" /\ ~sd.printing

\* A print that M28 interrupts leaves at most the one line already read from
\* its file, pending in sd_line_buf, in the uploaded file.
AtMostOneStray == strays <= 1

\* What M27 reports of the selected file: its size, and a position that lags
\* behind the place from which the print goes on by just the CRs that f_gets
\* has stripped since M23 or M26 set it, however the two are interleaved with
\* the print (M26 may name a position beyond the end).
StatusIsTrue ==
  file.mode = "read" =>
    /\ sd.size = Len(card[file.name])
    /\ file.at = IF sd.pos < 0 THEN sd.size ELSE Min({sd.pos + dropped, sd.size})
=============================================================================
