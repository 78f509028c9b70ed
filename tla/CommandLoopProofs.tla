------------------------- MODULE CommandLoopProofs -------------------------
(***************************************************************************)
(* For every set of host lines, every card and every buffer size, the two  *)
(* sources of G-code share parser, flags and file without disturbing an    *)
(* upload, the command, coordinate and S of a line are those it gives, and *)
(* the position M27 reports lags by just the CRs that f_gets has stripped. *)
(***************************************************************************)
EXTENDS CommandLoop, SequenceTheorems, DataFacts

\* The open file exists.
OpenFileExists == file.mode # "closed" => card[file.name] \in Seq(Words)

\* The upload invariant with what makes it inductive: while an upload is
\* stored, the line that may be pending in sd_line_buf is the only one that
\* can still stray into it.
OneStrayLeft == sd.writing /\ sd_line_buf # <<>> => strays = 0

IInv ==
  /\ TypeOK /\ UploadOwnsFile /\ AtMostOneStray /\ OneStrayLeft
  /\ StatusIsTrue /\ OpenFileExists

-----------------------------------------------------------------------------
(* The parser.                                                             *)

\* What a field keeps of its number is a number.
LEMMA FieldValueInt ==
  ASSUME NEW w, w.v \in Nat, NEW b
  PROVE  FieldValue(w, b) \in Int
<1>1. /\ w.v % 256 \in Int /\ w.v % 65536 \in Int
      /\ ((w.v + 32768) % 65536) - 32768 \in Int
      /\ w.v * 254 \in Int /\ w.v * 10 \in Int
  OBVIOUS
<1>2. QED
  BY <1>1 DEF FieldValue

\* The field that is not stored yet has a number.
LEMMA LastFieldNat ==
  ASSUME NEW p \in Parsers PROVE p.last_field.v \in Nat
<1>1. NoWord.v \in Nat
  BY DEF NoWord
<1>2. p.last_field \in Words \cup {NoWord}
  BY DEF Parsers
<1>3. QED
  BY <1>1, <1>2, WordAssumption

\* One word takes a parser state to a parser state.
LEMMA ParseCharType ==
  ASSUME NEW p \in Parsers, NEW w \in Words
  PROVE  gcode_parse_char(p, w) \in Parsers
<1> DEFINE spaced == [p EXCEPT !.getting_string = @ /\ p.first, !.first = FALSE]
           q1 == StoreField(spaced, w)
           q == TakeName(q1, w)
<1>1. spaced \in Parsers
  BY DEF Parsers
<1>2. q1 \in Parsers
  <2> HIDE DEF spaced
  <2>1. FieldValue(spaced.last_field, spaced.inches) \in Int
    BY <1>1, LastFieldNat, FieldValueInt
  <2>2. [l \in Numbered |-> IF l = spaced.last_field.f
                            THEN FieldValue(spaced.last_field, spaced.inches)
                            ELSE spaced.val[l]] \in [Numbered -> Int]
    BY <1>1, <2>1 DEF Parsers
  <2>3. QED
    BY <1>1, <2>2 DEF StoreField, Parsers
<1>3. q \in Parsers
  <2> HIDE DEF q1
  <2>1. CardName(w) \in Names \cup {Odd, NoName}
    BY WordAssumption DEF CardName
  <2>2. QED
    BY <1>2, <2>1 DEF TakeName, Parsers
<1>4. NewField(q, w) \in Parsers
  <2> HIDE DEF q
  <2>1. \A other : [l \in Numbered |-> IF l \in other THEN 0 ELSE q.val[l]]
                     \in [Numbered -> Int]
    <3>1. q.val \in [Numbered -> Int]
      BY <1>3 DEF Parsers
    <3>2. PICK v \in [Numbered -> Int] : v = q.val
      BY <3>1
    <3>3. ASSUME NEW other, NEW l \in Numbered
          PROVE  (IF l \in other THEN 0 ELSE v[l]) \in Int
      OBVIOUS
    <3>4. \A other : [l \in Numbered |-> IF l \in other THEN 0 ELSE v[l]] \in [Numbered -> Int]
      BY <3>3
    <3>5. QED
      BY <3>2, <3>4
  <2>2. QED
    BY <1>3, <2>1 DEF NewField, Parsers
<1>5. [q EXCEPT !.seen = @ \ {"("}] \in Parsers
  <2> HIDE DEF q
  <2>1. QED
    BY <1>3 DEF Parsers
<1>6. QED
  <2>1. gcode_parse_char(p, w) =
          CASE q.getting_string -> q
            [] ~q.getting_string /\ InComment(q) ->
                 IF w.f = ")" THEN [q EXCEPT !.seen = @ \ {"("}] ELSE q
            [] OTHER -> NewField(q, w)
    BY DEF gcode_parse_char
  <2> HIDE DEF q
  <2>2. QED
    BY <1>3, <1>4, <1>5, <2>1

\* So does a line, whatever its length, one word after the other.
LEMMA ParsedBy ==
  ASSUME next_target \in Parsers, NEW line \in Seq(Words)
  PROVE  \E after \in [0 .. Len(line) -> Parsers] :
           /\ after[0] = next_target /\ Parsed(line) = after[Len(line)]
           /\ \A i \in 1 .. Len(line) : after[i] = gcode_parse_char(after[i - 1], line[i])
<1> DEFINE n == Len(line)
           step == [x \in Parsers \X (1 .. n) |-> gcode_parse_char(x[1], line[x[2]])]
           Def(f) == [i \in 0 .. n |->
                        IF i = 0 THEN next_target
                        ELSE gcode_parse_char(f[i - 1], line[i])]
           after == CHOOSE f : f = Def(f)
<1>1. n \in Nat /\ \A i \in 1 .. n : line[i] \in Words
  OBVIOUS
<1>2. step \in [Parsers \X (1 .. n) -> Parsers]
  BY <1>1, ParseCharType
<1>3. PICK f \in [0 .. n -> Parsers] : FoldsTo(f, n, next_target, step)
  <2> HIDE DEF step, n
  <2>1. QED
    BY <1>1, <1>2, FoldDefined
<1>4. f = Def(f)
  <2>1. ASSUME NEW i \in 1 .. n
        PROVE  step[<<f[i - 1], i>>] = gcode_parse_char(f[i - 1], line[i])
    <3>1. i - 1 \in 0 .. n /\ f[i - 1] \in Parsers
      BY <1>1
    <3>2. QED
      BY <3>1
  <2> HIDE DEF step
  <2>2. ASSUME NEW i \in 0 .. n
        PROVE  f[i] = IF i = 0 THEN next_target
                      ELSE gcode_parse_char(f[i - 1], line[i])
    <3>1. i # 0 => i \in 1 .. n
      BY <1>1
    <3>2. QED
      BY <1>3, <2>1, <3>1 DEF FoldsTo
  <2>3. f = [i \in 0 .. n |-> f[i]]
    OBVIOUS
  <2>4. QED
    BY <2>2, <2>3
<1>5. after = Def(after)
  <2> HIDE DEF Def
  <2>1. \E g : g = Def(g)
    BY <1>4
  <2>2. QED
    BY <2>1, Zenon
<1>6. \A i \in 0 .. n : after[i] \in Parsers
  <2> DEFINE T == {i \in 0 .. n : after[i] \in Parsers}
  <2> HIDE DEF after
  <2>1. 0 \in T
    BY <1>1, <1>5
  <2>2. ASSUME NEW i \in 0 .. n - 1, i \in T PROVE i + 1 \in T
    <3>1. i + 1 \in 1 .. n /\ after[i + 1] = gcode_parse_char(after[i], line[i + 1])
      BY <1>1, <1>5
    <3>2. QED
      BY <1>1, <2>2, <3>1, ParseCharType
  <2>3. 0 .. n \subseteq T
    <3> HIDE DEF T
    <3>1. QED
      BY <1>1, <2>1, <2>2, IntervalInduction
  <2>4. QED
    BY <2>3
<1>7. Parsed(line) = after[n]
  BY DEF Parsed
<1> HIDE DEF after
<1>8. after \in [0 .. n -> Parsers]
  BY <1>5, <1>6
<1>9. after[0] = next_target
  BY <1>1, <1>5
<1>10. \A i \in 1 .. n : after[i] = gcode_parse_char(after[i - 1], line[i])
  BY <1>1, <1>5
<1>11. QED
  BY <1>7, <1>8, <1>9, <1>10

LEMMA ParsedType ==
  ASSUME next_target \in Parsers, NEW line \in Seq(Words)
  PROVE  Parsed(line) \in Parsers
<1>1. PICK after \in [0 .. Len(line) -> Parsers] : Parsed(line) = after[Len(line)]
  BY ParsedBy
<1>2. Len(line) \in 0 .. Len(line)
  OBVIOUS
<1>3. QED
  BY <1>1, <1>2

LEMMA EndOfLineType ==
  ASSUME NEW p \in Parsers
  PROVE  EndOfLine(p) \in Parsers /\ EndOfLine(Modes(p)) \in Parsers
<1>1. ASSUME NEW q \in Parsers PROVE EndOfLine(q) \in Parsers
  <2>1. [q.val EXCEPT !["*"] = 0, !["G"] = 0,
                      !["X"] = IF q.relative THEN 0 ELSE q.val["X"]] \in [Numbered -> Int]
    <3>1. q.val \in [Numbered -> Int] /\ "X" \in Numbered
      BY DEF Parsers, Numbered
    <3>2. PICK x : x = (IF q.relative THEN 0 ELSE q.val["X"])
      OBVIOUS
    <3>3. x \in Int
      <4>1. q.val["X"] \in Int
        BY <3>1
      <4>2. QED
        BY <3>2, <4>1
    <3>4. QED
      BY <3>1, <3>2, <3>3
  <2>2. QED
    BY <2>1 DEF EndOfLine, Parsers
<1>2. Modes(p) \in Parsers
  BY DEF Modes, Parsers
<1>3. QED
  BY <1>1, <1>2

-----------------------------------------------------------------------------
(* A line through gcode_parse_line.                                        *)

\* What is appended to a file are words.
LEMMA StoredType ==
  ASSUME NEW content \in Seq(Words), NEW line \in Seq(Words)
  PROVE  Stored(content, line) \in Seq(Words)
<1> DEFINE all == content \o line
           m == Min({CardSpace, Len(content) + Len(line)})
<1>1. all \in Seq(Words) /\ Len(all) = Len(content) + Len(line)
  OBVIOUS
<1>2. m \in Int /\ m <= Len(all)
  BY <1>1, MinPair, LineAssumption
<1>3. \A i \in 1 .. m : all[i] \in Words
  BY <1>1, <1>2
<1>4. SubSeq(all, 1, m) \in Seq(Words)
  <2> HIDE DEF all, m
  <2>1. QED
    BY <1>2, <1>3, SubSeqProperties
<1>5. QED
  BY <1>4 DEF Stored

SDType == [active : BOOLEAN, printing : BOOLEAN, writing : BOOLEAN,
           pos : Int, size : Nat]
FileType == [mode : {"closed", "read", "write"}, name : Names \cup {Odd},
             at : Nat]

\* What a line keeps true, and how many strays it adds.
LineKeeps(stray) ==
  /\ next_target' \in Parsers /\ sd' \in SDType /\ file' \in FileType
  /\ card' \in [Names \cup {Odd} -> Seq(Words) \cup {Absent}]
  /\ strays' \in Nat /\ dropped' \in Nat
  /\ UploadOwnsFile' /\ StatusIsTrue' /\ OpenFileExists'
  /\ IF sd.writing THEN strays' <= strays + stray
     ELSE strays' \in {0, strays} /\ (sd'.writing => strays' = 0)

LEMMA WriteLineKeeps ==
  ASSUME IInv, NEW line \in Seq(Words), NEW p \in Parsers, NEW stray \in {0, 1},
         WriteLine(line, p, stray)
  PROVE  LineKeeps(stray)
<1> USE DEF IInv, TypeOK, SDType, FileType
<1>0. sd.writing /\ file.mode = "write" /\ file.name \in Names \cup {Odd}
      /\ card[file.name] \in Seq(Words) /\ ~sd.printing
  BY DEF WriteLine, UploadOwnsFile, OpenFileExists
<1>1. next_target' \in Parsers
  BY EndOfLineType DEF WriteLine
<1>2. /\ card' \in [Names \cup {Odd} -> Seq(Words) \cup {Absent}]
      /\ card'[file.name] \in Seq(Words)
      /\ strays' \in Nat /\ strays' <= strays + stray
  <2>1. CASE ~SDCode(p) /\ file.mode = "write"
    <3>1. card' = [card EXCEPT ![file.name] = Stored(card[file.name], line)]
          /\ strays' = strays + stray
      BY <2>1 DEF WriteLine
    <3>2. Stored(card[file.name], line) \in Seq(Words)
      BY <1>0, StoredType
    <3>3. QED
      BY <1>0, <3>1, <3>2
  <2>2. CASE ~(~SDCode(p) /\ file.mode = "write")
    <3>1. card' = card /\ strays' = strays
      BY <2>2 DEF WriteLine
    <3>2. QED
      BY <1>0, <3>1
  <2>3. QED
    BY <2>1, <2>2
<1>6. dropped' = dropped
  BY DEF WriteLine
<1>3. CASE StopWriting(p)
  <2>1. sd' = [sd EXCEPT !.writing = FALSE] /\ file' = Closed
    BY <1>3 DEF WriteLine
  <2>2. file' \in FileType /\ file'.mode = "closed"
    BY <2>1 DEF Closed
  <2>3. sd' \in SDType /\ ~sd'.writing
    BY <2>1
  <2>4. QED
    BY <1>0, <1>1, <1>2, <1>6, <2>2, <2>3
       DEF LineKeeps, UploadOwnsFile, StatusIsTrue, OpenFileExists
<1>4. CASE ~StopWriting(p)
  <2>1. sd' = sd /\ file' = file
    BY <1>4 DEF WriteLine
  <2>2. QED
    BY <1>0, <1>1, <1>2, <1>6, <2>1
       DEF LineKeeps, UploadOwnsFile, StatusIsTrue, OpenFileExists
<1>5. QED
  BY <1>3, <1>4

LEMMA CardCommandKeeps ==
  ASSUME IInv, NEW p \in Parsers, ~sd.writing, CardCommand(p)
  PROVE  /\ sd' \in SDType /\ file' \in FileType
         /\ card' \in [Names \cup {Odd} -> Seq(Words) \cup {Absent}]
         /\ UploadOwnsFile' /\ StatusIsTrue' /\ OpenFileExists'
         /\ strays' \in {0, strays} /\ (sd'.writing => strays' = 0)
         /\ dropped' \in Nat
<1> USE DEF IInv, TypeOK, SDType, FileType
<1>0. /\ \A a \in Nat : 0 = Min({0, a})
      /\ \A a, b \in Nat : Min({a, b}) \in Nat
      /\ \A n \in Names \cup {Odd} : card[n] # Absent => card[n] \in Seq(Words)
  BY MinPair
<1>1. CASE SelectFile(p)
  <2>0. CASE p.filename = NoName \/ card[p.filename] = Absent
    <3>1. /\ sd' = [sd EXCEPT !.active = TRUE, !.printing = FALSE]
          /\ file' = Closed /\ UNCHANGED <<card, strays, dropped>>
      BY <1>1, <2>0 DEF SelectFile
    <3>2. QED
      BY <3>1 DEF Closed, UploadOwnsFile, StatusIsTrue, OpenFileExists
  <2>1. CASE ~(p.filename = NoName \/ card[p.filename] = Absent)
    <3>1. p.filename \in Names \cup {Odd} /\ card[p.filename] \in Seq(Words)
      BY <1>0, <2>1 DEF Parsers
    <3>2. /\ sd' = [sd EXCEPT !.active = TRUE, !.printing = FALSE, !.pos = 0,
                              !.size = Len(card[p.filename])]
          /\ file' = [mode |-> "read", name |-> p.filename, at |-> 0]
          /\ dropped' = 0 /\ UNCHANGED <<card, strays>>
      BY <1>1, <2>1 DEF SelectFile
    <3>3. Len(card[p.filename]) \in Nat
      BY <3>1
    <3>4. sd' \in SDType /\ sd'.pos = 0 /\ sd'.size = Len(card[p.filename])
          /\ ~sd'.writing
      <4>1. sd \in SDType
        OBVIOUS
      <4>2. PICK l \in Nat : l = Len(card[p.filename])
        BY <3>3
      <4>3. sd' = [sd EXCEPT !.active = TRUE, !.printing = FALSE, !.pos = 0, !.size = l]
        BY <3>2, <4>2
      <4> HIDE DEF IInv, TypeOK
      <4>4. sd'.pos = 0 /\ sd'.size = l /\ sd'.writing = sd.writing
        BY <4>1, <4>2, <4>3
      <4>5. \A z \in Int : [sd EXCEPT !.active = TRUE, !.printing = FALSE,
                                      !.pos = z, !.size = l] \in SDType
        BY <4>1, <4>2
      <4>6. 0 \in Int
        OBVIOUS
      <4>7. sd' \in SDType
        BY <4>3, <4>5, <4>6
      <4>8. QED
        BY <4>2, <4>4, <4>7
    <3>6. file' \in FileType /\ file'.mode = "read" /\ file'.name = p.filename
          /\ file'.at = 0 /\ dropped' \in Nat
      BY <3>1, <3>2
    <3>7. StatusIsTrue'
      <4>1. file'.at = Min({sd'.pos + dropped', sd'.size}) /\ ~(sd'.pos < 0)
        <5>1. sd'.pos + dropped' = 0 /\ sd'.size \in Nat
          BY <3>2, <3>3, <3>4
        <5>2. PICK a \in Nat, b \in Nat : a = sd'.pos + dropped' /\ b = sd'.size /\ a = 0
          BY <5>1
        <5>3. Min({a, b}) = 0
          BY <1>0, <5>2
        <5>4. ~(sd'.pos < 0)
          BY <3>4
        <5>5. QED
          BY <3>6, <5>2, <5>3, <5>4
      <4>2. QED
        BY <3>2, <3>4, <3>6, <4>1 DEF StatusIsTrue
    <3>5. QED
      BY <3>1, <3>2, <3>4, <3>6, <3>7
         DEF UploadOwnsFile, StatusIsTrue, OpenFileExists
  <2>2. QED
    BY <2>0, <2>1
<1>2. CASE SetPosition(p)
  <2>1. card' = card /\ strays' = strays
    BY <1>2 DEF SetPosition
  <2>2. CASE ~(sd.active /\ "S" \in p.seen)
    <3>1. sd' = sd /\ file' = file /\ dropped' = dropped
      BY <1>2, <2>2 DEF SetPosition
    <3>2. QED
      BY <2>1, <3>1 DEF UploadOwnsFile, StatusIsTrue, OpenFileExists
  <2>3. CASE sd.active /\ "S" \in p.seen
    <3>1. p.val["S"] \in Int /\ dropped' = 0
      BY <1>2, <2>3 DEF Parsers, Numbered, SetPosition
    <3>2. sd' \in SDType /\ sd'.pos = p.val["S"] /\ sd'.size = sd.size
          /\ sd'.writing = sd.writing
      BY <1>2, <2>3, <3>1 DEF SetPosition
    <3>3. CASE file.mode = "read"
      <4>1. card[file.name] \in Seq(Words) /\ Len(card[file.name]) \in Nat
            /\ sd.size = Len(card[file.name])
        BY <3>3 DEF OpenFileExists, StatusIsTrue
      <4>2. file' = [file EXCEPT !.at = SeekTo(p.val["S"], sd.size)]
        BY <1>2, <2>3, <3>3, <4>1 DEF SetPosition
      <4>3. SeekTo(p.val["S"], sd.size) \in Nat
        <5>1. PICK i \in Int, l \in Nat : i = p.val["S"] /\ l = sd.size
          BY <3>1, <4>1
        <5>2. i >= 0 => Min({i, l}) \in Nat
          BY <1>0
        <5>3. SeekTo(i, l) \in Nat
          BY <5>2 DEF SeekTo
        <5>4. QED
          BY <5>1, <5>3
      <4>4. file' \in FileType /\ file'.name = file.name
            /\ file'.at = SeekTo(sd'.pos, sd'.size)
        BY <3>2, <4>2, <4>3
      <4>6. file'.at = IF sd'.pos < 0 THEN sd'.size
                       ELSE Min({sd'.pos + dropped', sd'.size})
        <5>1. sd'.pos + dropped' = sd'.pos
          BY <3>1, <3>2
        <5>2. QED
          BY <4>4, <5>1 DEF SeekTo
      <4>5. QED
        BY <2>1, <3>1, <3>2, <4>1, <4>4, <4>6
           DEF UploadOwnsFile, StatusIsTrue, OpenFileExists
    <3>4. CASE file.mode # "read"
      <4>1. file' = file
        BY <1>2, <2>3, <3>4 DEF SetPosition
      <4>2. QED
        BY <2>1, <3>1, <3>2, <3>4, <4>1 DEF UploadOwnsFile, StatusIsTrue, OpenFileExists
    <3>5. QED
      BY <3>3, <3>4
  <2>4. QED
    BY <2>2, <2>3
<1>3. CASE StartWriting(p)
  <2>1. CASE p.filename = NoName
    <3>1. /\ sd' = [sd EXCEPT !.active = TRUE, !.printing = FALSE,
                              !.writing = FALSE]
          /\ file' = Closed /\ card' = card /\ strays' = 0 /\ dropped' = dropped
      BY <1>3, <2>1 DEF StartWriting
    <3>2. QED
      BY <3>1 DEF Closed, UploadOwnsFile, StatusIsTrue, OpenFileExists
  <2>2. CASE p.filename # NoName
    <3>1. p.filename \in Names \cup {Odd}
      BY <2>2 DEF Parsers
    <3>2. /\ sd' = [sd EXCEPT !.active = TRUE, !.printing = FALSE,
                              !.writing = TRUE]
          /\ file' = [mode |-> "write", name |-> p.filename, at |-> 0]
          /\ card' = [card EXCEPT ![p.filename] = <<>>] /\ strays' = 0
          /\ dropped' = dropped
      BY <1>3, <2>2 DEF StartWriting
    <3>3. card' \in [Names \cup {Odd} -> Seq(Words) \cup {Absent}]
          /\ card'[p.filename] \in Seq(Words)
      BY <3>1, <3>2
    <3>4. sd' \in SDType /\ ~sd'.printing
      BY <3>2
    <3>5. QED
      BY <3>1, <3>2, <3>3, <3>4 DEF UploadOwnsFile, StatusIsTrue, OpenFileExists
  <2>3. QED
    BY <2>1, <2>2
<1>4. CASE UNCHANGED <<file, card, strays, dropped>> /\ \E m : sd' = CardFlags(m)
  <2>1. sd' \in SDType /\ sd'.pos = sd.pos /\ sd'.size = sd.size
        /\ ~sd'.writing
    <3>1. PICK m : sd' = CardFlags(m)
      BY <1>4
    <3>2. CASE m \in {21, 22}
      BY <3>1, <3>2 DEF CardFlags
    <3>3. CASE m = 24
      <4>1. sd' = [sd EXCEPT !.printing = sd.printing \/ sd.active]
        BY <3>1, <3>3 DEF CardFlags
      <4>2. (sd.printing \/ sd.active) \in BOOLEAN
        OBVIOUS
      <4>3. QED
        BY <4>1, <4>2
    <3>4. CASE m = 25
      BY <3>1, <3>4 DEF CardFlags
    <3>5. CASE m \notin {21, 22, 24, 25}
      <4>1. sd' = sd
        BY <3>1, <3>5 DEF CardFlags
      <4>2. QED
        BY <4>1
    <3>6. QED
      BY <3>2, <3>3, <3>4, <3>5
  <2>2. QED
    BY <1>4, <2>1 DEF UploadOwnsFile, StatusIsTrue, OpenFileExists
<1>5. CASE UNCHANGED <<sd, file, card, strays, dropped>>
  BY <1>5 DEF UploadOwnsFile, StatusIsTrue, OpenFileExists
<1>6. QED
  BY <1>1, <1>2, <1>3, <1>4, <1>5 DEF CardCommand

LEMMA ParseLineKeeps ==
  ASSUME IInv, NEW line \in Seq(Words), NEW stray \in {0, 1},
         gcode_parse_line(line, stray)
  PROVE  LineKeeps(stray)
<1> DEFINE p == Parsed(line)
<1>0. p \in Parsers
  BY ParsedType DEF IInv, TypeOK
<1> HIDE DEF p
<1>1. CASE RejectLine(p)
  <2>1. sd' = sd /\ file' = file /\ card' = card /\ strays' = strays /\ dropped' = dropped
        /\ next_target' = EndOfLine(p)
    BY <1>1 DEF RejectLine
  <2>2. next_target' \in Parsers
    BY <1>0, <2>1, EndOfLineType
  <2>3. UploadOwnsFile' /\ StatusIsTrue' /\ OpenFileExists'
    BY <2>1 DEF IInv, UploadOwnsFile, StatusIsTrue, OpenFileExists
  <2>4. strays' \in Nat /\ strays' <= strays + stray /\ strays' \in {0, strays}
        /\ sd'.writing = sd.writing
    BY <2>1 DEF IInv, TypeOK
  <2>5. QED
    BY <2>1, <2>2, <2>3, <2>4 DEF LineKeeps, IInv, TypeOK, SDType, FileType
<1>2. CASE WriteLine(line, p, stray)
  BY <1>0, <1>2, WriteLineKeeps
<1>3. CASE process_gcode_command(line, p)
  <2>1. ~sd.writing /\ CardCommand(p) /\ next_target' = EndOfLine(Modes(p))
    BY <1>3 DEF process_gcode_command
  <2>2. next_target' \in Parsers
    BY <1>0, <2>1, EndOfLineType
  <2>3. /\ sd' \in SDType /\ file' \in FileType
        /\ card' \in [Names \cup {Odd} -> Seq(Words) \cup {Absent}]
        /\ UploadOwnsFile' /\ StatusIsTrue' /\ OpenFileExists'
        /\ strays' \in {0, strays} /\ (sd'.writing => strays' = 0)
        /\ dropped' \in Nat
    BY <1>0, <2>1, CardCommandKeeps
  <2>4. strays' \in Nat
    BY <2>3 DEF IInv, TypeOK
  <2>5. QED
    BY <2>1, <2>2, <2>3, <2>4 DEF LineKeeps
<1>4. QED
  BY <1>1, <1>2, <1>3 DEF gcode_parse_line, p

-----------------------------------------------------------------------------
(* The steps of the loop.                                                  *)

\* What f_gets keeps of a text are words of it, at most one for each it reads.
LEMMA KeptFacts ==
  ASSUME NEW text \in Seq(Words)
  PROVE  /\ Kept(text)[0] = <<>>
         /\ \A n \in 0 .. Len(text) :
              /\ Kept(text)[n] \in Seq(Words)
              /\ Len(Kept(text)[n]) \in Nat /\ Len(Kept(text)[n]) <= n
         /\ \A n \in 1 .. Len(text) : Len(Kept(text)[n]) <= Len(Kept(text)[n - 1]) + 1
<1> DEFINE N == Len(text)
           step == [x \in Seq(Words) \X (1 .. N) |->
                      IF text[x[2]] = CR THEN x[1] ELSE Append(x[1], text[x[2]])]
           Def(f) == [n \in 0 .. N |->
                        IF n = 0 THEN <<>>
                        ELSE IF text[n] = CR THEN f[n - 1] ELSE Append(f[n - 1], text[n])]
           kept == CHOOSE f : f = Def(f)
<1>1. N \in Nat /\ \A n \in 1 .. N : text[n] \in Words
  OBVIOUS
<1>2. step \in [Seq(Words) \X (1 .. N) -> Seq(Words)]
  BY <1>1
<1>3. PICK f \in [0 .. N -> Seq(Words)] : FoldsTo(f, N, <<>>, step)
  <2>1. <<>> \in Seq(Words)
    BY EmptySeq
  <2> HIDE DEF step, N
  <2>2. QED
    BY <1>1, <1>2, <2>1, FoldDefined
<1>4. f = Def(f)
  <2>1. ASSUME NEW i \in 1 .. N
        PROVE  step[<<f[i - 1], i>>] =
                 IF text[i] = CR THEN f[i - 1] ELSE Append(f[i - 1], text[i])
    <3>1. i - 1 \in 0 .. N
      BY <1>1
    <3>2. PICK y \in Seq(Words) : y = f[i - 1]
      BY <3>1
    <3>3. <<y, i>> \in Seq(Words) \X (1 .. N) /\ <<y, i>>[1] = y /\ <<y, i>>[2] = i
      OBVIOUS
    <3>4. step[<<y, i>>] = IF text[i] = CR THEN y ELSE Append(y, text[i])
      BY <3>3
    <3>5. QED
      BY <3>2, <3>4
  <2> HIDE DEF step
  <2>2. ASSUME NEW i \in 0 .. N
        PROVE  f[i] = IF i = 0 THEN <<>>
                      ELSE IF text[i] = CR THEN f[i - 1] ELSE Append(f[i - 1], text[i])
    <3>1. i # 0 => i \in 1 .. N
      BY <1>1
    <3>2. QED
      BY <1>3, <2>1, <3>1 DEF FoldsTo
  <2>3. f = [i \in 0 .. N |-> f[i]]
    OBVIOUS
  <2>4. QED
    BY <2>2, <2>3
<1>5. kept = Def(kept)
  <2> HIDE DEF Def
  <2>1. \E g : g = Def(g)
    BY <1>4
  <2>2. QED
    BY <2>1, Zenon
<1>6. Kept(text) = kept
  BY DEF Kept
<1> HIDE DEF kept
<1>7. ASSUME NEW i \in 0 .. N - 1
      PROVE  kept[i + 1] = IF text[i + 1] = CR THEN kept[i] ELSE Append(kept[i], text[i + 1])
  <2>1. PICK j \in 0 .. N : j = i + 1 /\ j # 0 /\ j - 1 = i
    BY <1>1
  <2>2. Def(kept)[j] = IF text[j] = CR THEN kept[j - 1] ELSE Append(kept[j - 1], text[j])
    BY <2>1
  <2>3. kept[j] = Def(kept)[j]
    <3> HIDE DEF Def
    <3>1. QED
      BY <1>5
  <2>4. QED
    BY <2>1, <2>2, <2>3
<1>8. kept[0] = <<>>
  BY <1>1, <1>5
<1> DEFINE T == {n \in 0 .. N : /\ kept[n] \in Seq(Words)
                                /\ Len(kept[n]) \in Nat /\ Len(kept[n]) <= n}
<1>9. 0 .. N \subseteq T
  <2>1. 0 \in T
    <3>1. <<>> \in Seq(Words) /\ Len(<<>>) = 0 /\ 0 \in 0 .. N
      BY <1>1, EmptySeq
    <3>2. kept[0] \in Seq(Words) /\ Len(kept[0]) = 0
      BY <1>8, <3>1
    <3>3. QED
      BY <3>1, <3>2
  <2>2. ASSUME NEW i \in 0 .. N - 1, i \in T PROVE i + 1 \in T
    <3>1. kept[i] \in Seq(Words) /\ Len(kept[i]) \in Nat /\ Len(kept[i]) <= i
      BY <2>2
    <3>2. i + 1 \in 0 .. N /\ text[i + 1] \in Words
      BY <1>1
    <3>3. CASE text[i + 1] = CR
      <4>1. kept[i + 1] = kept[i]
        BY <1>7, <3>3
      <4>2. QED
        BY <3>1, <3>2, <4>1
    <3>4. CASE text[i + 1] # CR
      <4>1. kept[i + 1] = Append(kept[i], text[i + 1])
        BY <1>7, <3>4
      <4>2. kept[i + 1] \in Seq(Words) /\ Len(kept[i + 1]) = Len(kept[i]) + 1
        BY <3>1, <3>2, <4>1
      <4>3. QED
        BY <3>1, <3>2, <4>2
    <3>5. QED
      BY <3>3, <3>4
  <2> HIDE DEF T
  <2>3. QED
    BY <1>1, <2>1, <2>2, IntervalInduction
<1>10. ASSUME NEW n \in 1 .. N PROVE Len(kept[n]) <= Len(kept[n - 1]) + 1
  <2>1. PICK i \in 0 .. N - 1 : n = i + 1 /\ n - 1 = i
    BY <1>1
  <2>2. i \in 0 .. N /\ kept[i] \in Seq(Words) /\ Len(kept[i]) \in Nat /\ text[i + 1] \in Words
    BY <1>1, <1>9
  <2>3. CASE text[i + 1] = CR
    <3>1. kept[n] = kept[i]
      BY <1>7, <2>1, <2>3
    <3>2. QED
      BY <2>1, <2>2, <3>1
  <2>4. CASE text[i + 1] # CR
    <3>1. kept[n] = Append(kept[i], text[i + 1])
      BY <1>7, <2>1, <2>4
    <3>2. Len(kept[n]) = Len(kept[i]) + 1
      BY <2>2, <3>1
    <3>3. QED
      BY <2>1, <2>2, <3>2
  <2>5. QED
    BY <2>3, <2>4
<1>11. QED
  BY <1>6, <1>8, <1>9, <1>10

\* f_gets leaves room for its terminator and stays inside the file.
LEMMA GetsFacts ==
  ASSUME IInv
  PROVE  /\ f_gets.line \in Seq(Words) /\ Len(f_gets.line) < MAX_LINE
         /\ Len(f_gets.line) \in Nat /\ f_gets.read \in Nat
         /\ Len(f_gets.line) <= f_gets.read
         /\ f_gets.read # 0 =>
              /\ file.mode = "read"
              /\ file.at + f_gets.read <= Len(card[file.name])
<1> DEFINE content == card[file.name]
           rest == IF file.mode = "read"
                     THEN SubSeq(content, file.at + 1, Len(content)) ELSE <<>>
           kept == Kept(rest)
           stop == {n \in 1..Len(rest) :
                      rest[n] = LF \/ Len(kept[n]) = MAX_LINE - 1 \/ n = Len(rest)}
           end == IF rest = <<>> THEN 0 ELSE CHOOSE n \in stop : \A m \in stop : n <= m
<1>1. f_gets.line = kept[end] /\ f_gets.read = end
  BY DEF f_gets, Min
<1>2. CASE file.mode # "read" \/ rest = <<>>
  <2>1. rest = <<>> /\ end = 0
    BY <1>2
  <2>2. rest \in Seq(Words)
    BY <2>1, EmptySeq
  <2> HIDE DEF rest
  <2>3. kept[0] = <<>>
    BY <2>2, KeptFacts
  <2> HIDE DEF kept, end
  <2>4. f_gets.line = <<>> /\ f_gets.read = 0
    BY <1>1, <2>1, <2>3
  <2>5. QED
    BY <2>4, LineAssumption, EmptySeq
<1>3. CASE file.mode = "read" /\ rest # <<>>
  <2>1. content \in Seq(Words) /\ Len(content) \in Nat /\ file.at \in Nat
    BY <1>3 DEF IInv, TypeOK, OpenFileExists
  <2>2. rest = SubSeq(content, file.at + 1, Len(content))
    BY <1>3
  <2> HIDE DEF content
  <2>3. /\ rest \in Seq(Words)
        /\ Len(rest) = IF file.at + 1 <= Len(content)
                         THEN Len(content) - file.at ELSE 0
    <3>1. \A i \in file.at + 1 .. Len(content) : content[i] \in Words
      BY <2>1
    <3>2. QED
      BY <2>1, <2>2, <3>1, SubSeqProperties
  <2> HIDE DEF rest
  <2>4. Len(rest) \in Nat \ {0} /\ file.at + Len(rest) = Len(content)
    BY <1>3, <2>1, <2>3, EmptySeq
  <2>5. /\ kept[0] = <<>>
        /\ \A n \in 0 .. Len(rest) :
             kept[n] \in Seq(Words) /\ Len(kept[n]) \in Nat /\ Len(kept[n]) <= n
        /\ \A n \in 1 .. Len(rest) : Len(kept[n]) <= Len(kept[n - 1]) + 1
    BY <2>3, KeptFacts
  <2> HIDE DEF kept
  <2>6. Len(rest) \in stop /\ stop \in SUBSET Nat /\ stop \subseteq 1 .. Len(rest)
    BY <2>4
  <2>7. end \in stop /\ \A m \in stop : end <= m
    <3>1. end = CHOOSE n \in stop : \A m \in stop : n <= m
      BY <1>3
    <3> HIDE DEF stop, end
    <3>2. \E n \in stop : \A m \in stop : n <= m
      BY <2>6, LeastNat
    <3>3. QED
      BY <3>1, <3>2
  <2> HIDE DEF end
  <2>8. end \in 1 .. Len(rest)
    BY <2>6, <2>7
  \* Before the end, the buffer is not full.
  <2> DEFINE T == {n \in 0 .. end - 1 : Len(kept[n]) < MAX_LINE - 1}
  <2>9. 0 .. end - 1 \subseteq T
    <3>0. end - 1 \in Nat
      BY <2>4, <2>8
    <3>1. 0 \in T
      BY <2>5, <3>0, EmptySeq, LineAssumption
    <3>2. ASSUME NEW i \in 0 .. (end - 1) - 1, i \in T PROVE i + 1 \in T
      <4>1. i + 1 \in 1 .. Len(rest) /\ i + 1 < end /\ (i + 1) - 1 = i
            /\ i + 1 \in 0 .. end - 1 /\ i \in 0 .. Len(rest)
        BY <2>4, <2>8
      <4>2. i + 1 \notin stop
        <5> HIDE DEF stop
        <5>1. QED
          BY <2>7, <2>8, <4>1
      <4>3. Len(kept[i + 1]) # MAX_LINE - 1
        BY <4>1, <4>2
      <4>4. Len(kept[i + 1]) <= Len(kept[i]) + 1 /\ Len(kept[i + 1]) \in Nat
            /\ Len(kept[i]) \in Nat
        BY <2>5, <4>1
      <4>5. Len(kept[i]) < MAX_LINE - 1
        BY <3>2
      <4>6. Len(kept[i + 1]) < MAX_LINE - 1
        BY <4>3, <4>4, <4>5, LineAssumption
      <4>7. QED
        BY <4>1, <4>6
    <3> HIDE DEF T
    <3>3. QED
      BY <3>0, <3>1, <3>2, IntervalInduction
  <2>10. Len(kept[end]) < MAX_LINE
    <3>1. end - 1 \in 0 .. end - 1 /\ end - 1 \in 0 .. Len(rest)
      BY <2>4, <2>8
    <3>2. Len(kept[end - 1]) < MAX_LINE - 1
      BY <2>9, <3>1
    <3>3. Len(kept[end]) <= Len(kept[end - 1]) + 1 /\ Len(kept[end]) \in Nat
          /\ Len(kept[end - 1]) \in Nat
      BY <2>5, <2>8, <3>1
    <3>4. QED
      BY <3>2, <3>3, LineAssumption
  <2>11. end \in 0 .. Len(rest) /\ end \in Nat /\ file.at + end <= Len(content)
    BY <2>1, <2>4, <2>8
  <2>12. kept[end] \in Seq(Words) /\ Len(kept[end]) \in Nat /\ Len(kept[end]) <= end
    BY <2>5, <2>11
  <2>13. QED
    BY <1>1, <1>3, <2>10, <2>11, <2>12 DEF content
<1>4. QED
  BY <1>2, <1>3

\* Where a file of size z stands if sd_pos is pos and d CRs were dropped.
Place(pos, d, z) == IF pos < 0 THEN z ELSE Min({pos + d, z})

\* n words, m of them no CRs, are read from there.
Reading(at, pos, d, z, m, n) ==
  m <= n /\ (n # 0 => at + n <= z) /\ at = Place(pos, d, z)

\* Reading on keeps the position in step with the file.
LEMMA ReadAdds ==
  ASSUME NEW at \in Nat, NEW pos \in Int, NEW d \in Nat, NEW z \in Nat,
         NEW m \in Nat, NEW n \in Nat, Reading(at, pos, d, z, m, n),
         NEW q \in Int, q = pos + m, NEW e \in Nat, e = d + (n - m)
  PROVE  at + n = Place(q, e, z)
<1>0. m <= n /\ (n # 0 => at + n <= z) /\ at = Place(pos, d, z)
  BY DEF Reading
<1>1. PICK a \in Int, b \in Int : a = pos + d /\ b = q + e
  OBVIOUS
<1>2. Min({a, z}) = IF a <= z THEN a ELSE z
  BY MinPair
<1>3. Min({b, z}) = IF b <= z THEN b ELSE z
  BY MinPair
<1>4. at = IF pos < 0 THEN z ELSE IF a <= z THEN a ELSE z
  BY <1>0, <1>1, <1>2 DEF Place
<1>5. b = a + n
  BY <1>1
<1>6. at + n = IF q < 0 THEN z ELSE IF b <= z THEN b ELSE z
  <2>1. CASE pos < 0
    <3>1. at = z /\ n = 0 /\ m = 0
      BY <1>0, <1>4, <2>1
    <3>2. QED
      BY <2>1, <3>1
  <2>2. CASE pos >= 0
    <3>1. ~(q < 0) /\ at = IF a <= z THEN a ELSE z
      BY <1>0, <1>4, <2>2
    <3>2. CASE a <= z
      BY <1>0, <1>5, <3>1, <3>2
    <3>3. CASE ~(a <= z)
      <4>1. at = z /\ n = 0
        BY <1>0, <3>1, <3>3
      <4>2. QED
        BY <1>5, <3>1, <3>3, <4>1
    <3>4. QED
      BY <3>2, <3>3
  <2>3. QED
    BY <2>1, <2>2
<1>7. QED
  BY <1>1, <1>3, <1>6 DEF Place

LEMMA ReadStep ==
  ASSUME IInv, sd_read_file PROVE IInv'
<1> USE DEF IInv, TypeOK, SDType, FileType
<1> DEFINE n == f_gets.read
           m == Len(f_gets.line)
<1>1. /\ sd_line_buf = <<>> /\ sd.printing /\ ~sd.writing
      /\ UNCHANGED <<serial_line_buf, next_target, card, strays>> /\ pc' = "parse"
      /\ sd_line_buf' = f_gets.line
      /\ file' = [file EXCEPT !.at = @ + n] /\ dropped' = dropped + (n - m)
  BY DEF sd_read_file, UploadOwnsFile
<1>2. /\ f_gets.line \in Seq(Words) /\ m < MAX_LINE /\ m \in Nat /\ n \in Nat /\ m <= n
      /\ n # 0 => file.mode = "read" /\ file.at + n <= Len(card[file.name])
      /\ f_gets.line = <<>> => m = 0
  BY GetsFacts, EmptySeq
<1>3. sd' = IF f_gets.line = <<>> THEN [sd EXCEPT !.printing = FALSE]
            ELSE [sd EXCEPT !.pos = @ + m]
  BY DEF sd_read_file
<1>4. sd_line_buf' \in Seq(Words) /\ Len(sd_line_buf') < MAX_LINE
  BY <1>1, <1>2
<1> HIDE DEF n, m
<1>5. dropped' \in Nat /\ dropped' = dropped + (n - m)
  BY <1>1, <1>2
<1>6. /\ sd' \in SDType /\ sd'.size = sd.size /\ sd'.pos = sd.pos + m /\ ~sd'.writing
  <2>1. sd \in SDType /\ sd.pos + m \in Int /\ sd.pos + 0 = sd.pos
    BY <1>2
  <2> HIDE DEF IInv, TypeOK
  <2>2. CASE f_gets.line = <<>>
    <3>1. sd' = [sd EXCEPT !.printing = FALSE] /\ m = 0
      BY <1>2, <1>3, <2>2
    <3>2. QED
      BY <1>1, <2>1, <3>1
  <2>3. CASE f_gets.line # <<>>
    <3>1. sd' = [sd EXCEPT !.pos = sd.pos + m]
      BY <1>3, <2>1, <2>3
    <3>2. QED
      BY <1>1, <2>1, <3>1
  <2>4. QED
    BY <2>2, <2>3
<1>7. /\ file' \in FileType /\ file'.name = file.name /\ file'.mode = file.mode
      /\ file'.at = file.at + n
  <2>1. file \in FileType /\ file.at + n \in Nat
    BY <1>2
  <2>2. file' = [file EXCEPT !.at = file.at + n]
    BY <1>1, <2>1
  <2> HIDE DEF IInv, TypeOK
  <2>3. QED
    BY <2>1, <2>2
<1>8. StatusIsTrue'
  <2> SUFFICES ASSUME file.mode = "read" PROVE StatusIsTrue'
    BY <1>7 DEF StatusIsTrue
  <2> DEFINE size == sd.size
  <2>1. /\ size = Len(card[file.name]) /\ size \in Nat
        /\ file.at = IF sd.pos < 0 THEN size ELSE Min({sd.pos + dropped, size})
    BY DEF StatusIsTrue
  <2>2. file.at \in Nat /\ dropped \in Nat /\ sd.pos \in Int
    OBVIOUS
  <2>3. file.at + n <= size \/ n = 0
    BY <1>2, <2>1
  <2>4. PICK at \in Nat, pos \in Int, d \in Nat, z \in Nat, j \in Nat, l \in Nat :
          /\ at = file.at /\ pos = sd.pos /\ d = dropped /\ z = size
          /\ j = m /\ l = n
    BY <1>2, <2>1, <2>2
  <2>5. j <= l /\ Reading(at, pos, d, z, j, l)
    BY <1>2, <2>1, <2>3, <2>4 DEF Place, Reading
  <2>6. file'.at = IF sd'.pos < 0 THEN size ELSE Min({sd'.pos + dropped', size})
    <3>1. PICK q \in Int, e \in Nat : q = pos + j /\ e = d + (l - j)
      BY <2>5
    <3>2. at + l = Place(q, e, z)
      BY ONLY at \in Nat, pos \in Int, d \in Nat, z \in Nat, j \in Nat, l \in Nat,
              q \in Int, e \in Nat, <2>5, <3>1, ReadAdds
    <3>3. sd'.pos = q /\ dropped' = e /\ size = z /\ file'.at = at + l
      BY <1>5, <1>6, <1>7, <2>4, <3>1
    <3>4. QED
      BY <3>2, <3>3 DEF Place
  <2>7. QED
    BY <1>1, <1>6, <1>7, <2>1, <2>6 DEF StatusIsTrue, size
<1>9. OpenFileExists' /\ UploadOwnsFile' /\ OneStrayLeft'
  BY <1>1, <1>6, <1>7 DEF OpenFileExists, UploadOwnsFile, OneStrayLeft
<1>10. TypeOK' /\ AtMostOneStray'
  BY <1>1, <1>4, <1>5, <1>6, <1>7 DEF AtMostOneStray
<1>11. QED
  BY <1>8, <1>9, <1>10

\* An empty buffer is a buffer.
LEMMA NoLine == <<>> \in Seq(Words) /\ Len(<<>>) <= MAX_LINE /\ Len(<<>>) < MAX_LINE
BY LineAssumption, EmptySeq

LEMMA BufsTyped ==
  IInv => /\ serial_line_buf \in Seq(Words) /\ Len(serial_line_buf) <= MAX_LINE
          /\ sd_line_buf \in Seq(Words) /\ Len(sd_line_buf) < MAX_LINE
BY DEF IInv, TypeOK

\* The line of the file that strays is the one that was pending.
LEMMA StraysKept ==
  ASSUME IInv,
         \/ LineKeeps(0) /\ sd_line_buf' = sd_line_buf
         \/ LineKeeps(1) /\ sd_line_buf # <<>> /\ sd_line_buf' = <<>>
  PROVE  AtMostOneStray' /\ OneStrayLeft'
<1>1. strays \in Nat /\ strays' \in Nat /\ strays <= 1
  BY DEF IInv, TypeOK, AtMostOneStray, LineKeeps
<1>2. CASE ~sd.writing
  <2>1. strays' \in {0, strays} /\ (sd'.writing => strays' = 0)
    BY <1>2 DEF LineKeeps
  <2>2. QED
    BY <1>1, <2>1 DEF AtMostOneStray, OneStrayLeft
<1>3. CASE sd.writing /\ LineKeeps(0) /\ sd_line_buf' = sd_line_buf
  <2>1. strays' <= strays
    BY <1>1, <1>3 DEF LineKeeps
  <2>2. sd_line_buf' # <<>> => strays = 0
    BY <1>3 DEF IInv, OneStrayLeft
  <2>3. QED
    BY <1>1, <2>1, <2>2 DEF AtMostOneStray, OneStrayLeft
<1>4. CASE /\ sd.writing /\ LineKeeps(1)
           /\ sd_line_buf # <<>> /\ sd_line_buf' = <<>>
  <2>1. strays = 0 /\ strays' <= strays + 1
    BY <1>4 DEF IInv, OneStrayLeft, LineKeeps
  <2>2. QED
    BY <1>1, <1>4, <2>1 DEF AtMostOneStray, OneStrayLeft
<1>5. QED
  BY <1>2, <1>3, <1>4

LEMMA ParseStep ==
  ASSUME IInv, ParseSerial \/ ParseSD PROVE IInv'
<1>1. CASE ParseSerial
  <2>1. serial_line_buf \in Seq(Words) /\ gcode_parse_line(serial_line_buf, 0)
    BY <1>1 DEF IInv, TypeOK, ParseSerial
  <2>2. LineKeeps(0)
    BY <2>1, ParseLineKeeps
  <2>3. /\ pc' = "serial" /\ serial_line_buf' = <<>>
        /\ sd_line_buf' = sd_line_buf
    BY <1>1 DEF ParseSerial
  <2>4. TypeOK'
    BY <2>2, <2>3, NoLine, BufsTyped DEF LineKeeps, TypeOK, SDType, FileType
  <2>5. AtMostOneStray' /\ OneStrayLeft'
    BY <2>2, <2>3, StraysKept
  <2>6. QED
    BY <2>2, <2>4, <2>5 DEF LineKeeps, IInv
<1>2. CASE ParseSD
  <2>1. /\ sd_line_buf \in Seq(Words) /\ gcode_parse_line(sd_line_buf, 1)
        /\ sd_line_buf # <<>>
    BY <1>2 DEF IInv, TypeOK, ParseSD
  <2>2. LineKeeps(1)
    BY <2>1, ParseLineKeeps
  <2>3. /\ pc' = "serial" /\ sd_line_buf' = <<>>
        /\ serial_line_buf' = serial_line_buf
    BY <1>2 DEF ParseSD
  <2>4. TypeOK'
    BY <2>2, <2>3, NoLine, BufsTyped DEF LineKeeps, TypeOK, SDType, FileType
  <2>5. AtMostOneStray' /\ OneStrayLeft'
    BY <2>1, <2>2, <2>3, StraysKept
  <2>6. QED
    BY <2>2, <2>4, <2>5 DEF LineKeeps, IInv
<1>3. QED
  BY <1>1, <1>2

LEMMA SerialStep ==
  ASSUME IInv, SerialLine PROVE IInv'
<1>1. PICK l \in HostLines :
        serial_line_buf' = IF l = <<LF>> THEN <<>>
                           ELSE SubSeq(l, 1, Min({MAX_LINE, Len(l)}))
  BY DEF SerialLine
<1>2. l \in Seq(Words) /\ Len(l) \in Nat
  BY HostAssumption
<1>3. serial_line_buf' \in Seq(Words) /\ Len(serial_line_buf') <= MAX_LINE
  <2> DEFINE m == Min({MAX_LINE, Len(l)})
  <2>1. m \in Nat /\ m <= Len(l) /\ m <= MAX_LINE
    BY <1>2, MinPair, LineAssumption
  <2> HIDE DEF m
  <2>2. \A i \in 1 .. m : l[i] \in Words
    BY <1>2, <2>1
  <2>3. SubSeq(l, 1, m) \in Seq(Words) /\ Len(SubSeq(l, 1, m)) <= MAX_LINE
    BY <2>1, <2>2, SubSeqProperties
  <2>4. CASE l = <<LF>>
    BY <1>1, <2>4, NoLine
  <2>5. CASE l # <<LF>>
    BY <1>1, <2>3, <2>5 DEF m
  <2>6. QED
    BY <2>4, <2>5
<1>4. QED
  BY <1>3 DEF SerialLine, IInv, TypeOK, UploadOwnsFile, AtMostOneStray,
     OneStrayLeft, StatusIsTrue, OpenFileExists

\* Lines that wait and lines that are not there change nothing.
LEMMA IdleStep ==
  ASSUME IInv, SerialNothing \/ NoRead \/ NoParse \/ UNCHANGED vars PROVE IInv'
BY DEF SerialNothing, NoRead, NoParse, vars, IInv, TypeOK, UploadOwnsFile,
   AtMostOneStray, OneStrayLeft, StatusIsTrue, OpenFileExists

LEMMA InitIInv == Init => IInv
<1> SUFFICES ASSUME Init PROVE IInv
  OBVIOUS
<1>1. next_target \in Parsers
  BY DEF Init, Parsers
<1>2. file \in FileType /\ sd \in SDType /\ file.mode = "closed" /\ ~sd.writing
  BY DEF Init, Closed, FileType, SDType
<1>3. card \in [Names \cup {Odd} -> Seq(Words) \cup {Absent}]
  BY CardAssumption DEF Init
<1>4. QED
  BY <1>1, <1>2, <1>3, LineAssumption
     DEF Init, IInv, TypeOK, FileType, SDType, UploadOwnsFile, AtMostOneStray,
         OneStrayLeft, StatusIsTrue, OpenFileExists

LEMMA NextIInv == IInv /\ [Next]_vars => IInv'
BY ReadStep, ParseStep, SerialStep, IdleStep DEF Next

-----------------------------------------------------------------------------
\* Every behaviour of the loop keeps the invariant.
THEOREM LoopInvariant == Spec => []IInv
BY InitIInv, NextIInv, PTL DEF Spec

\* Buffers, flags, parser and file keep their types and bounds, for lines of
\* every length (gcode_parse_line, sd_read_file).
THEOREM LoopTypes == Spec => []TypeOK
<1>1. IInv => TypeOK
  BY DEF IInv
<1>2. QED
  BY <1>1, LoopInvariant, PTL

\* From M28 to M29 the shared FIL is open for writing and nothing is printed
\* (gcode_parse_line, process_gcode_command).
THEOREM LoopUpload == Spec => []UploadOwnsFile
<1>1. IInv => UploadOwnsFile
  BY DEF IInv
<1>2. QED
  BY <1>1, LoopInvariant, PTL

\* At most one line of the interrupted print is stored in an upload (app_main
\* reads ahead while a line of the host is pending).
THEOREM LoopStray == Spec => []AtMostOneStray
<1>1. IInv => AtMostOneStray
  BY DEF IInv
<1>2. QED
  BY <1>1, LoopInvariant, PTL

\* The size that M27 reports is that of the open file; its position lags behind
\* the place where the print goes on by the CRs that f_gets has stripped since
\* M23 or M26 (f_gets, sd_read_file), and by nothing else.
THEOREM LoopStatus == Spec => []StatusIsTrue
<1>1. IInv => StatusIsTrue
  BY DEF IInv
<1>2. QED
  BY <1>1, LoopInvariant, PTL
-----------------------------------------------------------------------------
(* A line is executed as what it says.                                     *)

\* A line in which M23 and M28 are given a name, if anything.
Plain(line) ==
  \A i \in 1 .. Len(line) - 1 :
    TakesName(line[i]) /\ ~Commented(line, i) => line[i + 1].f \in {"name", "*", "LF"}

\* The parser between two lines: what an earlier line has left does not count.
Rested(p) ==
  /\ p.seen = {} /\ p.last_field = NoWord /\ p.first
  /\ p.relative => p.val["X"] = 0

\* What the parser knows of letter l: the field it has read last is not stored
\* before the next one begins.
Value(p, l) ==
  IF p.last_field.f = l THEN FieldValue(p.last_field, p.inches) ELSE p.val[l]

\* A new G forgets the M of the line, and a new M its G.
Forgotten(w) == CASE w.f = "G" -> {"M"} [] w.f = "M" -> {"G"} [] OTHER -> {}

\* One word, seen from outside.
Char(p, w, r) ==
  /\ r.first = FALSE /\ r.relative = p.relative /\ r.inches = p.inches
  /\ r.seen = IF InComment(p) THEN p.seen \ (IF w.f = ")" THEN {"("} ELSE {})
              ELSE (p.seen \ Forgotten(w)) \cup ({w.f} \cap (Numbered \cup {";", "("}))
  /\ \/ r.last_field = NoWord
     \/ r.last_field = p.last_field /\ ~Completes(w)
     \/ r.last_field = w /\ Completes(w) /\ ~InComment(p)
  /\ w = LF => r.last_field = NoWord
  /\ \A l \in Numbered :
       /\ ~InComment(p) /\ w.f = l => Value(r, l) = FieldValue(w, p.inches)
       /\ InComment(p) \/ (w.f # l /\ l \notin Forgotten(w)) => Value(r, l) = Value(p, l)

\* gcode_parse_char does just that, unless a letter comes where a name should.
LEMMA CharRead ==
  ASSUME NEW p \in Parsers, NEW w \in Words, p.first = TRUE => p.getting_string = FALSE,
         Completes(w) /\ TakesName(p.last_field) => w.f \in {"name", "*", "LF"}
  PROVE  Char(p, w, gcode_parse_char(p, w))
<1> DEFINE spaced == [p EXCEPT !.getting_string = @ /\ p.first, !.first = FALSE]
           q1 == StoreField(spaced, w)
           q == TakeName(q1, w)
           r == gcode_parse_char(p, w)
<1> SUFFICES Char(p, w, r)
  OBVIOUS
<1>1. /\ spaced \in Parsers /\ spaced.seen = p.seen /\ spaced.val = p.val
      /\ spaced.last_field = p.last_field /\ spaced.getting_string = FALSE
      /\ spaced.first = FALSE /\ spaced.relative = p.relative
      /\ spaced.inches = p.inches
  BY DEF Parsers
<1> HIDE DEF spaced
<1>2. /\ q1 \in Parsers /\ q1.seen = p.seen /\ q1.relative = p.relative
      /\ q1.first = FALSE /\ q1.inches = p.inches
      /\ q1.last_field = IF Completes(w) THEN NoWord ELSE p.last_field
      /\ q1.getting_string = TRUE => Completes(w) /\ TakesName(p.last_field)
      /\ q1.val = IF Completes(w) /\ p.last_field # NoWord
                  THEN [l \in Numbered |-> IF l = p.last_field.f
                                           THEN FieldValue(p.last_field, p.inches)
                                           ELSE p.val[l]]
                  ELSE p.val
  <2>0. [l \in Numbered |-> IF l = p.last_field.f
                            THEN FieldValue(p.last_field, p.inches)
                            ELSE p.val[l]] \in [Numbered -> Int]
    <3>1. FieldValue(p.last_field, p.inches) \in Int
      BY LastFieldNat, FieldValueInt
    <3>2. QED
      BY <3>1 DEF Parsers
  <2>1. CASE Completes(w) /\ p.last_field # NoWord
    <3>1. q1 = [spaced EXCEPT
                  !.val = [l \in Numbered |-> IF l = p.last_field.f
                                              THEN FieldValue(p.last_field, p.inches)
                                              ELSE p.val[l]],
                  !.getting_string = FALSE \/ TakesName(p.last_field),
                  !.last_field = NoWord]
      BY <1>1, <2>1 DEF StoreField
    <3> HIDE DEF q1
    <3>2. QED
      <4>1. TakesName(p.last_field) \in BOOLEAN
        BY DEF TakesName
      <4>2. QED
        BY <1>1, <2>0, <2>1, <3>1, <4>1 DEF Parsers
  <2>2. CASE ~(Completes(w) /\ p.last_field # NoWord)
    <3>1. q1 = spaced
      BY <1>1, <2>2 DEF StoreField
    <3>2. QED
      BY <1>1, <2>2, <3>1
  <2>3. QED
    BY <2>1, <2>2
<1> HIDE DEF q1
<1>3. /\ q \in Parsers /\ q.seen = p.seen /\ q.relative = p.relative /\ q.first = FALSE
      /\ q.last_field = q1.last_field /\ q.val = q1.val /\ q.inches = p.inches
      /\ q.getting_string = TRUE => w.f = "name" /\ Completes(w)
  <2>1. CardName(w) \in Names \cup {Odd, NoName}
    BY WordAssumption DEF CardName
  <2>2. CASE q1.getting_string = FALSE
    BY <1>2, <2>2 DEF TakeName, Parsers
  <2>3. CASE q1.getting_string = TRUE /\ w.f \in {"LF", "*"}
    <3>1. q = [q1 EXCEPT !.getting_string = FALSE]
      BY <2>3 DEF TakeName
    <3> HIDE DEF q
    <3>2. QED
      BY <1>2, <3>1 DEF Parsers
  <2>4. CASE q1.getting_string = TRUE /\ w.f \notin {"LF", "*"}
    <3>1. q = [q1 EXCEPT !.filename = CardName(w)]
      BY <2>4 DEF TakeName
    <3>2. w.f = "name" /\ Completes(w)
      BY <1>2, <2>4
    <3> HIDE DEF q
    <3>3. QED
      BY <1>2, <2>1, <3>1, <3>2 DEF Parsers
  <2>5. q1.getting_string = TRUE \/ q1.getting_string = FALSE
    BY <1>2 DEF Parsers
  <2>6. QED
    BY <2>2, <2>3, <2>4, <2>5
<1>4. r = CASE q.getting_string -> q
            [] ~q.getting_string /\ InComment(q) ->
                 IF w.f = ")" THEN [q EXCEPT !.seen = @ \ {"("}] ELSE q
            [] OTHER -> NewField(q, w)
  BY DEF gcode_parse_char, q1, spaced
<1> HIDE DEF q, r
<1>5. InComment(q) <=> InComment(p)
  BY <1>3 DEF InComment
<1>6. ASSUME NEW l \in Numbered
      PROVE  /\ Completes(w) => q.val[l] = Value(p, l) /\ NoWord.f # l
             /\ ~Completes(w) => q.last_field = p.last_field /\ q.val = p.val
  <2>1. NoWord.f \notin Numbered
    BY DEF NoWord, Numbered
  <2>2. QED
    BY <1>2, <1>3, <2>1 DEF Value
<1>7. \A l \in Numbered : Value(q, l) = Value(p, l)
  <2>1. CASE Completes(w)
    BY <1>2, <1>3, <1>6, <2>1 DEF Value
  <2>2. CASE ~Completes(w)
    <3>1. q.inches = p.inches
      BY <1>3
    <3>2. QED
      BY <1>6, <2>2, <3>1 DEF Value
  <2>3. QED
    BY <2>1, <2>2
<1>8. \/ q.last_field = NoWord
      \/ q.last_field = p.last_field /\ ~Completes(w)
  BY <1>2, <1>3
<1>9. w = LF => w.f = "LF" /\ Completes(w) /\ w.f \notin Numbered
  BY DEF LF, Completes, Numbered
<1>10. \A l \in Numbered : w.f = l => Completes(w) /\ w # LF
  BY <1>9 DEF Completes, Numbered
<1>11. CASE q.getting_string = TRUE
  <2>1. r = q /\ w.f = "name" /\ Completes(w) /\ w # LF
    BY <1>3, <1>4, <1>9, <1>11
  <2>2. Forgotten(w) = {} /\ {w.f} \cap (Numbered \cup {";", "("}) = {} /\ w.f # ")"
    BY <2>1 DEF Forgotten, Numbered
  <2>3. r.seen = p.seen /\ w.f \notin Numbered
    BY <1>3, <2>1, <2>2
  <2>4. QED
    BY <1>3, <1>7, <1>8, <2>1, <2>2, <2>3 DEF Char
<1>12. CASE q.getting_string = FALSE /\ InComment(p)
  <2>1. r = IF w.f = ")" THEN [q EXCEPT !.seen = @ \ {"("}] ELSE q
    BY <1>4, <1>5, <1>12
  <2>2. /\ r.seen = p.seen \ (IF w.f = ")" THEN {"("} ELSE {})
        /\ r.first = FALSE /\ r.relative = p.relative /\ r.inches = p.inches
        /\ r.last_field = q.last_field /\ r.val = q.val
    BY <1>3, <2>1 DEF Parsers
  <2>3. \A l \in Numbered : Value(r, l) = Value(p, l)
    <3>1. r.inches = q.inches
      BY <1>3, <2>2
    <3>2. \A l \in Numbered : Value(r, l) = Value(q, l)
      BY <2>2, <3>1 DEF Value
    <3>3. QED
      BY <1>7, <3>2
  <2>4. w = LF => r.last_field = NoWord
    BY <1>8, <1>9, <2>2
  <2>5. QED
    BY <1>8, <1>12, <2>2, <2>3, <2>4 DEF Char
<1>13. CASE q.getting_string = FALSE /\ ~InComment(p)
  <2> DEFINE zero == [l \in Numbered |-> IF l \in Forgotten(w) THEN 0 ELSE q.val[l]]
  <2>1. r = NewField(q, w)
    BY <1>4, <1>5, <1>13
  <2>2. r = [q EXCEPT !.last_field = IF Completes(w) /\ w # LF THEN w ELSE @,
               !.seen = (@ \ Forgotten(w)) \cup ({w.f} \cap (Numbered \cup {";", "("})),
               !.val = zero]
    BY <2>1 DEF NewField, Forgotten
  <2> HIDE DEF zero
  <2>3. /\ r.seen = (p.seen \ Forgotten(w)) \cup ({w.f} \cap (Numbered \cup {";", "("}))
        /\ r.first = FALSE /\ r.relative = p.relative /\ r.val = zero
        /\ r.inches = p.inches
        /\ r.last_field = IF Completes(w) /\ w # LF THEN w ELSE q.last_field
    BY <1>3, <2>2 DEF Parsers
  <2>4. w = LF => r.last_field = NoWord
    BY <1>8, <1>9, <2>3
  <2>5. ASSUME NEW l \in Numbered, w.f = l PROVE Value(r, l) = FieldValue(w, p.inches)
    BY <1>10, <2>3, <2>5 DEF Value
  <2>6. ASSUME NEW l \in Numbered, w.f # l, l \notin Forgotten(w)
        PROVE  Value(r, l) = Value(p, l)
    <3>1. zero[l] = q.val[l]
      BY <2>6 DEF zero
    <3>2. CASE Completes(w)
      <4>1. q.last_field.f # l /\ q.val[l] = Value(p, l)
        BY <1>2, <1>3, <1>6, <3>2
      <4>2. r.last_field.f # l
        BY <2>3, <2>6, <4>1
      <4>3. QED
        BY <2>3, <3>1, <4>1, <4>2 DEF Value
    <3>3. CASE ~Completes(w)
      BY <1>3, <1>6, <2>3, <3>1, <3>3 DEF Value
    <3>4. QED
      BY <3>2, <3>3
  <2>7. QED
    BY <1>8, <1>13, <2>3, <2>4, <2>5, <2>6 DEF Char
<1>14. q.getting_string = TRUE \/ q.getting_string = FALSE
  BY <1>3 DEF Parsers
<1>15. QED
  BY <1>11, <1>12, <1>13, <1>14

-----------------------------------------------------------------------------
(* What counts in a line, one word after the other.                        *)

\* A semicolon outside parentheses opens the comment that the line ends with.
Opens(line, j) == line[j].f = ";" /\ ~InParens(line, j)
Semicolon(line, i) == \E j \in 1 .. (i - 1) : Opens(line, j)

\* The words with these letters, among the first n, that are in no comment.
Visible(line, n, ls) == {i \in 1 .. n : line[i].f \in ls /\ ~Commented(line, i)}

\* No line begins inside a comment, and a word opens or closes one.
LEMMA CommentStart ==
  ASSUME NEW line
  PROVE  ~InParens(line, 0 + 1) /\ ~Semicolon(line, 0 + 1)
BY DEF InParens, Semicolon

LEMMA CommentNext ==
  ASSUME NEW line, NEW n \in Nat
  PROVE  /\ InParens(line, (n + 1) + 1) <=>
              line[n + 1].f # ")" /\ (line[n + 1].f = "(" \/ InParens(line, n + 1))
         /\ Semicolon(line, (n + 1) + 1) <=>
              Semicolon(line, n + 1) \/ (line[n + 1].f = ";" /\ ~InParens(line, n + 1))
         /\ Commented(line, n + 1) <=> InParens(line, n + 1) \/ Semicolon(line, n + 1)
<1>1. 1 .. ((n + 1) + 1 - 1) = (1 .. (n + 1 - 1)) \cup {n + 1}
  OBVIOUS
<1>2. \A j \in 1 .. (n + 1 - 1) : j .. ((n + 1) + 1 - 1) = (j .. (n + 1 - 1)) \cup {n + 1}
  OBVIOUS
<1>3. (n + 1) .. ((n + 1) + 1 - 1) = {n + 1}
  OBVIOUS
<1>4. InParens(line, (n + 1) + 1) <=>
        line[n + 1].f # ")" /\ (line[n + 1].f = "(" \/ InParens(line, n + 1))
  <2>1. ASSUME InParens(line, (n + 1) + 1)
        PROVE  line[n + 1].f # ")" /\ (line[n + 1].f = "(" \/ InParens(line, n + 1))
    <3>1. PICK j \in 1 .. ((n + 1) + 1 - 1) :
            line[j].f = "(" /\ \A k \in j .. ((n + 1) + 1 - 1) : line[k].f # ")"
      BY <2>1 DEF InParens
    <3>2. CASE j = n + 1
      BY <1>3, <3>1, <3>2
    <3>3. CASE j \in 1 .. (n + 1 - 1)
      <4>1. \A k \in (j .. (n + 1 - 1)) \cup {n + 1} : line[k].f # ")"
        BY <1>2, <3>1, <3>3
      <4>2. QED
        BY <3>1, <3>3, <4>1 DEF InParens
    <3>4. QED
      BY <1>1, <3>1, <3>2, <3>3
  <2>2. ASSUME line[n + 1].f # ")", line[n + 1].f = "("
        PROVE  InParens(line, (n + 1) + 1)
    BY <1>1, <1>3, <2>2 DEF InParens
  <2>3. ASSUME line[n + 1].f # ")", InParens(line, n + 1)
        PROVE  InParens(line, (n + 1) + 1)
    <3>1. PICK j \in 1 .. (n + 1 - 1) :
            line[j].f = "(" /\ \A k \in j .. (n + 1 - 1) : line[k].f # ")"
      BY <2>3 DEF InParens
    <3>2. \A k \in j .. ((n + 1) + 1 - 1) : line[k].f # ")"
      BY <1>2, <2>3, <3>1
    <3>3. QED
      BY <1>1, <3>1, <3>2 DEF InParens
  <2>4. QED
    BY <2>1, <2>2, <2>3
<1>5. Semicolon(line, (n + 1) + 1) <=>
        Semicolon(line, n + 1) \/ (line[n + 1].f = ";" /\ ~InParens(line, n + 1))
  <2>1. Opens(line, n + 1) <=> line[n + 1].f = ";" /\ ~InParens(line, n + 1)
    BY DEF Opens
  <2>2. \A j : j \in 1 .. ((n + 1) + 1 - 1) <=> j \in 1 .. (n + 1 - 1) \/ j = n + 1
    BY <1>1
  <2>3. ASSUME Semicolon(line, (n + 1) + 1), ~Semicolon(line, n + 1)
        PROVE  Opens(line, n + 1)
    BY <2>2, <2>3 DEF Semicolon
  <2>4. ASSUME Semicolon(line, n + 1) \/ Opens(line, n + 1)
        PROVE  Semicolon(line, (n + 1) + 1)
    BY <2>2, <2>4 DEF Semicolon
  <2>5. QED
    BY <2>1, <2>3, <2>4
<1>6. Commented(line, n + 1) <=> InParens(line, n + 1) \/ Semicolon(line, n + 1)
  BY DEF Commented, Semicolon, Opens
<1>7. QED
  BY <1>4, <1>5, <1>6

\* The next word is the last that counts, or nothing new counts.
LEMMA VisibleNext ==
  ASSUME NEW line, NEW n \in Nat, NEW ls
  PROVE  /\ line[n + 1].f \in ls /\ ~Commented(line, n + 1) =>
              /\ n + 1 \in Visible(line, n + 1, ls)
              /\ \A j \in Visible(line, n + 1, ls) : j <= n + 1
         /\ ~(line[n + 1].f \in ls /\ ~Commented(line, n + 1)) =>
              Visible(line, n + 1, ls) = Visible(line, n, ls)
<1>1. 1 .. (n + 1) = (1 .. n) \cup {n + 1} /\ \A j \in 1 .. (n + 1) : j <= n + 1
  OBVIOUS
<1>2. QED
  BY <1>1 DEF Visible

\* What the parser has kept of the letters ls is the last of them that counts.
Reads(p, line, n, ls) ==
  \/ Visible(line, n, ls) = {} /\ \A l \in ls : l \notin p.seen
  \/ \E i \in Visible(line, n, ls) :
       /\ \A j \in Visible(line, n, ls) : j <= i
       /\ \A l \in ls : l \in p.seen <=> l = line[i].f
       /\ Value(p, line[i].f) = FieldValue(line[i], p.inches)

\* One more word keeps it so.
LEMMA ReadsStep ==
  ASSUME NEW p, NEW line, NEW n \in Nat, NEW r, Char(p, line[n + 1], r),
         InComment(p) <=> Commented(line, n + 1),
         NEW ls, ls = {"G", "M"} \/ ls = {"X"} \/ ls = {"S"},
         Reads(p, line, n, ls)
  PROVE  Reads(r, line, n + 1, ls)
<1> DEFINE w == line[n + 1]
<1>0. Char(p, w, r)
  OBVIOUS
<1>1. ls \subseteq Numbered
  BY DEF Numbered
<1>2. ASSUME w.f \in ls
      PROVE  ls \ {w.f} \subseteq Forgotten(w) /\ w.f \notin Forgotten(w)
  BY <1>2 DEF Forgotten
<1>3. ASSUME w.f \notin ls PROVE Forgotten(w) \cap ls = {}
  BY <1>3 DEF Forgotten
<1>4. \A l \in ls : l # "(" /\ l # ";"
  OBVIOUS
<1> HIDE DEF w
<1>5. CASE w.f \in ls /\ ~InComment(p)
  <2>1. r.seen = (p.seen \ Forgotten(w)) \cup ({w.f} \cap (Numbered \cup {";", "("}))
    BY <1>0, <1>5 DEF Char
  <2>2. Value(r, w.f) = FieldValue(w, r.inches)
    BY <1>0, <1>1, <1>5 DEF Char
  <2>3. \A l \in ls : l \in r.seen <=> l = w.f
    BY <1>1, <1>2, <1>5, <2>1
  <2>4. /\ n + 1 \in Visible(line, n + 1, ls)
        /\ \A j \in Visible(line, n + 1, ls) : j <= n + 1
    BY <1>5, VisibleNext DEF w
  <2>5. QED
    BY <2>2, <2>3, <2>4 DEF Reads, w
<1>6. CASE ~(w.f \in ls /\ ~InComment(p))
  <2>1. ASSUME NEW l \in ls
        PROVE  (l \in r.seen <=> l \in p.seen) /\ Value(r, l) = Value(p, l)
    <3>1. CASE InComment(p)
      <4>1. r.seen = p.seen \ (IF w.f = ")" THEN {"("} ELSE {})
        BY <1>0, <3>1 DEF Char
      <4>2. Value(r, l) = Value(p, l)
        BY <1>0, <1>1, <3>1 DEF Char
      <4>3. QED
        BY <1>4, <4>1, <4>2
    <3>2. CASE ~InComment(p) /\ w.f \notin ls
      <4>1. r.seen = (p.seen \ Forgotten(w)) \cup ({w.f} \cap (Numbered \cup {";", "("}))
        BY <1>0, <3>2 DEF Char
      <4>2. l \notin Forgotten(w) /\ w.f # l
        BY <1>3, <3>2
      <4>3. Value(r, l) = Value(p, l)
        BY <1>0, <1>1, <4>2 DEF Char
      <4>4. QED
        BY <4>1, <4>2, <4>3
    <3>3. QED
      BY <1>6, <3>1, <3>2
  <2>2. Visible(line, n + 1, ls) = Visible(line, n, ls)
    BY <1>6, VisibleNext DEF w
  <2>3. CASE Visible(line, n, ls) = {} /\ \A l \in ls : l \notin p.seen
    BY <2>1, <2>2, <2>3 DEF Reads
  <2>4. CASE \E i \in Visible(line, n, ls) :
               /\ \A j \in Visible(line, n, ls) : j <= i
               /\ \A l \in ls : l \in p.seen <=> l = line[i].f
               /\ Value(p, line[i].f) = FieldValue(line[i], p.inches)
    <3>1. PICK i \in Visible(line, n, ls) :
               /\ \A j \in Visible(line, n, ls) : j <= i
               /\ \A l \in ls : l \in p.seen <=> l = line[i].f
               /\ Value(p, line[i].f) = FieldValue(line[i], p.inches)
      BY <2>4
    <3>2. line[i].f \in ls
      BY <3>1 DEF Visible
    <3>3. Value(r, line[i].f) = FieldValue(line[i], r.inches) /\ \A l \in ls : l \in r.seen <=> l = line[i].f
      <4>1. r.inches = p.inches
        BY <1>0 DEF Char
      <4>2. QED
        BY <2>1, <3>1, <3>2, <4>1
    <3>4. QED
      BY <2>2, <3>1, <3>3 DEF Reads
  <2>5. QED
    BY <2>3, <2>4 DEF Reads
<1>7. QED
  BY <1>5, <1>6

\* The parser p after n words of a line, base being what it was before them.
Follows(p, base, line, n) ==
  /\ p \in Parsers /\ p.relative = base.relative /\ p.inches = base.inches
  /\ p.first = TRUE => p.getting_string = FALSE
  /\ ";" \in p.seen <=> Semicolon(line, n + 1)
  /\ ~Semicolon(line, n + 1) => ("(" \in p.seen <=> InParens(line, n + 1))
  /\ TakesName(p.last_field) => n > 0 /\ line[n] = p.last_field /\ ~Commented(line, n)
  /\ n > 0 /\ line[n] = LF => p.last_field = NoWord
  /\ "X" \notin p.seen => Value(p, "X") = Value(base, "X")
  /\ Reads(p, line, n, {"G", "M"}) /\ Reads(p, line, n, {"X"}) /\ Reads(p, line, n, {"S"})

\* It holds before the first word, and every word keeps it.
LEMMA FollowsStart ==
  ASSUME NEW base \in Parsers, Rested(base), base.getting_string = FALSE, NEW line
  PROVE  Follows(base, base, line, 0)
<1>1. /\ base.seen = {} /\ base.last_field = NoWord /\ ~TakesName(NoWord)
  BY DEF Rested, TakesName, NoWord
<1>2. ~InParens(line, 0 + 1) /\ ~Semicolon(line, 0 + 1)
  BY CommentStart
<1>3. \A ls : Visible(line, 0, ls) = {}
  BY DEF Visible
<1>4. /\ Reads(base, line, 0, {"G", "M"}) /\ Reads(base, line, 0, {"X"})
      /\ Reads(base, line, 0, {"S"})
  BY <1>1, <1>3 DEF Reads
<1>5. QED
  BY <1>1, <1>2, <1>4 DEF Follows

LEMMA FollowsStep ==
  ASSUME NEW p, NEW base, NEW line \in Seq(Words), Plain(line),
         NEW n \in 0 .. Len(line) - 1, Follows(p, base, line, n)
  PROVE  Follows(gcode_parse_char(p, line[n + 1]), base, line, n + 1)
<1> DEFINE w == line[n + 1]
           r == gcode_parse_char(p, w)
<1>0. n \in Nat /\ n + 1 \in 1 .. Len(line) /\ w \in Words
  OBVIOUS
<1>1. InComment(p) <=> Commented(line, n + 1)
  <2>1. Commented(line, n + 1) <=> InParens(line, n + 1) \/ Semicolon(line, n + 1)
    BY <1>0, CommentNext
  <2>2. InComment(p) <=> ";" \in p.seen \/ "(" \in p.seen
    BY DEF InComment
  <2>3. QED
    BY <2>1, <2>2 DEF Follows
<1>2. TakesName(p.last_field) => w.f \in {"name", "*", "LF"} /\ Completes(w)
  <2>1. SUFFICES ASSUME TakesName(p.last_field)
                 PROVE  w.f \in {"name", "*", "LF"} /\ Completes(w)
    OBVIOUS
  <2>2. n > 0 /\ line[n] = p.last_field /\ ~Commented(line, n)
    BY <2>1 DEF Follows
  <2>3. n \in 1 .. Len(line) - 1
    BY <1>0, <2>2
  <2>4. w.f \in {"name", "*", "LF"}
    BY <2>1, <2>2, <2>3 DEF Plain
  <2>5. QED
    BY <2>4 DEF Completes
<1>3. p \in Parsers /\ (p.first = TRUE => p.getting_string = FALSE)
  BY DEF Follows
<1>4. Char(p, w, r)
  <2> HIDE DEF w
  <2>1. QED
    BY <1>0, <1>2, <1>3, CharRead
<1>5. r \in Parsers
  <2> HIDE DEF w
  <2>1. QED
    BY <1>0, <1>3, ParseCharType
<1>6. /\ Reads(r, line, n + 1, {"G", "M"}) /\ Reads(r, line, n + 1, {"X"})
      /\ Reads(r, line, n + 1, {"S"})
  <2> HIDE DEF r
  <2>1. /\ Reads(p, line, n, {"G", "M"}) /\ Reads(p, line, n, {"X"})
        /\ Reads(p, line, n, {"S"})
    BY DEF Follows
  <2>2. QED
    BY <1>0, <1>1, <1>4, <2>1, ReadsStep
<1> HIDE DEF r
<1>7. InComment(p) => r.seen = p.seen \ (IF w.f = ")" THEN {"("} ELSE {})
  BY <1>4 DEF Char
<1>8. ~InComment(p) =>
        r.seen = (p.seen \ Forgotten(w)) \cup ({w.f} \cap (Numbered \cup {";", "("}))
  BY <1>4 DEF Char
<1>9. /\ ";" \notin Forgotten(w) /\ "(" \notin Forgotten(w) /\ "X" \notin Forgotten(w)
      /\ ";" \notin Numbered /\ "(" \notin Numbered /\ "X" \in Numbered
  BY DEF Forgotten, Numbered
<1>10. /\ ";" \in r.seen <=> ";" \in p.seen \/ (w.f = ";" /\ ~InComment(p))
       /\ "(" \in r.seen <=> IF InComment(p) THEN "(" \in p.seen /\ w.f # ")"
                             ELSE "(" \in p.seen \/ w.f = "("
       /\ "X" \notin r.seen => "X" \notin p.seen /\ (InComment(p) \/ w.f # "X")
  <2> HIDE DEF w
  <2>1. QED
    BY <1>7, <1>8, <1>9
<1>11. /\ InParens(line, (n + 1) + 1) <=> w.f # ")" /\ (w.f = "(" \/ InParens(line, n + 1))
       /\ Semicolon(line, (n + 1) + 1) <=>
            Semicolon(line, n + 1) \/ (w.f = ";" /\ ~InParens(line, n + 1))
       /\ Commented(line, n + 1) <=> InParens(line, n + 1) \/ Semicolon(line, n + 1)
  BY <1>0, CommentNext
<1>12. /\ ";" \in p.seen <=> Semicolon(line, n + 1)
       /\ ~Semicolon(line, n + 1) => ("(" \in p.seen <=> InParens(line, n + 1))
  BY DEF Follows
<1>13. ";" \in r.seen <=> Semicolon(line, (n + 1) + 1)
  <2> HIDE DEF w
  <2>1. QED
    BY <1>1, <1>10, <1>11, <1>12
<1>14. ~Semicolon(line, (n + 1) + 1) =>
         ("(" \in r.seen <=> InParens(line, (n + 1) + 1))
  <2> HIDE DEF w
  <2>1. QED
    BY <1>1, <1>10, <1>11, <1>12
<1>15. TakesName(r.last_field) =>
         n + 1 > 0 /\ line[n + 1] = r.last_field /\ ~Commented(line, n + 1)
  <2>1. ~TakesName(NoWord)
    BY DEF TakesName, NoWord
  <2>2. \/ r.last_field = NoWord
        \/ r.last_field = p.last_field /\ ~Completes(w)
        \/ r.last_field = w /\ Completes(w) /\ ~InComment(p)
    BY <1>4 DEF Char
  <2>3. QED
    BY <1>0, <1>1, <1>2, <2>1, <2>2
<1>16. line[n + 1] = LF => r.last_field = NoWord
  BY <1>4 DEF Char
<1>17. "X" \notin r.seen => Value(r, "X") = Value(base, "X")
  <2>1. SUFFICES ASSUME "X" \notin r.seen PROVE Value(r, "X") = Value(base, "X")
    OBVIOUS
  <2> HIDE DEF w
  <2>2. Value(r, "X") = Value(p, "X")
    BY <1>4, <1>9, <1>10, <2>1 DEF Char
  <2>3. QED
    BY <1>10, <2>1, <2>2 DEF Follows
<1>18. r.relative = base.relative /\ r.first = FALSE /\ r.inches = base.inches
  BY <1>4 DEF Char, Follows
<1>19. QED
  <2> HIDE DEF w
  <2>1. Follows(r, base, line, n + 1)
    BY <1>0, <1>5, <1>6, <1>13, <1>14, <1>15, <1>16, <1>17, <1>18 DEF Follows
  <2>2. QED
    BY <2>1 DEF r, w

\* After the whole line, its end included, nothing is left to be stored.
LEMMA LineFollows ==
  ASSUME next_target \in Parsers, Rested(next_target),
         next_target.getting_string = FALSE,
         NEW line \in Seq(Words), Plain(line)
  PROVE  Follows(Parsed(line), next_target, line, Len(line))
<1>1. PICK after \in [0 .. Len(line) -> Parsers] :
        /\ after[0] = next_target /\ Parsed(line) = after[Len(line)]
        /\ \A i \in 1 .. Len(line) : after[i] = gcode_parse_char(after[i - 1], line[i])
  BY ParsedBy
<1> DEFINE T == {i \in 0 .. Len(line) : Follows(after[i], next_target, line, i)}
<1>2. Len(line) \in Nat
  OBVIOUS
<1>3. 0 \in T
  <2>1. Follows(next_target, next_target, line, 0)
    BY FollowsStart
  <2>2. QED
    BY <1>1, <1>2, <2>1
<1>4. ASSUME NEW i \in 0 .. Len(line) - 1, i \in T PROVE i + 1 \in T
  <2>1. i + 1 \in 1 .. Len(line) /\ i + 1 - 1 = i
    BY <1>2
  <2>2. after[i + 1] = gcode_parse_char(after[i], line[i + 1])
    BY <1>1, <2>1
  <2>3. Follows(after[i], next_target, line, i)
    BY <1>4
  <2>4. Follows(gcode_parse_char(after[i], line[i + 1]), next_target, line, i + 1)
    BY <2>3, FollowsStep
  <2>5. QED
    BY <2>1, <2>2, <2>4
<1>5. 0 .. Len(line) \subseteq T
  <2> HIDE DEF T
  <2>1. QED
    BY <1>2, <1>3, <1>4, IntervalInduction
<1>6. QED
  BY <1>1, <1>2, <1>5

\* In a plain line the words that count are those in no comment.
LEMMA PlainVisible ==
  ASSUME NEW line \in Seq(Words), Plain(line), NEW ls, ls \subseteq {"G", "M", "X", "S"}
  PROVE  {i \in 1 .. Len(line) : line[i].f \in ls /\ ~Hidden(line, i)} =
           Visible(line, Len(line), ls)
<1>1. ASSUME NEW i \in 1 .. Len(line), line[i].f \in ls
      PROVE  Hidden(line, i) <=> Commented(line, i)
  <2>1. ASSUME i > 1, TakesName(line[i - 1]) PROVE Commented(line, i)
    <3>1. i - 1 \in 1 .. Len(line) - 1 /\ (i - 1) + 1 = i
      BY <2>1
    <3>2. Commented(line, i - 1)
      BY <1>1, <2>1, <3>1 DEF Plain
    <3>3. PICK n \in Nat : n = i - 2
      BY <2>1
    <3>4. n + 1 = i - 1 /\ (n + 1) + 1 = i
      BY <3>3
    <3>5. line[n + 1].f # ")"
      BY <2>1, <3>4 DEF TakesName
    <3>6. InParens(line, n + 1) \/ Semicolon(line, n + 1)
      BY <3>2, <3>4, CommentNext
    <3>7. InParens(line, (n + 1) + 1) \/ Semicolon(line, (n + 1) + 1)
      BY <3>5, <3>6, CommentNext
    <3>8. QED
      BY <3>4, <3>7 DEF Commented, Semicolon, Opens
  <2>2. QED
    BY <2>1 DEF Hidden
<1>2. QED
  BY <1>1 DEF Visible

\* What was read is what the line says.
LEMMA ReadsLast ==
  ASSUME NEW line \in Seq(Words), Plain(line), NEW ls, ls \subseteq {"G", "M", "X", "S"},
         NEW p, Reads(p, line, Len(line), ls)
  PROVE  \/ LastOf(line, ls) = NoWord /\ \A l \in ls : l \notin p.seen
         \/ /\ LastOf(line, ls).f \in ls
            /\ \A l \in ls : l \in p.seen <=> l = LastOf(line, ls).f
            /\ Value(p, LastOf(line, ls).f) = FieldValue(LastOf(line, ls), p.inches)
<1> DEFINE at == {i \in 1 .. Len(line) : line[i].f \in ls /\ ~Hidden(line, i)}
<1>1. at = Visible(line, Len(line), ls)
  BY PlainVisible
<1>2. LastOf(line, ls) = IF at = {} THEN NoWord ELSE line[Max(at)]
  BY DEF LastOf
<1>3. at \subseteq Nat
  OBVIOUS
<1> HIDE DEF at
<1>4. CASE at = {} /\ \A l \in ls : l \notin p.seen
  BY <1>2, <1>4
<1>5. ASSUME NEW i \in at, \A j \in at : j <= i,
             \A l \in ls : l \in p.seen <=> l = line[i].f,
             Value(p, line[i].f) = FieldValue(line[i], p.inches)
      PROVE  /\ LastOf(line, ls).f \in ls
             /\ \A l \in ls : l \in p.seen <=> l = LastOf(line, ls).f
             /\ Value(p, LastOf(line, ls).f) = FieldValue(LastOf(line, ls), p.inches)
  <2>1. Max(at) = i
    BY <1>3, <1>5 DEF Max
  <2>2. LastOf(line, ls) = line[i]
    BY <1>2, <1>5, <2>1
  <2>3. line[i].f \in ls
    BY <1>5 DEF at
  <2>4. QED
    BY <1>5, <2>2, <2>3
<1>6. QED
  BY <1>1, <1>4, <1>5 DEF Reads

-----------------------------------------------------------------------------
(* What is executed.                                                       *)

\* The property, for the lines it is proved for.
PlainLines == Plain(last.line) => LinesIndependent

\* The reset at the end of a line leaves the parser at rest.
LEMMA EndRests ==
  ASSUME NEW p \in Parsers
  PROVE  Rested(EndOfLine(p)) /\ Rested(EndOfLine(Modes(p)))
<1>1. ASSUME NEW q \in Parsers PROVE Rested(EndOfLine(q))
  <2> DEFINE r == EndOfLine(q)
  <2>1. /\ r.seen = {} /\ r.last_field = NoWord /\ r.first = TRUE
        /\ r.relative = q.relative
        /\ r.val = [q.val EXCEPT !["*"] = 0, !["G"] = 0,
                                 !["X"] = IF q.relative THEN 0 ELSE q.val["X"]]
    BY DEF EndOfLine, Parsers
  <2>2. q.val \in [Numbered -> Int] /\ "X" \in Numbered
    BY DEF Parsers, Numbered
  <2> HIDE DEF r
  <2>3. r.val["X"] = IF q.relative THEN 0 ELSE q.val["X"]
    BY <2>1, <2>2
  <2>4. QED
    BY <2>1, <2>3 DEF Rested, r
<1>2. Modes(p) \in Parsers
  BY DEF Modes, Parsers
<1>3. QED
  BY <1>1, <1>2

\* process_gcode_command acts on what the line says.
LEMMA LineExecuted ==
  ASSUME next_target \in Parsers, Rested(next_target),
         NEW line \in Seq(Words), line # <<>>,
         process_gcode_command(line, Parsed(line))
  PROVE  PlainLines'
<1> DEFINE p == Parsed(line)
           gm == LastOf(line, {"G", "M"})
           xs == LastOf(line, {"X"})
           ss == LastOf(line, {"S"})
<1>0. /\ last'.line = line
      /\ last'.clean => line[Len(line)] = LF /\ ~next_target.getting_string
      /\ last'.letter = Letter(p)
      /\ last'.number = IF Letter(p) = "none" THEN 0 ELSE p.val[Letter(p)]
      /\ last'.x = Target(p) /\ last'.s = p.val["S"] /\ last'.inches = p.inches
  BY DEF process_gcode_command
<1> SUFFICES ASSUME Plain(line), line[Len(line)] = LF, ~next_target.getting_string
             PROVE  /\ Letter(p) = gm.f
                    /\ (IF Letter(p) = "none" THEN 0 ELSE p.val[Letter(p)])
                         = FieldValue(gm, FALSE)
                    /\ Target(p) = FieldValue(xs, p.inches)
                    /\ ss # NoWord => p.val["S"] = FieldValue(ss, FALSE)
  BY <1>0 DEF PlainLines, LinesIndependent
<1> HIDE DEF p, gm, xs, ss
<1>1. next_target.getting_string = FALSE
  BY DEF Parsers
<1>2. Follows(p, next_target, line, Len(line))
  BY <1>1, LineFollows DEF p
<1>3. Len(line) > 0
  BY EmptySeq
<1>4. p.last_field = NoWord
  BY <1>2, <1>3 DEF Follows
<1>5. \A l \in Numbered : Value(p, l) = p.val[l]
  BY <1>4 DEF Value, NoWord, Numbered
<1>6. /\ NoWord.f = "none" /\ \A b : FieldValue(NoWord, b) = 0
      /\ "G" \in Numbered /\ "M" \in Numbered /\ "X" \in Numbered /\ "S" \in Numbered
  BY DEF NoWord, Numbered, FieldValue
<1>7. \/ gm = NoWord /\ "G" \notin p.seen /\ "M" \notin p.seen
      \/ /\ gm.f \in {"G", "M"} /\ Value(p, gm.f) = FieldValue(gm, p.inches)
         /\ "G" \in p.seen <=> "G" = gm.f
         /\ "M" \in p.seen <=> "M" = gm.f
  <2>1. Reads(p, line, Len(line), {"G", "M"})
    BY <1>2 DEF Follows
  <2>2. QED
    BY <2>1, ReadsLast DEF gm
<1>8. \/ xs = NoWord /\ "X" \notin p.seen
      \/ xs.f = "X" /\ Value(p, "X") = FieldValue(xs, p.inches) /\ "X" \in p.seen
  <2>1. Reads(p, line, Len(line), {"X"})
    BY <1>2 DEF Follows
  <2>2. QED
    BY <2>1, ReadsLast DEF xs
<1>9. ss # NoWord => ss.f = "S" /\ Value(p, "S") = FieldValue(ss, p.inches)
  <2>1. Reads(p, line, Len(line), {"S"})
    BY <1>2 DEF Follows
  <2>2. QED
    BY <2>1, ReadsLast DEF ss
<1>10. /\ Letter(p) = gm.f
       /\ (IF Letter(p) = "none" THEN 0 ELSE p.val[Letter(p)]) = FieldValue(gm, FALSE)
  <2>1. CASE gm = NoWord /\ "G" \notin p.seen /\ "M" \notin p.seen
    BY <1>6, <2>1 DEF Letter
  <2>2. CASE /\ gm.f \in {"G", "M"} /\ Value(p, gm.f) = FieldValue(gm, p.inches)
             /\ "G" \in p.seen <=> "G" = gm.f
             /\ "M" \in p.seen <=> "M" = gm.f
    <3>1. Letter(p) = gm.f /\ Letter(p) # "none"
      BY <2>2 DEF Letter
    <3>2. p.val[gm.f] = FieldValue(gm, FALSE)
      <4>1. gm.f \in Numbered /\ gm.f \in {"G", "M", "S"}
        BY <1>6, <2>2
      <4>2. p.val[gm.f] = Value(p, gm.f)
        BY <1>5, <4>1
      <4>3. FieldValue(gm, p.inches) = FieldValue(gm, FALSE)
        BY <4>1 DEF FieldValue
      <4>4. QED
        BY <2>2, <4>2, <4>3
    <3>3. QED
      BY <3>1, <3>2
  <2>3. QED
    BY <1>7, <2>1, <2>2
<1>11. Target(p) = FieldValue(xs, p.inches)
  <2>1. CASE "X" \in p.seen
    BY <1>5, <1>6, <1>8, <2>1 DEF Target
  <2>2. CASE "X" \notin p.seen
    <3>1. p.val["X"] = Value(next_target, "X") /\ p.relative = next_target.relative
      BY <1>2, <1>5, <1>6, <2>2 DEF Follows
    <3>2. Value(next_target, "X") = next_target.val["X"]
      BY DEF Rested, Value, NoWord
    <3>3. p.relative => p.val["X"] = 0
      BY <3>1, <3>2 DEF Rested
    <3>4. QED
      BY <1>6, <1>8, <2>2, <3>3 DEF Target
  <2>3. QED
    BY <2>1, <2>2
<1>12. ss # NoWord => p.val["S"] = FieldValue(ss, FALSE)
  <2>1. SUFFICES ASSUME ss # NoWord PROVE p.val["S"] = FieldValue(ss, FALSE)
    OBVIOUS
  <2>2. ss.f = "S" /\ p.val["S"] = FieldValue(ss, p.inches)
    BY <1>5, <1>6, <1>9, <2>1
  <2>3. QED
    BY <2>2 DEF FieldValue
<1>13. QED
  BY <1>10, <1>11, <1>12

\* Outside process_gcode_command nothing is executed.
LEMMA NothingExecuted == ASSUME last' = Nothing PROVE PlainLines'
<1>1. last'.clean = FALSE
  BY DEF Nothing
<1>2. QED
  BY <1>1 DEF PlainLines, LinesIndependent

LEMMA LinesStep ==
  ASSUME TypeOK, Rested(next_target), PlainLines, [Next]_vars
  PROVE  Rested(next_target') /\ PlainLines'
<1>1. ASSUME NEW line \in Seq(Words), line # <<>>, NEW stray,
             gcode_parse_line(line, stray)
      PROVE  Rested(next_target') /\ PlainLines'
  <2>1. next_target \in Parsers /\ Parsed(line) \in Parsers
    BY ParsedType DEF TypeOK
  <2>2. CASE RejectLine(Parsed(line)) \/ WriteLine(line, Parsed(line), stray)
    <3>1. next_target' = EndOfLine(Parsed(line)) /\ last' = Nothing
      BY <2>2 DEF RejectLine, WriteLine
    <3>2. QED
      BY <2>1, <3>1, EndRests, NothingExecuted
  <2>3. CASE process_gcode_command(line, Parsed(line))
    <3>1. next_target' = EndOfLine(Modes(Parsed(line)))
      BY <2>3 DEF process_gcode_command
    <3>2. QED
      BY <1>1, <2>1, <2>3, <3>1, EndRests, LineExecuted
  <2>4. QED
    BY <1>1, <2>2, <2>3 DEF gcode_parse_line
<1>2. CASE ParseSerial \/ ParseSD
  BY <1>1, <1>2 DEF ParseSerial, ParseSD, TypeOK
<1>3. CASE SerialLine \/ SerialNothing \/ sd_read_file \/ NoRead \/ NoParse
  <2>1. next_target' = next_target /\ last' = Nothing
    BY <1>3 DEF SerialLine, SerialNothing, sd_read_file, NoRead, NoParse
  <2>2. QED
    BY <2>1, NothingExecuted
<1>4. CASE UNCHANGED vars
  BY <1>4 DEF vars, PlainLines, LinesIndependent
<1>5. QED
  BY <1>2, <1>3, <1>4 DEF Next

\* The command, the coordinate and the S that a complete line gives are those
\* that gcode_parse_line and process_gcode_command act on, whatever lines, of
\* whichever source and length, were read before it; earlier lines decide the
\* unit of the coordinate, and the S of a line that gives none.  The line gives
\* M23 and M28 a name, if anything: the parser takes the next word that
\* completes a field for the name, and a letter or a comment there is one that
\* the line and the parser may read differently.
THEOREM LoopLines == Spec => [](Plain(last.line) => LinesIndependent)
<1>1. Init => Rested(next_target) /\ PlainLines
  BY DEF Init, Rested, PlainLines, LinesIndependent, Nothing
<1>2. TypeOK /\ (Rested(next_target) /\ PlainLines) /\ [Next]_vars
        => (Rested(next_target) /\ PlainLines)'
  BY LinesStep
<1>3. PlainLines => (Plain(last.line) => LinesIndependent)
  BY DEF PlainLines
<1>4. QED
  BY <1>1, <1>2, <1>3, LoopTypes, PTL DEF Spec

=============================================================================
