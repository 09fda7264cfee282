---------------------------- MODULE SheetStrings ----------------------------
(***************************************************************************)
(* How a legacy workbook is read (internal/oree/parser.go, and the same    *)
(* code again in internal/askoe/biff.go): the shared table of strings,     *)
(* which a writer may continue in further records, and the cells of the    *)
(* first sheet that point into it.  Bytes are numbers; what a record holds *)
(* apart from strings is left out.                                         *)
(***************************************************************************)
EXTENDS Integers, Sequences, FiniteSets, SequencesExt

CONSTANTS
  SheetTables,   \* tables a writer may write, see Written
  Workbook       \* the records after the table: [id, row, isst], id "BOF", "EOF", "LABELSST"

VARIABLES
  sheetTable,    \* what the writer wrote
  frags,         \* the payloads of the SST record and of its CONTINUE records
  reader,        \* fragReader: fragment, offset, and whether an edge was just crossed
  entry,         \* the string being read, NoEntry between strings
  sst,           \* the strings read
  cells,         \* row -> string of the first sheet
  sheetPc        \* "table" | "done" | "failed"

sheetVars == <<sheetTable, frags, reader, entry, sst, cells, sheetPc>>

NoEntry == [remaining |-> -1, wide |-> FALSE, text |-> <<>>, extra |-> 0]
Cut == -1
Flag(wide) == IF wide THEN 1 ELSE 0
Bytes(text, wide) ==
  FlattenSeq([i \in DOMAIN text |->
    IF wide THEN <<text[i] % 256, text[i] \div 256>> ELSE <<text[i]>>])
Fill(n) == [i \in 1..n |-> 0]

\* A string as a writer puts it down: cut is where the record is continued,
\* "head" before its header, "runs" before its formatting, "chars" before its
\* character at, where the flag is repeated and the width may change to tail.
Written(s) ==
  LET rich  == IF s.runs > 0 THEN 8 ELSE 0
      asian == IF s.phonetic > 0 THEN 4 ELSE 0
      head  == <<Len(s.text), 0, Flag(s.wide) + rich + asian>>
               \o (IF s.runs > 0 THEN <<s.runs, 0>> ELSE <<>>)
               \o (IF s.phonetic > 0 THEN <<s.phonetic, 0, 0, 0>> ELSE <<>>)
      body  == IF s.cut = "chars"
               THEN Bytes(SubSeq(s.text, 1, s.at - 1), s.wide) \o <<Cut, Flag(s.tail)>>
                    \o Bytes(SubSeq(s.text, s.at, Len(s.text)), s.tail)
               ELSE Bytes(s.text, s.wide)
  IN  (IF s.cut = "head" THEN <<Cut>> ELSE <<>>) \o head \o body
      \o (IF s.cut = "runs" THEN <<Cut>> ELSE <<>>) \o Fill(4 * s.runs + s.phonetic)
Fragments(items) ==
  FoldLeft(LAMBDA fs, b : IF b = Cut THEN Append(fs, <<>>)
                          ELSE [fs EXCEPT ![Len(fs)] = Append(@, b)], <<(<<>>)>>, items)

-----------------------------------------------------------------------------
(* fragReader *)

AtEnd(r) == r.fIdx > Len(frags)
advanceIfEmpty(r) ==
  LET ahead == {f \in r.fIdx + 1 .. Len(frags) : frags[f] # <<>>}
  IN  IF AtEnd(r) \/ r.off < Len(frags[r.fIdx]) THEN r
      ELSE [fIdx |-> IF ahead = {} THEN Len(frags) + 1
                     ELSE CHOOSE f \in ahead : \A g \in ahead : f <= g,
            off |-> 0, atEdge |-> TRUE]

\* n bytes across fragments; ok is FALSE at the unexpected end.
ReadByte(got) ==
  LET r == advanceIfEmpty(got.r)
  IN  IF ~got.ok \/ AtEnd(r) THEN [got EXCEPT !.ok = FALSE]
      ELSE [ok |-> TRUE, r |-> [r EXCEPT !.off = @ + 1],
            bytes |-> Append(got.bytes, frags[r.fIdx][r.off + 1])]
Read(r, n) ==
  FoldLeft(LAMBDA got, i : ReadByte(got), [ok |-> TRUE, r |-> r, bytes |-> <<>>],
           [i \in 1..n |-> i])

Bit(flags, b) == (flags \div b) % 2 = 1
Low(bytes, i) == bytes[i] + 256 * bytes[i + 1]

SheetFails ==
  /\ sheetPc' = "failed"
  /\ UNCHANGED <<sheetTable, frags, reader, entry, sst, cells>>

\* The header, with the counts of what will follow the characters.
ReadHeader ==
  LET hdr  == Read(reader, 3)
      rich == hdr.ok /\ Bit(hdr.bytes[3], 8)
      far  == hdr.ok /\ Bit(hdr.bytes[3], 4)
      more == Read(hdr.r, (IF rich THEN 2 ELSE 0) + (IF far THEN 4 ELSE 0))
  IN  /\ sheetPc = "table" /\ entry = NoEntry /\ Len(sst) < Len(sheetTable)
      /\ IF ~hdr.ok \/ ~more.ok THEN SheetFails
         ELSE /\ entry' = [remaining |-> Low(hdr.bytes, 1), wide |-> Bit(hdr.bytes[3], 1),
                           text |-> <<>>,
                           extra |-> (IF rich THEN 4 * Low(more.bytes, 1) ELSE 0)
                                     + (IF far THEN Low(more.bytes, IF rich THEN 3 ELSE 1) ELSE 0)]
              /\ reader' = more.r
              /\ UNCHANGED <<sheetTable, frags, sst, cells, sheetPc>>

\* One turn of readString: the flag byte behind an edge, then the characters
\* that the fragment holds whole.
BehindEdgeWidthKept(r) ==
  LET flag == Read([r EXCEPT !.atEdge = FALSE], 1)
  IN  IF r.atEdge THEN [flag |-> flag.ok, wide |-> entry.wide, r |-> advanceIfEmpty(flag.r)]
      ELSE [flag |-> TRUE, wide |-> entry.wide, r |-> r]
BehindEdge(r) ==
  LET flag == Read([r EXCEPT !.atEdge = FALSE], 1)
  IN  IF r.atEdge
      THEN [flag |-> flag.ok, wide |-> flag.ok /\ Bit(flag.bytes[1], 1),
            r |-> advanceIfEmpty(flag.r)]
      ELSE [flag |-> TRUE, wide |-> entry.wide, r |-> r]
ReadChars ==
  LET start == advanceIfEmpty(reader)
      next  == BehindEdge(start)
      cur   == frags[next.r.fIdx]
      size  == IF next.wide THEN 2 ELSE 1
      can   == (Len(cur) - next.r.off) \div size
      take  == IF can > entry.remaining THEN entry.remaining ELSE can
      Char(i) == LET at == next.r.off + size * (i - 1) + 1
                 IN  IF next.wide THEN Low(cur, at) ELSE cur[at]
  IN  /\ sheetPc = "table" /\ entry.remaining > 0
      /\ IF AtEnd(start) \/ ~next.flag \/ AtEnd(next.r) THEN SheetFails
         ELSE /\ can > 0
              /\ entry' = [entry EXCEPT !.remaining = @ - take, !.wide = next.wide,
                                        !.text = @ \o [i \in 1..take |-> Char(i)]]
              /\ reader' = [next.r EXCEPT !.off = @ + size * take]
              /\ UNCHANGED <<sheetTable, frags, sst, cells, sheetPc>>

\* A character whose two bytes lie on both sides of an edge: the flag between
\* them is read, and the edge stays marked for the next turn.
SpliceChar ==
  LET start == advanceIfEmpty(reader)
      next  == BehindEdge(start)
      cur   == frags[next.r.fIdx]
      over  == [fIdx |-> next.r.fIdx + 1, off |-> 0, atEdge |-> TRUE]
      flag  == Read(over, 1)
      byte  == Read(advanceIfEmpty(flag.r), 1)
      wide  == flag.ok /\ Bit(flag.bytes[1], 1)
  IN  /\ sheetPc = "table" /\ entry.remaining > 0
      /\ ~AtEnd(start) /\ next.flag /\ ~AtEnd(next.r)
      /\ next.wide /\ Len(cur) - next.r.off = 1
      /\ IF ~flag.ok \/ ~byte.ok THEN SheetFails
         ELSE /\ entry' = [entry EXCEPT
                   !.remaining = @ - 1, !.wide = wide,
                   !.text = Append(@, IF wide THEN cur[next.r.off + 1] + 256 * byte.bytes[1]
                                      ELSE byte.bytes[1])]
              /\ reader' = byte.r
              /\ UNCHANGED <<sheetTable, frags, sst, cells, sheetPc>>

\* What follows the characters is passed over.
EndString ==
  LET got == Read(reader, entry.extra)
  IN  /\ sheetPc = "table" /\ entry.remaining = 0
      /\ IF ~got.ok THEN SheetFails
         ELSE /\ sst' = Append(sst, entry.text) /\ entry' = NoEntry /\ reader' = got.r
              /\ UNCHANGED <<sheetTable, frags, cells, sheetPc>>

\* The label cells between the second BOF and its EOF; one whose index the table
\* does not have is left out.
SheetLabels ==
  LET Bofs(i) == Cardinality({j \in 1..i : Workbook[j].id = "BOF"})
      Ends(i) == {j \in 1..i : Bofs(j) >= 2 /\ Workbook[j].id = "EOF"}
  IN  {i \in DOMAIN Workbook : Workbook[i].id = "LABELSST" /\ Bofs(i) >= 2 /\ Ends(i) = {}}
WalkSheet ==
  /\ sheetPc = "table" /\ entry = NoEntry /\ Len(sst) = Len(sheetTable)
  /\ sheetPc' = "done"
  /\ LET known == {i \in SheetLabels : Workbook[i].isst < Len(sst)}
         Latest(row) == CHOOSE i \in known : Workbook[i].row = row
                                  /\ \A j \in known : Workbook[j].row = row => j <= i
     IN  cells' = [row \in {Workbook[i].row : i \in known} |-> sst[Workbook[Latest(row)].isst + 1]]
  /\ UNCHANGED <<sheetTable, frags, reader, entry, sst>>

SheetInit ==
  /\ sheetTable \in SheetTables
  /\ frags = Fragments(FlattenSeq([k \in DOMAIN sheetTable |-> Written(sheetTable[k])]))
  /\ reader = [fIdx |-> 1, off |-> 0, atEdge |-> FALSE]
  /\ entry = NoEntry /\ sst = <<>> /\ cells = <<>> /\ sheetPc = "table"

SheetNext == ReadHeader \/ ReadChars \/ SpliceChar \/ EndString \/ WalkSheet

-----------------------------------------------------------------------------
(* Properties *)

AsWritten ==
  /\ sheetPc # "failed"
  /\ sheetPc = "done" =>
       /\ \A k \in DOMAIN sheetTable : sst[k] = sheetTable[k].text
       /\ \A row \in DOMAIN cells : \E i \in SheetLabels :
            /\ Workbook[i].row = row
            /\ cells[row] = sheetTable[Workbook[i].isst + 1].text

\* "When a string straddles a record boundary, the encoding flag byte is repeated
\* at the start of the next fragment and may switch": a table whose only cuts are
\* inside the characters of its strings is read as it was written, wherever the
\* cut falls and whatever follows the characters (parser.go readSST, readString).
StraddlingStringsRead ==
  (\A k \in DOMAIN sheetTable : sheetTable[k].cut \in {"chars", "none"}) => AsWritten

\* The same of tables cut between strings, where no flag is repeated because no
\* string straddles the boundary.
ContinuedTablesRead ==
  (\A k \in DOMAIN sheetTable : sheetTable[k].cut \in {"head", "none"}) => AsWritten

=============================================================================
