------------------------------- MODULE LsShow --------------------------------
(***************************************************************************)
(* What ls.c computes from the files it has found: their order, their      *)
(* places on the lines of the terminal, and the conversions of modes,      *)
(* sizes and links.  Nothing here reads the file system.                   *)
(*                                                                         *)
(* Names are numbers, in the order that strcmp gives them.  The settings   *)
(* that the options leave behind are a record c (Settings of module Ls); a *)
(* file is a record with its name, its dstat and, for a link, the dstat    *)
(* "end" of what it leads to.                                              *)
(***************************************************************************)
EXTENDS Integers, FiniteSets, FiniteSetsExt, SequencesExt

CONSTANTS
  NameLen,    \* the length of each name
  IntHalf,    \* 2^31: an int holds -2^31 to 2^31 - 1
  ShortHalf,  \* 2^15, likewise for a short
  Kilo        \* KILOBYTE

ASSUME ShowConstants ==
  /\ \A n \in DOMAIN NameLen : n \in Nat /\ NameLen[n] \in Nat \ {0}
  /\ {IntHalf, ShortHalf, Kilo} \subseteq Nat \ {0}

\* A name with all that column_width adds to it fits a short.
ASSUME ShortNames == \A n \in DOMAIN NameLen : NameLen[n] + 15 < ShortHalf

COLUMN_GAP == 2
GROWBY == 80

\* A loop: x after n rounds of its body, a function on its states.
Repeat(body, n, x) ==
  LET round[k \in 0..n] == IF k = 0 THEN x ELSE body[round[k - 1]] IN round[n]

-----------------------------------------------------------------------------
(* The order of a listing.                                                 *)

Sign(d) == IF d > 0 THEN 1 ELSE IF d < 0 THEN -1 ELSE 0

\* (int) of a difference of two 64-bit numbers.
ToInt(d) == ((d + IntHalf) % (2 * IntHalf)) - IntHalf

\* Mutant: files that are equal in size or time stay as they are.
SortcmpUntied(d1, d2, c) ==
  LET dif == IF c.sort = "name" THEN d2.name - d1.name
             ELSE ToInt(d1.dstat[c.sort] - d2.dstat[c.sort])
  IN IF c.reverse THEN Sign(dif) ELSE -Sign(dif)

\* sortcmp: large and late files first; ties are broken by name.
Sortcmp(d1, d2, c) ==
  LET dif == IF c.sort = "name" THEN 0 ELSE ToInt(d1.dstat[c.sort] - d2.dstat[c.sort])
      cmp == IF dif # 0 THEN -Sign(dif) ELSE Sign(d1.name - d2.name)
  IN IF c.reverse THEN -cmp ELSE cmp

\* Mutant: the last pass, of neighbours, is left out.
NextGapDown(gap) == (gap - 1) \div 2

NextGap(gap) == gap \div 2

\* shellsort of an array of nodes, the keys of file.  The innermost loop swaps
\* the node at i down by gaps, while it is out of order;
Arrays(dn) == [DOMAIN dn -> ToSet(dn)]
Swapped(dn, j, k) == [dn EXCEPT ![j] = dn[k], ![k] = dn[j]]
Sink(dn, gap, i, file, c) ==
  LET body == [s \in [dn : Arrays(dn), j : Int] |->
        IF s.j < 1 \/ Sortcmp(file[s.dn[s.j]], file[s.dn[s.j + gap]], c) <= 0
          THEN [s EXCEPT !.j = 0]
          ELSE [dn |-> Swapped(s.dn, s.j, s.j + gap), j |-> s.j - gap]]
  IN Repeat(body, i, [dn |-> dn, j |-> i - gap]).dn

\* the next one does so for each i beyond the first gap,
Pass(dn, gap, file, c) ==
  LET body == [s \in [dn : Arrays(dn), i : Nat] |->
        [dn |-> Sink(s.dn, gap, s.i, file, c), i |-> s.i + 1]]
  IN Repeat(body, Len(dn) - gap, [dn |-> dn, i |-> gap + 1]).dn

\* and the outermost for gaps down to 1.
Shellsort(dn, file, c) ==
  LET body == [s \in [dn : Arrays(dn), gap : Nat] |->
        IF s.gap = 0 THEN s ELSE [dn |-> Pass(s.dn, s.gap, file, c), gap |-> NextGap(s.gap)]]
  IN Repeat(body, Len(dn), [dn |-> dn, gap |-> Len(dn) \div 2]).dn

-----------------------------------------------------------------------------
(* One file.                                                               *)

\* append_char, of a dstat; "" is none.
AppendChar(s, c) ==
  CASE "FILETYPE" \notin c.list -> ""
    [] "EXEC" \in c.list /\ s.type = "reg" /\ s.exec -> "*"
    [] OTHER -> CASE s.type = "dir" -> "/" [] s.type = "lnk" -> "@"
                  [] s.type = "fifo" -> "|" [] s.type = "sock" -> "=" [] OTHER -> ""

\* The mark of a link that is shown with its target is the target's.
Mark(dn, c) ==
  AppendChar(IF "SYMLINK" \in c.list /\ dn.dstat.type = "lnk" /\ dn.end.type # "none"
               THEN dn.end ELSE dn.dstat, c)

\* By how much list_single moves "column" for a field,
Counted(f, dn, c) ==
  CASE f = "INO" -> 8 [] f = "BLOCKS" -> 5
    [] f \in {"MODEBITS", "NLINKS", "SIZE"} -> 10
    [] f \in {"ID_NAME", "ID_NUMERIC"} -> 17
    [] f \in {"DATE_TIME", "FULLTIME"} -> IF "FULLTIME" \in c.list THEN 25 ELSE 13
    [] f = "FILENAME" -> NameLen[dn.name]
    [] f = "SYMLINK" -> IF dn.dstat.type = "lnk" THEN dn.dstat.size + 4 ELSE 0
    [] f = "FILETYPE" -> IF Mark(dn, c) = "" THEN 0 ELSE 1

\* and how many characters it prints, of numbers that fit in their fields.
\* The blocks are printed three times; the size twice, unless -h makes it short.
Printed(f, dn, c) ==
  CASE f = "BLOCKS" -> 17 [] f = "MODEBITS" -> 11 [] f = "NLINKS" -> 5
    [] f = "SIZE" -> IF c.hr THEN 9 ELSE 20
    [] OTHER -> Counted(f, dn, c)

\* All fields that the options choose.
Fields == {"INO", "BLOCKS", "MODEBITS", "NLINKS", "ID_NAME", "ID_NUMERIC", "SIZE",
           "DATE_TIME", "FULLTIME", "FILENAME", "SYMLINK", "FILETYPE"}
Columns(width, c) ==
  LET W(f) == IF f \in c.list THEN width[f] ELSE 0
  IN W("INO") + W("BLOCKS") + W("MODEBITS") + W("NLINKS") + W("ID_NAME") + W("ID_NUMERIC")
     + W("SIZE") + W("DATE_TIME") + W("FULLTIME") + W("FILENAME") + W("SYMLINK") + W("FILETYPE")

-----------------------------------------------------------------------------
(* showfiles: files, a sequence of dnodes, on the lines of the terminal.   *)

ColumnWidth(files, c) ==
  Max({NameLen[files[i].name] + (IF "INO" \in c.list THEN 8 ELSE 0)
                              + (IF "BLOCKS" \in c.list THEN 5 ELSE 0) : i \in DOMAIN files})

\* Mutant: the gap between the columns is forgotten.
NColsTight(files, c) ==
  IF c.style \in {"LONG", "SINGLE"} THEN 1
  ELSE Max({1, c.width \div ColumnWidth(files, c)})

NCols(files, c) ==
  IF c.style \in {"LONG", "SINGLE"} THEN 1
  ELSE Max({1, c.width \div (ColumnWidth(files, c) + COLUMN_GAP)})

\* Mutant: fractions are not rounded up.
NRowsDown(files, c) == Max({1, Len(files) \div NCols(files, c)})

NRows(files, c) == (Len(files) + NCols(files, c) - 1) \div NCols(files, c)

\* nexttab is a short; column, and the width of the terminal, are unsigned ones.
ToShort(d) == ((d + ShortHalf) % (2 * ShortHalf)) - ShortHalf
ToUshort(d) == d % (2 * ShortHalf)

\* nexttabstop and list_single: "column" is what the program believes, "real"
\* where the cursor is.
Place(line, dn, width, c) ==
  LET n == IF line.column = 0 THEN 0 ELSE Max({1, line.nexttab - line.column})
      column == ToUshort(line.column + n)
      to == line.real + n + Columns([f \in Fields |-> Printed(f, dn, c)], c)
  IN [column |-> ToUshort(column + Columns([f \in Fields |-> Counted(f, dn, c)], c)),
      nexttab |-> ToShort(column + width + COLUMN_GAP),
      real |-> to,
      cells |-> Append(line.cells, [dn |-> dn, at |-> line.real + n, to |-> to])]
NewLine == [column |-> 0, nexttab |-> 0, real |-> 0, cells |-> << >>]
LinesOf(files) == [column : Nat, nexttab : Int, real : Nat,
                   cells : Seq([dn : ToSet(files), at : Nat, to : Nat])]

\* Where the array has the file for a row and a column, from 0.
Index(files, c, row, nc) ==
  IF "ROWS" \in c.disp THEN row * NCols(files, c) + nc ELSE nc * NRows(files, c) + row

\* A row: the columns from left to right that the array has a file for.
Row(files, c, row) ==
  LET body == [s \in [line : LinesOf(files), nc : Nat] |->
        [nc |-> s.nc + 1,
         line |-> IF Index(files, c, row, s.nc) < Len(files)
                    THEN Place(s.line, files[Index(files, c, row, s.nc) + 1],
                               ColumnWidth(files, c), c)
                    ELSE s.line]]
  IN Repeat(body, NCols(files, c), [nc |-> 0, line |-> NewLine]).line.cells

Showfiles(files, c) == [r \in 1..NRows(files, c) |-> Row(files, c, r - 1)]

-----------------------------------------------------------------------------
(* Conversions.                                                            *)

FileTypes == {"fifo", "chr", "dir", "blk", "reg", "lnk", "sock"}
TypeChar(type) ==
  CASE type = "fifo" -> "p" [] type = "chr" -> "c" [] type = "dir" -> "d"
    [] type = "blk" -> "b" [] type = "reg" -> "-" [] type = "lnk" -> "l" [] type = "sock" -> "s"

MODE1 == <<"r", "w", "x", "r", "w", "x", "r", "w", "x">>
SMODE1 == [i \in {3, 6, 9} |-> IF i = 9 THEN "t" ELSE "s"]
SMODE0 == [i \in {3, 6, 9} |-> IF i = 9 THEN "T" ELSE "S"]

\* mode_string: perm, the bits of MBIT that are set, and special, those of SBIT.
ModeString(type, perm, special) ==
  [i \in 0..9 |->
     IF i = 0 THEN TypeChar(type)
     ELSE IF i \in special THEN (IF i \in perm THEN SMODE1[i] ELSE SMODE0[i])
     ELSE IF i \in perm THEN MODE1[i] ELSE "-"]

\* The modes of the files that a listing has most of.
Modes == {<<t, p, s>> : t \in {"reg", "dir", "lnk"}, p \in SUBSET (1..9), s \in SUBSET {3, 6, 9}}

\* Mutant: the fraction is not carried.
CarryNot(r) == r

\* make_human_readable_str of a size in bytes: val, tenths, and how often it
\* divided by Kilo, at most four times, to make a number short; or with a unit
\* to display it in, the nearest number of units.
Carry(r) == IF r.frac >= 10 THEN [r EXCEPT !.val = @ + 1, !.frac = 0] ELSE r
Shorten(r) ==
  IF r.val < Kilo THEN r
  ELSE [val |-> r.val \div Kilo, units |-> r.units + 1,
        frac |-> ((r.val % Kilo) * 10 + Kilo \div 2) \div Kilo]
HumanReadable(size, display_unit) ==
  IF display_unit # 0
    THEN [val |-> (size + display_unit \div 2) \div display_unit, units |-> 0, frac |-> 0]
    ELSE Carry(Shorten(Shorten(Shorten(Shorten([val |-> size, units |-> 0, frac |-> 0])))))

\* How much one of its units stands for.
Unit(u) == Repeat([p \in Nat |-> p * Kilo], u, 1)

\* xreadlink: the buffer grows until it holds the text of the link and a zero.
Enough(bufsize, readsize) == bufsize >= readsize + 1
ReadlinkBuffer(len) ==
  LET readsize(buf) == Min({len, buf})
  IN Min({k * GROWBY : k \in {j \in 1..(len \div GROWBY + 2) :
                                Enough(j * GROWBY, readsize(j * GROWBY))}})
=============================================================================
