------------------------------ MODULE LsProps -------------------------------
(***************************************************************************)
(* What ls (module Ls) has to satisfy: what it prints against what is      *)
(* there, and the memory of its dnodes.                                    *)
(***************************************************************************)
EXTENDS Ls

(***************************************************************************)
(* The nodes that showdirs and its callers still go through have not been  *)
(* freed, and neither have those that dfree will follow: the dnodes of a   *)
(* directory outlive the recursion into its subdirectories, which borrows  *)
(* them, and go back once.  Chains end, since each node points at an older *)
(* one, and no loop runs beyond its array.                                 *)
(***************************************************************************)
NodesLive ==
  /\ DOMAIN heap \subseteq 1..made /\ dn \in DOMAIN heap \cup {0}
  /\ \A id \in DOMAIN heap : heap[id].next < id
  /\ \A k \in DOMAIN stack :
       /\ stack[k].i \in 1..(Len(stack[k].dn) + 1)
       /\ \A id \in ToSet(stack[k].dn) \cup ToSet(stack[k].sub) :
            id \in DOMAIN heap /\ heap[id].next \in DOMAIN heap \cup {0}

-----------------------------------------------------------------------------
(* What is printed.                                                        *)

Listings == {k \in DOMAIN out : out[k].files # << >>}
Newest == Listings \cap {Len(out)}
Lines(k) == Showfiles(out[k].files, c)
Positions(lines) == UNION {{<<r, n>> : n \in DOMAIN lines[r]} : r \in DOMAIN lines}
FileAt(lines, p) == lines[p[1]][p[2]].dn
DnodesOf(lines) == {FileAt(lines, p) : p \in Positions(lines)}

\* One reads down the columns, or across the rows with -x.
Sooner(p, q) ==
  IF "ROWS" \in c.disp THEN p[1] < q[1] \/ (p[1] = q[1] /\ p[2] < q[2])
  ELSE p[2] < q[2] \/ (p[2] = q[2] /\ p[1] < q[1])

\* a comes before b: the larger or later one, of equal ones the first by name.
Before(a, b) ==
  LET first == IF c.reverse THEN b ELSE a
      other == IF c.reverse THEN a ELSE b
      Key(d) == IF c.sort = "name" THEN 0 ELSE d.dstat[c.sort]
  IN Key(first) > Key(other) \/ (Key(first) = Key(other) /\ first.name < other.name)

\* No two sizes or times are too far apart for an int.
Comparable(files) ==
  c.sort = "name" \/
  \A i, j \in DOMAIN files : files[i].dstat[c.sort] - files[j].dstat[c.sort] < IntHalf

(***************************************************************************)
(* A listing is in the order the options ask for, read down the columns,   *)
(* or across the rows with -x: the gaps of shellsort leave nothing out of  *)
(* place, ties by name, also in reverse.  sortcmp narrows differences to   *)
(* an int: for those that do not fit nothing is claimed.                   *)
(***************************************************************************)
InOrder ==
  \A k \in Newest : LET lines == Lines(k) IN
    Comparable(out[k].files) =>
      \A p, q \in Positions(lines) :
        Sooner(p, q) => ~Before(FileAt(lines, q), FileAt(lines, p))

(***************************************************************************)
(* In columns, of names with or without inode numbers and type marks: rows *)
(* of several files fit the terminal, columns line up, and names do not    *)
(* run into each other, whatever width the terminal reports or -w gives it *)
(* (negative numbers wrap), up to what a short holds: beyond that, tab     *)
(* stops do not.                                                           *)
(***************************************************************************)
LaidOut ==
  /\ c.style = "COLUMNS" /\ c.width < ShortHalf
  /\ c.list \subseteq {"INO", "FILENAME", "FILETYPE", "EXEC"}
  => \A k \in Newest : LET lines == Lines(k)
                           Cell(p) == lines[p[1]][p[2]]
                       IN \A p, q \in Positions(lines) :
      /\ p[2] > 1 => Cell(p).to <= c.width
      /\ p[2] = q[2] => Cell(p).at = Cell(q).at
      /\ p[1] = q[1] /\ p[2] < q[2] => Cell(p).to < Cell(q).at

-----------------------------------------------------------------------------
(* What is there.                                                          *)

Nothing == [type |-> "none"]
InodeInfo[ino \in Inodes] == IF ino = None THEN Nothing ELSE Attr[ino]
Info(path) == InodeInfo[IF c.follow THEN Stat(path) ELSE Lstat(path)]
Exists(path) == Info(path) # Nothing
Names(k) == {d.fullname : d \in DnodesOf(Lines(k))}
Shown == UNION {Names(k) : k \in Listings}

\* ls should list this directory; what it should show of it.
Enters(path) ==
  /\ Info(path).type = "dir"
  /\ IF Len(path) = 1 THEN "NOLIST" \notin c.disp
     ELSE "RECURSIVE" \in c.disp /\ Last(path) \notin {Dot, DotDot}
NamesIn[ino \in Inodes] == IF ino = None THEN {} ELSE DOMAIN entries[ino]
Listed(n) == \/ n \notin Hidden \/ "DOT" \in c.disp
             \/ "HIDDEN" \in c.disp /\ n \notin {Dot, DotDot}
Within(path) == {Append(path, n) : n \in {m \in NamesIn[Opendir(path)] : Listed(m)}}

Paths == Seq(DOMAIN NameLen)
Present[path \in Paths] == {p \in Within(path) : Exists(p)}

Arguments == IF cmd.args = << >> THEN {<<Dot>>} ELSE {<<cmd.args[k]>> : k \in DOMAIN cmd.args}

\* The arguments, and what is within them, down to the longest path.
Deeper == [paths \in SUBSET Paths |->
             UNION {Within(p) : p \in {q \in paths : Enters(q)}}]
Wanted == UNION {Repeat(Deeper, n, Arguments) : n \in 0..MaxPath}

(***************************************************************************)
(* Whatever else vanishes meanwhile, in whatever order readdir returns the *)
(* names, down to any depth: a file that is there when ls ends has been    *)
(* shown; directories named as arguments are listed themselves.            *)
(***************************************************************************)
NothingLost ==
  pc = "done" =>
    \A p \in Wanted : Exists(p) /\ ~(Len(p) = 1 /\ Enters(p)) => p \in Shown

(***************************************************************************)
(* When nothing vanishes, stderr has a message about each file that cannot *)
(* be examined and each directory that cannot be opened, at whatever       *)
(* depth, and about no other; when files vanish, at least about an         *)
(* argument, no directory, that is missing from the output.  ls_main       *)
(* returns failure if there was a message; main exits with 0 all the same. *)
(***************************************************************************)
Trouble == {p \in Wanted : ~Exists(p) \/ (Enters(p) /\ Opendir(p) = None)}
Missing ==
  {p \in Arguments \ Shown :
     p[1] \in DOMAIN Entries[Cwd] => Entries[Cwd][p[1]] \notin DOMAIN Entries}
FailuresReported ==
  pc = "done" => /\ faults = 0 => errors = Trouble
                 /\ ~c.follow => Missing \subseteq errors
                 /\ status = "FAILURE" <=> errors # {}

-----------------------------------------------------------------------------
(* The output as a whole is a walk through the tree, in which the          *)
(* arguments are the files of one more directory, << >>, above them all.   *)

Inside(q) == IF q = << >> THEN {p \in Arguments : Exists(p)} ELSE Present[q]
Content(q) == {p \in Inside(q) : q = << >> => ~Enters(p)}
Directories == {p \in Wanted : Enters(p)}
Headed == c.disp \cap {"DIRNAME", "RECURSIVE"} # {}

\* The directory that an item of the output is about, a heading or a listing.
About(k) == IF k \in Listings THEN Front(out[k].files[1].fullname) ELSE out[k].head

\* p comes first: it is above q, or where the two part its side comes first.
File(path) == [name |-> Last(path), dstat |-> Info(path)]
Ahead(p, q) ==
  \/ IsStrictPrefix(p, q)
  \/ \E k \in DOMAIN p \cap DOMAIN q :
       /\ SubSeq(p, 1, k - 1) = SubSeq(q, 1, k - 1)
       /\ Before(File(SubSeq(p, 1, k)), File(SubSeq(q, 1, k)))

\* No directory is named twice, and none is too far from those next to it, in
\* size or time, for an int.
NamedOnce ==
  \A j, k \in DOMAIN cmd.args :
    j # k /\ cmd.args[j] = cmd.args[k] => ~Enters(<<cmd.args[j]>>)
NoneTooFar ==
  \A q \in Directories \cup {<< >>} :
    Comparable([p \in {d \in Inside(q) : Enters(d)} |-> File(p)])

(***************************************************************************)
(* When no file vanishes the output is a walk through the tree.  Every     *)
(* directory to be listed, and no other, has its heading if there are any, *)
(* and a listing of what is in it, unless that is nothing; the first is of *)
(* the files among the arguments.  Each comes after those above it and in  *)
(* the order of the options, once, its listing after its heading.          *)
(* A directory that is named twice is listed twice, of which, and of sizes *)
(* that do not fit an int, no order is claimed.                            *)
(***************************************************************************)
AsReported ==
  pc = "done" /\ faults = 0 =>
    /\ {About(k) : k \in DOMAIN out \ Listings} = IF Headed THEN Directories ELSE {}
    /\ {About(k) : k \in Listings} = {q \in Directories \cup {<< >>} : Content(q) # {}}
    /\ \A k \in Listings : Names(k) = Content(About(k))
    /\ NamedOnce /\ NoneTooFar =>
         \A j, k \in DOMAIN out : j < k =>
           \/ Ahead(About(j), About(k))
           \/ About(j) = About(k) /\ j \notin Listings /\ k \in Listings

(***************************************************************************)
(* ls ends, also when links lead back up and -L follows them: the kernel   *)
(* refuses a path of too many links, and that file is a failure.  Its      *)
(* message may be too long for perror_msg, which may kill the process.     *)
(***************************************************************************)
Ends == <>(exit # "running")

-----------------------------------------------------------------------------
(* What the options mean, by the places where they stand.                  *)

Given(o) == \E k \in DOMAIN cmd.opts : cmd.opts[k] = o
Latest(S) ==
  LET at == {k \in DOMAIN cmd.opts : cmd.opts[k] \in S}
  IN IF at = {} THEN "" ELSE cmd.opts[Max(at)]
SinceX(o) ==
  \E k \in DOMAIN cmd.opts :
    cmd.opts[k] = o /\ \A j \in DOMAIN cmd.opts : j > k => cmd.opts[j] # "x"

(***************************************************************************)
(* The order of options matters only where a later one replaces an earlier *)
(* one: among those that choose a style or an order, -l after -h, and -x,  *)
(* which forgets -a, -A, -d and -R.  -c and -u prevail over -S, -t, -v and *)
(* -X, and -d over -R, wherever they stand.                                *)
(***************************************************************************)
OptionsMean ==
  pc \notin {"options", "usage"} =>
    /\ c.sort = LET o == IF Latest({"c", "u"}) # "" THEN Latest({"c", "u"})
                         ELSE Latest({"S", "t", "v", "X"})
                IN CASE o = "c" -> "ctime" [] o = "u" -> "atime" [] o = "S" -> "size"
                     [] o = "t" -> "mtime" [] OTHER -> "name"
    /\ c.style = CASE Latest({"1", "C", "l"}) = "1" -> "SINGLE"
                   [] Latest({"1", "C", "l"}) = "C" -> "COLUMNS"
                   [] Latest({"1", "C", "l"}) = "l" -> "LONG"
                   [] OTHER -> IF cmd.tty THEN "COLUMNS" ELSE "SINGLE"
    /\ "HIDDEN" \in c.disp <=> SinceX("a") \/ SinceX("A")
    /\ "DOT" \in c.disp <=> SinceX("a")
    /\ "NOLIST" \in c.disp <=> SinceX("d")
    /\ "RECURSIVE" \in c.disp <=> SinceX("R") /\ ~SinceX("d")
    /\ "ID_NUMERIC" \in c.list <=> Given("n") /\ c.style = "LONG"
    /\ "ID_NAME" \in c.list <=> Given("l") /\ ~("ID_NUMERIC" \in c.list)
    /\ c.hr <=> Latest({"h", "l"}) = "h"

-----------------------------------------------------------------------------
(* The conversions, for the values that the configuration picks.           *)

CONSTANTS LongSizes, LinkLengths

ASSUME SampleConstants == LongSizes \subseteq Nat /\ LinkLengths \subseteq Nat

ModesReadable ==
  Cardinality({ModeString(m[1], m[2], m[3]) : m \in Modes}) = Cardinality(Modes)

SizesReadable ==
  \A n \in LongSizes :
    LET r == HumanReadable(n, 0)
        error == 10 * n - (10 * r.val + r.frac) * Unit(r.units)
        cut == Unit(r.units - 1) - 1
    IN /\ r.frac \in 0..9
       /\ r.units < 4 => r.val <= Kilo
       /\ r.units = 0 => error = 0
       /\ r.units > 0 => /\ -Unit(r.units) <= 2 * error
                         /\ 2 * error <= Unit(r.units) + 20 * cut

BlocksReadable ==
  \A n \in LongSizes :
    LET error == n - HumanReadable(n, Kilo).val * Kilo
    IN -Kilo <= 2 * error /\ 2 * error <= Kilo

LinksWhole ==
  \A len \in LinkLengths :
    ReadlinkBuffer(len) > len /\ ReadlinkBuffer(len) - GROWBY <= len

(***************************************************************************)
(* What a long listing prints of a file can be read back.                  *)
(* mode_string tells any two modes apart: the special bits have letters of *)
(* their own, in upper case where the bit below them is missing.           *)
(* make_human_readable_str is off by at most half of a tenth of the unit,  *)
(* rounded up or down, and down by what its divisions cut off besides,     *)
(* which is less than one of the next smaller unit; the tenths are a       *)
(* digit, and below the largest unit the number is at most one unit of the *)
(* next.  In a given unit, as -s has it, it is the nearest number.         *)
(* xreadlink returns the whole text of a link, of whatever length, with    *)
(* room for the zero at its end, and a buffer no larger than it needs.     *)
(***************************************************************************)
Conversions ==
  c.style = "LONG" => ModesReadable /\ SizesReadable /\ BlocksReadable /\ LinksWhole
=============================================================================
