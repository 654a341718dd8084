------------------------------ MODULE LsProofs ------------------------------
(***************************************************************************)
(* The properties of module LsProps, for every file system, command line   *)
(* and number of files that vanish meanwhile.                              *)
(***************************************************************************)
EXTENDS LsProps, LsShowProofs

-----------------------------------------------------------------------------
(* Options.                                                                *)

SortKeys == {"name", "size", "mtime", "ctime", "atime"}
SettingsType ==
  [disp : SUBSET {"HIDDEN", "DOT", "NOLIST", "ROWS", "RECURSIVE", "DIRNAME"},
   style : {"AUTO", "SINGLE", "COLUMNS", "LONG"}, list : SUBSET (Fields \cup {"EXEC"}),
   sort : SortKeys, reverse : BOOLEAN, time : {"mtime", "ctime", "atime"},
   follow : BOOLEAN, hr : BOOLEAN, width : Nat]
Sensible(s) ==
  /\ s \in SettingsType
  /\ "FILENAME" \in s.list
  /\ "DOT" \in s.disp => "HIDDEN" \in s.disp

\* A number cast to unsigned short is a natural one, also if it was negative.
LEMMA UshortNat ==
  ASSUME NEW n \in Int
  PROVE  ToUshort(n) \in Nat
<1> DEFINE S == 2 * ShortHalf
<1>1. S \in Nat /\ S > 0 BY ShowConstants
<1>2. ToUshort(n) = n % S BY DEF ToUshort
<1> HIDE DEF S
<1>3. n % S \in Nat BY <1>1
<1> QED BY <1>2, <1>3

\* The settings before any option.
LEMMA FirstSensible ==
  ASSUME NEW cols \in 0..(2 * ShortHalf - 1)
  PROVE  Sensible(Settings(cols))
<1>1. (IF cols > 0 THEN cols - 1 ELSE TERMINAL_WIDTH) \in Nat BY ShowConstants DEF TERMINAL_WIDTH
<1> QED BY <1>1 DEF Sensible, Settings, SettingsType, Fields, SortKeys

\* What an option does to the settings that OptionsMean is about.
Effect(o, s, t) ==
  /\ t.time = IF o = "c" THEN "ctime" ELSE IF o = "u" THEN "atime" ELSE s.time
  /\ t.sort = IF o = "c" THEN "ctime" ELSE IF o = "u" THEN "atime" ELSE IF o = "S" THEN "size"
              ELSE IF o = "t" THEN "mtime" ELSE IF o \in {"v", "X"} THEN "name" ELSE s.sort
  /\ t.style = IF o = "1" THEN "SINGLE" ELSE IF o = "C" THEN "COLUMNS"
               ELSE IF o = "l" THEN "LONG" ELSE s.style
  /\ t.hr = IF o = "h" THEN TRUE ELSE IF o = "l" THEN FALSE ELSE s.hr
  /\ "HIDDEN" \in t.disp <=> o \in {"a", "A"} \/ ("HIDDEN" \in s.disp /\ o # "x")
  /\ "DOT" \in t.disp <=> o = "a" \/ ("DOT" \in s.disp /\ o # "x")
  /\ "NOLIST" \in t.disp <=> o = "d" \/ ("NOLIST" \in s.disp /\ o # "x")
  /\ "RECURSIVE" \in t.disp <=> o = "R" \/ ("RECURSIVE" \in s.disp /\ o # "x")
  /\ "ID_NUMERIC" \in t.list <=> o = "n" \/ "ID_NUMERIC" \in s.list
  /\ "ID_NAME" \in t.list <=> o = "l" \/ "ID_NAME" \in s.list

\* Every option leaves sensible settings and has that effect.
LEMMA GetOptDoes ==
  ASSUME Sensible(c), NEW o, GetOpt(o), cmd.widths \subseteq Int
  PROVE  Sensible(c)' /\ Effect(o, c, c')
<1>1. c \in SettingsType /\ "FILENAME" \in c.list /\ ("DOT" \in c.disp => "HIDDEN" \in c.disp)
  BY DEF Sensible
<1>2. Fields = {"INO", "BLOCKS", "MODEBITS", "NLINKS", "ID_NAME", "ID_NUMERIC", "SIZE",
                "DATE_TIME", "FULLTIME", "FILENAME", "SYMLINK", "FILETYPE"}
  BY DEF Fields
<1>3. CASE o = "1" /\ c' = [c EXCEPT !.style = "SINGLE"]
  BY <1>1, <1>2, <1>3 DEF Sensible, Effect, SettingsType, SortKeys
<1>4. CASE o = "A" /\ c' = [c EXCEPT !.disp = @ \cup {"HIDDEN"}]
  BY <1>1, <1>2, <1>4 DEF Sensible, Effect, SettingsType, SortKeys
<1>5. CASE o = "a" /\ c' = [c EXCEPT !.disp = @ \cup {"HIDDEN", "DOT"}]
  BY <1>1, <1>2, <1>5 DEF Sensible, Effect, SettingsType, SortKeys
<1>6. CASE o = "C" /\ c' = [c EXCEPT !.style = "COLUMNS"]
  BY <1>1, <1>2, <1>6 DEF Sensible, Effect, SettingsType, SortKeys
<1>7. CASE o = "d" /\ c' = [c EXCEPT !.disp = @ \cup {"NOLIST"}]
  BY <1>1, <1>2, <1>7 DEF Sensible, Effect, SettingsType, SortKeys
<1>8. CASE o = "i" /\ c' = [c EXCEPT !.list = @ \cup {"INO"}]
  BY <1>1, <1>2, <1>8 DEF Sensible, Effect, SettingsType, SortKeys
<1>9. CASE o = "l" /\ c' = [c EXCEPT !.style = "LONG", !.list = @ \cup LIST_LONG, !.hr = FALSE]
  BY <1>1, <1>2, <1>9 DEF Sensible, Effect, SettingsType, SortKeys, LIST_LONG
<1>10. CASE o = "n" /\ c' = [c EXCEPT !.list = @ \cup {"ID_NUMERIC"}]
  BY <1>1, <1>2, <1>10 DEF Sensible, Effect, SettingsType, SortKeys
<1>11. CASE o = "s" /\ c' = [c EXCEPT !.list = @ \cup {"BLOCKS"}]
  BY <1>1, <1>2, <1>11 DEF Sensible, Effect, SettingsType, SortKeys
<1>12. CASE o = "x" /\ c' = [c EXCEPT !.disp = {"ROWS"}]
  BY <1>1, <1>2, <1>12 DEF Sensible, Effect, SettingsType, SortKeys
<1>13. CASE o = "F" /\ c' = [c EXCEPT !.list = @ \cup {"FILETYPE", "EXEC"}]
  BY <1>1, <1>2, <1>13 DEF Sensible, Effect, SettingsType, SortKeys
<1>14. CASE o = "p" /\ c' = [c EXCEPT !.list = @ \cup {"FILETYPE"}]
  BY <1>1, <1>2, <1>14 DEF Sensible, Effect, SettingsType, SortKeys
<1>15. CASE o = "R" /\ c' = [c EXCEPT !.disp = @ \cup {"RECURSIVE"}]
  BY <1>1, <1>2, <1>15 DEF Sensible, Effect, SettingsType, SortKeys
<1>16. CASE o = "r" /\ c' = [c EXCEPT !.reverse = TRUE]
  BY <1>1, <1>2, <1>16 DEF Sensible, Effect, SettingsType, SortKeys
<1>17. CASE o = "S" /\ c' = [c EXCEPT !.sort = "size"]
  BY <1>1, <1>2, <1>17 DEF Sensible, Effect, SettingsType, SortKeys
<1>18. CASE o \in {"v", "X"} /\ c' = [c EXCEPT !.sort = "name"]
  BY <1>1, <1>2, <1>18 DEF Sensible, Effect, SettingsType, SortKeys
<1>19. CASE o = "e" /\ c' = [c EXCEPT !.list = @ \cup {"FULLTIME"}]
  BY <1>1, <1>2, <1>19 DEF Sensible, Effect, SettingsType, SortKeys
<1>20. CASE o = "c" /\ c' = [c EXCEPT !.time = "ctime", !.sort = "ctime"]
  BY <1>1, <1>2, <1>20 DEF Sensible, Effect, SettingsType, SortKeys
<1>21. CASE o = "u" /\ c' = [c EXCEPT !.time = "atime", !.sort = "atime"]
  BY <1>1, <1>2, <1>21 DEF Sensible, Effect, SettingsType, SortKeys
<1>22. CASE o = "t" /\ c' = [c EXCEPT !.sort = "mtime"]
  BY <1>1, <1>2, <1>22 DEF Sensible, Effect, SettingsType, SortKeys
<1>23. CASE o = "L" /\ c' = [c EXCEPT !.follow = TRUE]
  BY <1>1, <1>2, <1>23 DEF Sensible, Effect, SettingsType, SortKeys
<1>24. CASE o = "w" /\ \E n \in cmd.widths : c' = [c EXCEPT !.width = ToUshort(n)]
  <2>1. PICK n \in cmd.widths : c' = [c EXCEPT !.width = ToUshort(n)] BY <1>24
  <2> DEFINE w == ToUshort(n)
  <2>2. w \in Nat BY UshortNat
  <2>3. c' = [c EXCEPT !.width = w] BY <2>1
  <2> HIDE DEF w
  <2> QED BY <1>1, <1>2, <1>24, <2>2, <2>3 DEF Sensible, Effect, SettingsType, SortKeys
<1>25. CASE o = "h" /\ c' = [c EXCEPT !.hr = TRUE]
  BY <1>1, <1>2, <1>25 DEF Sensible, Effect, SettingsType, SortKeys
<1>26. CASE o \in Ignored /\ UNCHANGED c
  BY <1>26 DEF Ignored, Sensible, Effect
<1> QED
  BY <1>3, <1>4, <1>5, <1>6, <1>7, <1>8, <1>9, <1>10, <1>11, <1>12, <1>13, <1>14, <1>15, <1>16,
     <1>17, <1>18, <1>19, <1>20, <1>21, <1>22, <1>23, <1>24, <1>25, <1>26
  DEF GetOpt

\* What the first k options of s mean.
Seen(S, k, s) == {j \in 1..k : s[j] \in S}
LatestOf(S, k, s) == IF Seen(S, k, s) = {} THEN "" ELSE s[Max(Seen(S, k, s))]
SinceXOf(o, k, s) == \E j \in 1..k : s[j] = o /\ \A i \in 1..k : i > j => s[i] # "x"
GivenIn(o, k, s) == \E j \in 1..k : s[j] = o

\* Positions have a last one.
LEMMA MaxOfSome ==
  ASSUME NEW S, NEW m \in S, S \subseteq Int, \A y \in S : m >= y
  PROVE  Max(S) = m
<1>1. \E x \in S : \A y \in S : x >= y OBVIOUS
<1>2. Max(S) \in S /\ \A y \in S : Max(S) >= y BY <1>1 DEF Max
<1>3. Max(S) >= m /\ m >= Max(S) /\ Max(S) \in Int /\ m \in Int BY <1>2
<1> QED BY <1>3

\* The last position among one more.
LEMMA MaxSeen ==
  ASSUME NEW s, NEW S, NEW k \in Nat, Seen(S, k, s) # {}
  PROVE  Max(Seen(S, k, s)) \in Seen(S, k, s) /\ \A j \in Seen(S, k, s) : Max(Seen(S, k, s)) >= j
<1> DEFINE A == {n \in Nat : \A T \in SUBSET (1..n) : T # {} => \E x \in T : \A y \in T : x >= y}
<1>1. 0 \in A
  <2>1. 1..0 = {} OBVIOUS
  <2> QED BY <2>1
<1>2. ASSUME NEW n \in A PROVE n + 1 \in A
  <2>1. SUFFICES ASSUME NEW T \in SUBSET (1..(n + 1)), T # {} PROVE \E x \in T : \A y \in T : x >= y
    BY <1>2
  <2>2. CASE n + 1 \in T BY <2>2
  <2>3. CASE n + 1 \notin T
    <3>1. T \in SUBSET (1..n) BY <2>3
    <3> QED BY <1>2, <2>1, <3>1
  <2> QED BY <2>2, <2>3
<1>3. A = Nat BY <1>1, <1>2, FromMin
<1>4. k \in A BY <1>3
<1>5. \E x \in Seen(S, k, s) : \A y \in Seen(S, k, s) : x >= y BY <1>4 DEF Seen
<1> QED BY <1>5 DEF Max

\* The latest option of some, after one more,
LEMMA LatestStep ==
  ASSUME NEW s, NEW S, NEW k \in Nat
  PROVE  /\ LatestOf(S, 0, s) = ""
         /\ LatestOf(S, k + 1, s) = IF s[k + 1] \in S THEN s[k + 1] ELSE LatestOf(S, k, s)
<1>1. LatestOf(S, 0, s) = ""
  <2>1. Seen(S, 0, s) = {} BY DEF Seen
  <2> QED BY <2>1 DEF LatestOf
<1>2. CASE s[k + 1] \in S
  <2>1. /\ k + 1 \in Seen(S, k + 1, s) /\ Seen(S, k + 1, s) \subseteq Int
        /\ \A y \in Seen(S, k + 1, s) : k + 1 >= y
    BY <1>2 DEF Seen
  <2>2. Max(Seen(S, k + 1, s)) = k + 1 BY <2>1, MaxOfSome
  <2> QED BY <1>1, <1>2, <2>1, <2>2 DEF LatestOf
<1>3. CASE s[k + 1] \notin S
  <2>1. Seen(S, k + 1, s) = Seen(S, k, s)
    <3>1. \A j \in 1..(k + 1) : j = k + 1 \/ j \in 1..k OBVIOUS
    <3>2. 1..k \subseteq 1..(k + 1) OBVIOUS
    <3> QED BY <1>3, <3>1, <3>2 DEF Seen
  <2> QED BY <1>1, <1>3, <2>1 DEF LatestOf
<1> QED BY <1>2, <1>3

\* and what was given since the last -x.
LEMMA SinceStep ==
  ASSUME NEW s, NEW o, NEW k \in Nat
  PROVE  /\ ~SinceXOf(o, 0, s) /\ ~GivenIn(o, 0, s)
         /\ SinceXOf(o, k + 1, s) <=> s[k + 1] = o \/ (SinceXOf(o, k, s) /\ s[k + 1] # "x")
         /\ GivenIn(o, k + 1, s) <=> s[k + 1] = o \/ GivenIn(o, k, s)
<1>1. ~SinceXOf(o, 0, s) /\ ~GivenIn(o, 0, s) BY DEF SinceXOf, GivenIn
<1>2. /\ \A j \in 1..(k + 1) : j = k + 1 \/ j \in 1..k
      /\ \A j \in 1..k : j \in 1..(k + 1) /\ k + 1 > j /\ ~(j > k + 1)
      /\ k + 1 \in 1..(k + 1) /\ ~(k + 1 > k + 1)
  OBVIOUS
<1>3. SinceXOf(o, k + 1, s) <=> s[k + 1] = o \/ (SinceXOf(o, k, s) /\ s[k + 1] # "x")
  <2>1. ASSUME SinceXOf(o, k + 1, s), s[k + 1] # o
        PROVE  SinceXOf(o, k, s) /\ s[k + 1] # "x"
    <3>1. PICK j \in 1..(k + 1) : s[j] = o /\ \A i \in 1..(k + 1) : i > j => s[i] # "x"
      BY <2>1 DEF SinceXOf
    <3>2. j \in 1..k BY <1>2, <2>1, <3>1
    <3>3. s[k + 1] # "x" BY <1>2, <3>1, <3>2
    <3>4. \A i \in 1..k : i > j => s[i] # "x" BY <1>2, <3>1
    <3> QED BY <3>1, <3>2, <3>3, <3>4 DEF SinceXOf
  <2>2. ASSUME s[k + 1] = o PROVE SinceXOf(o, k + 1, s)
    <3>1. \A i \in 1..(k + 1) : i > k + 1 => s[i] # "x" BY <1>2
    <3> QED BY <1>2, <2>2, <3>1 DEF SinceXOf
  <2>3. ASSUME SinceXOf(o, k, s), s[k + 1] # "x" PROVE SinceXOf(o, k + 1, s)
    <3>1. PICK j \in 1..k : s[j] = o /\ \A i \in 1..k : i > j => s[i] # "x"
      BY <2>3 DEF SinceXOf
    <3>2. \A i \in 1..(k + 1) : i > j => s[i] # "x" BY <1>2, <2>3, <3>1
    <3> QED BY <1>2, <3>1, <3>2 DEF SinceXOf
  <2> QED BY <2>1, <2>2, <2>3
<1>4. GivenIn(o, k + 1, s) <=> s[k + 1] = o \/ GivenIn(o, k, s) BY <1>2 DEF GivenIn
<1> QED BY <1>1, <1>3, <1>4

SortOf(o) == IF o = "S" THEN "size" ELSE IF o = "t" THEN "mtime" ELSE "name"

\* The settings after k options, before they are settled.
MeaningOf(k, s, o) ==
  /\ LatestOf({"c", "u"}, k, o) \in {"", "c", "u"}
  /\ LatestOf({"c", "u"}, k, o) = "c" <=> s.time = "ctime"
  /\ LatestOf({"c", "u"}, k, o) = "u" <=> s.time = "atime"
  /\ s.time = "mtime" => s.sort = SortOf(LatestOf({"S", "t", "v", "X"}, k, o))
  /\ LatestOf({"1", "C", "l"}, k, o) \in {"", "1", "C", "l"}
  /\ LatestOf({"1", "C", "l"}, k, o) = "1" <=> s.style = "SINGLE"
  /\ LatestOf({"1", "C", "l"}, k, o) = "C" <=> s.style = "COLUMNS"
  /\ LatestOf({"1", "C", "l"}, k, o) = "l" <=> s.style = "LONG"
  /\ "HIDDEN" \in s.disp <=> SinceXOf("a", k, o) \/ SinceXOf("A", k, o)
  /\ "DOT" \in s.disp <=> SinceXOf("a", k, o)
  /\ "NOLIST" \in s.disp <=> SinceXOf("d", k, o)
  /\ "RECURSIVE" \in s.disp <=> SinceXOf("R", k, o)
  /\ "ID_NUMERIC" \in s.list <=> GivenIn("n", k, o)
  /\ "ID_NAME" \in s.list <=> GivenIn("l", k, o)
  /\ s.hr <=> LatestOf({"h", "l"}, k, o) = "h"
Meaning(k) == MeaningOf(k, c, cmd.opts)

\* No option has been read.
LEMMA MeaningFirst ==
  ASSUME NEW cols, c = Settings(cols) PROVE Meaning(0)
<1>1. \A S : LatestOf(S, 0, cmd.opts) = "" BY LatestStep
<1>2. \A o : ~SinceXOf(o, 0, cmd.opts) /\ ~GivenIn(o, 0, cmd.opts) BY SinceStep
<1> QED BY <1>1, <1>2 DEF Meaning, MeaningOf, Settings, SortOf

\* One more has.
LEMMA MeaningStep ==
  ASSUME NEW k \in Nat, Sensible(c), Meaning(k), Effect(cmd.opts[k + 1], c, c'), cmd' = cmd
  PROVE  Meaning(k + 1)'
<1> DEFINE s == cmd.opts
           o == s[k + 1]
           m == k + 1
<1>1. \A S : LatestOf(S, m, s) = IF o \in S THEN o ELSE LatestOf(S, k, s) BY LatestStep
<1>2. \A p : SinceXOf(p, m, s) <=> o = p \/ (SinceXOf(p, k, s) /\ o # "x") BY SinceStep
<1>3. \A p : GivenIn(p, m, s) <=> o = p \/ GivenIn(p, k, s) BY SinceStep
<1>4. /\ c.time \in {"mtime", "ctime", "atime"} /\ c.style \in {"AUTO", "SINGLE", "COLUMNS", "LONG"}
      /\ c.hr \in BOOLEAN
  BY DEF Sensible, SettingsType
<1>5. cmd'.opts = s BY Zenon
<1>6. Effect(o, c, c') OBVIOUS
<1> HIDE DEF o, m
<1>7. /\ LatestOf({"c", "u"}, m, s) \in {"", "c", "u"}
      /\ LatestOf({"c", "u"}, m, s) = "c" <=> c'.time = "ctime"
      /\ LatestOf({"c", "u"}, m, s) = "u" <=> c'.time = "atime"
  BY <1>1, <1>4, <1>6 DEF Effect, Meaning, MeaningOf
<1>8. c'.time = "mtime" => c'.sort = SortOf(LatestOf({"S", "t", "v", "X"}, m, s))
  <2> DEFINE L == LatestOf({"S", "t", "v", "X"}, k, s)
             N == LatestOf({"S", "t", "v", "X"}, m, s)
  <2>1. N = IF o \in {"S", "t", "v", "X"} THEN o ELSE L BY <1>1
  <2>2. c.time = "mtime" => c.sort = SortOf(L) BY DEF Meaning, MeaningOf
  <2>3. /\ c'.time = IF o = "c" THEN "ctime" ELSE IF o = "u" THEN "atime" ELSE c.time
        /\ c'.sort = IF o = "c" THEN "ctime" ELSE IF o = "u" THEN "atime" ELSE IF o = "S" THEN "size"
              ELSE IF o = "t" THEN "mtime" ELSE IF o \in {"v", "X"} THEN "name" ELSE c.sort
    BY <1>6 DEF Effect
  <2> HIDE DEF L, N
  <2>4. c'.time = "mtime" => c'.sort = SortOf(N) BY ONLY <2>1, <2>2, <2>3 DEF SortOf
  <2> QED BY <2>4 DEF N
<1>9. /\ LatestOf({"1", "C", "l"}, m, s) \in {"", "1", "C", "l"}
      /\ LatestOf({"1", "C", "l"}, m, s) = "1" <=> c'.style = "SINGLE"
      /\ LatestOf({"1", "C", "l"}, m, s) = "C" <=> c'.style = "COLUMNS"
      /\ LatestOf({"1", "C", "l"}, m, s) = "l" <=> c'.style = "LONG"
  <2> DEFINE L == LatestOf({"1", "C", "l"}, k, s)
             N == LatestOf({"1", "C", "l"}, m, s)
  <2>1. N = IF o \in {"1", "C", "l"} THEN o ELSE L BY <1>1
  <2>2. /\ L \in {"", "1", "C", "l"} /\ (L = "1" <=> c.style = "SINGLE")
        /\ (L = "C" <=> c.style = "COLUMNS") /\ (L = "l" <=> c.style = "LONG")
    BY DEF Meaning, MeaningOf
  <2>3. c'.style = IF o = "1" THEN "SINGLE" ELSE IF o = "C" THEN "COLUMNS"
                   ELSE IF o = "l" THEN "LONG" ELSE c.style
    BY <1>6 DEF Effect
  <2> HIDE DEF L, N
  <2>4. /\ N \in {"", "1", "C", "l"} /\ (N = "1" <=> c'.style = "SINGLE")
        /\ (N = "C" <=> c'.style = "COLUMNS") /\ (N = "l" <=> c'.style = "LONG")
    BY ONLY <1>4, <2>1, <2>2, <2>3
  <2> QED BY <2>4 DEF N
<1>10. /\ "HIDDEN" \in c'.disp <=> SinceXOf("a", m, s) \/ SinceXOf("A", m, s)
       /\ "DOT" \in c'.disp <=> SinceXOf("a", m, s)
       /\ "NOLIST" \in c'.disp <=> SinceXOf("d", m, s)
       /\ "RECURSIVE" \in c'.disp <=> SinceXOf("R", m, s)
  BY <1>2, <1>6 DEF Effect, Meaning, MeaningOf
<1>11. /\ "ID_NUMERIC" \in c'.list <=> GivenIn("n", m, s)
       /\ "ID_NAME" \in c'.list <=> GivenIn("l", m, s)
  BY <1>3, <1>6 DEF Effect, Meaning, MeaningOf
<1>12. c'.hr <=> LatestOf({"h", "l"}, m, s) = "h" BY <1>1, <1>4, <1>6 DEF Effect, Meaning, MeaningOf
<1> HIDE DEF s
<1>13. MeaningOf(m, c', s) BY <1>7, <1>8, <1>9, <1>10, <1>11, <1>12 DEF MeaningOf
<1>14. Meaning(m)' BY <1>5, <1>13 DEF Meaning
<1> QED BY <1>14 DEF m

\* What Settle does to the settings.
LEMMA SettleDoes ==
  ASSUME NEW tty \in BOOLEAN, NEW n, NEW s, NEW t, Sensible(s), t = Settle(s, tty, n)
  PROVE  /\ Sensible(t) /\ t.style # "AUTO"
         /\ t.sort = IF s.time # "mtime" THEN s.time ELSE s.sort
         /\ t.style = IF s.style # "AUTO" THEN s.style ELSE IF tty THEN "COLUMNS" ELSE "SINGLE"
         /\ t.hr = s.hr
         /\ "HIDDEN" \in t.disp <=> "HIDDEN" \in s.disp
         /\ "DOT" \in t.disp <=> "DOT" \in s.disp
         /\ "NOLIST" \in t.disp <=> "NOLIST" \in s.disp
         /\ "RECURSIVE" \in t.disp <=> "RECURSIVE" \in s.disp /\ "NOLIST" \notin s.disp
         /\ "ID_NUMERIC" \in t.list <=> "ID_NUMERIC" \in s.list /\ s.style = "LONG"
         /\ "ID_NAME" \in t.list <=>
              "ID_NAME" \in s.list /\ ~(s.style = "LONG" /\ "ID_NUMERIC" \in s.list)
<1>1. s \in SettingsType /\ "FILENAME" \in s.list /\ ("DOT" \in s.disp => "HIDDEN" \in s.disp)
  BY DEF Sensible
<1>2. Fields = {"INO", "BLOCKS", "MODEBITS", "NLINKS", "ID_NAME", "ID_NUMERIC", "SIZE",
                "DATE_TIME", "FULLTIME", "FILENAME", "SYMLINK", "FILETYPE"}
  BY DEF Fields
<1> DEFINE D == (IF "NOLIST" \in s.disp THEN s.disp \ {"RECURSIVE"} ELSE s.disp)
                \cup (IF n > 1 THEN {"DIRNAME"} ELSE {})
           L == IF s.style # "LONG" THEN s.list \ {"ID_NUMERIC"}
                ELSE IF "ID_NUMERIC" \in s.list THEN s.list \ {"ID_NAME"} ELSE s.list
           S == IF s.time # "mtime" THEN s.time ELSE s.sort
           Y == IF s.style # "AUTO" THEN s.style ELSE IF tty THEN "COLUMNS" ELSE "SINGLE"
<1>3. t = [s EXCEPT !.disp = D, !.sort = S, !.list = L, !.style = Y] BY DEF Settle
<1>4. /\ D \in SUBSET {"HIDDEN", "DOT", "NOLIST", "ROWS", "RECURSIVE", "DIRNAME"}
      /\ "HIDDEN" \in D <=> "HIDDEN" \in s.disp
      /\ "DOT" \in D <=> "DOT" \in s.disp
      /\ "NOLIST" \in D <=> "NOLIST" \in s.disp
      /\ "RECURSIVE" \in D <=> "RECURSIVE" \in s.disp /\ "NOLIST" \notin s.disp
  BY <1>1 DEF SettingsType
<1>5. /\ L \in SUBSET (Fields \cup {"EXEC"}) /\ "FILENAME" \in L
      /\ "ID_NUMERIC" \in L <=> "ID_NUMERIC" \in s.list /\ s.style = "LONG"
      /\ "ID_NAME" \in L <=>
           "ID_NAME" \in s.list /\ ~(s.style = "LONG" /\ "ID_NUMERIC" \in s.list)
  BY <1>1 DEF SettingsType
<1>6. S \in SortKeys /\ Y \in {"AUTO", "SINGLE", "COLUMNS", "LONG"} /\ Y # "AUTO"
  BY <1>1 DEF SettingsType, SortKeys
<1> HIDE DEF D, L, S, Y
<1>7. /\ t.disp = D /\ t.list = L /\ t.sort = S /\ t.style = Y /\ t.hr = s.hr
      /\ t \in SettingsType
  <2>1. s \in SettingsType BY <1>1
  <2>2. t.disp = D /\ t.list = L /\ t.sort = S /\ t.style = Y /\ t.hr = s.hr
    BY <1>3, <2>1 DEF SettingsType
  <2>3. t \in SettingsType BY ONLY <1>3, <1>4, <1>5, <1>6, <2>1 DEF SettingsType
  <2> QED BY <2>2, <2>3
<1>8. Sensible(t)
  <2>1. "DOT" \in s.disp => "HIDDEN" \in s.disp BY DEF Sensible
  <2> QED BY <1>4, <1>5, <1>7, <2>1 DEF Sensible
<1>9. S = (IF s.time # "mtime" THEN s.time ELSE s.sort)
  BY DEF S
<1>10. Y = (IF s.style # "AUTO" THEN s.style ELSE IF tty THEN "COLUMNS" ELSE "SINGLE")
  BY DEF Y
<1> QED BY <1>4, <1>5, <1>6, <1>7, <1>8, <1>9, <1>10

\* Then the settings mean what OptionsMean says.
LEMMA Settled ==
  ASSUME cmd.opts \in Seq(STRING), cmd.tty \in BOOLEAN, Sensible(c), Meaning(Len(cmd.opts)),
         NEW n, c' = Settle(c, cmd.tty, n), cmd' = cmd
  PROVE  OptionsMean'
<1> DEFINE k == Len(cmd.opts)
           s == cmd.opts
           U == LatestOf({"c", "u"}, k, s)
           V == LatestOf({"S", "t", "v", "X"}, k, s)
           Y == LatestOf({"1", "C", "l"}, k, s)
           Z == LatestOf({"h", "l"}, k, s)
<1>1. /\ \A S : Latest(S)' = LatestOf(S, k, s)
      /\ \A o : SinceX(o)' <=> SinceXOf(o, k, s)
      /\ \A o : Given(o)' <=> GivenIn(o, k, s)
  <2>1. cmd'.opts = s /\ cmd'.opts \in Seq(STRING) OBVIOUS
  <2>2. DOMAIN cmd'.opts = 1..k BY <2>1
  <2> QED BY <2>1, <2>2 DEF Latest, LatestOf, Seen, SinceX, SinceXOf, Given, GivenIn
<1>2. c.time \in {"mtime", "ctime", "atime"} /\ c.style \in {"AUTO", "SINGLE", "COLUMNS", "LONG"}
  BY DEF Sensible, SettingsType
<1>3. /\ c'.sort = IF c.time # "mtime" THEN c.time ELSE c.sort
      /\ c'.style = IF c.style # "AUTO" THEN c.style ELSE IF cmd.tty THEN "COLUMNS" ELSE "SINGLE"
      /\ c'.hr = c.hr
      /\ "HIDDEN" \in c'.disp <=> "HIDDEN" \in c.disp
      /\ "DOT" \in c'.disp <=> "DOT" \in c.disp
      /\ "NOLIST" \in c'.disp <=> "NOLIST" \in c.disp
      /\ "RECURSIVE" \in c'.disp <=> "RECURSIVE" \in c.disp /\ "NOLIST" \notin c.disp
      /\ "ID_NUMERIC" \in c'.list <=> "ID_NUMERIC" \in c.list /\ c.style = "LONG"
      /\ "ID_NAME" \in c'.list <=>
           "ID_NAME" \in c.list /\ ~(c.style = "LONG" /\ "ID_NUMERIC" \in c.list)
  BY SettleDoes
<1>4. /\ U \in {"", "c", "u"} /\ (U = "c" <=> c.time = "ctime") /\ (U = "u" <=> c.time = "atime")
      /\ (c.time = "mtime" => c.sort = SortOf(V))
      /\ Y \in {"", "1", "C", "l"} /\ (Y = "1" <=> c.style = "SINGLE")
      /\ (Y = "C" <=> c.style = "COLUMNS") /\ (Y = "l" <=> c.style = "LONG")
      /\ (c.hr <=> Z = "h")
      /\ ("HIDDEN" \in c.disp <=> SinceXOf("a", k, s) \/ SinceXOf("A", k, s))
      /\ ("DOT" \in c.disp <=> SinceXOf("a", k, s))
      /\ ("NOLIST" \in c.disp <=> SinceXOf("d", k, s))
      /\ ("RECURSIVE" \in c.disp <=> SinceXOf("R", k, s))
      /\ ("ID_NUMERIC" \in c.list <=> GivenIn("n", k, s))
      /\ ("ID_NAME" \in c.list <=> GivenIn("l", k, s))
  BY DEF Meaning, MeaningOf
<1>5. V \in {"", "S", "t", "v", "X"}
  <2>1. CASE Seen({"S", "t", "v", "X"}, k, s) = {} BY <2>1 DEF LatestOf
  <2>2. CASE Seen({"S", "t", "v", "X"}, k, s) # {}
    <3>1. k \in Nat OBVIOUS
    <3>2. Max(Seen({"S", "t", "v", "X"}, k, s)) \in Seen({"S", "t", "v", "X"}, k, s)
      BY <2>2, <3>1, MaxSeen
    <3> QED BY <2>2, <3>2 DEF LatestOf, Seen
  <2> QED BY <2>1, <2>2
<1> HIDE DEF k, s, U, V, Y, Z
<1>6. /\ Latest({"c", "u"})' = U /\ Latest({"S", "t", "v", "X"})' = V
      /\ Latest({"1", "C", "l"})' = Y /\ Latest({"h", "l"})' = Z
  BY <1>1 DEF U, V, Y, Z
<1>7. c'.sort = LET o == IF U # "" THEN U ELSE V
                IN CASE o = "c" -> "ctime" [] o = "u" -> "atime" [] o = "S" -> "size"
                     [] o = "t" -> "mtime" [] OTHER -> "name"
  <2> DEFINE o == IF U # "" THEN U ELSE V
             r == CASE o = "c" -> "ctime" [] o = "u" -> "atime" [] o = "S" -> "size"
                    [] o = "t" -> "mtime" [] OTHER -> "name"
  <2>1. /\ o = "c" => c'.sort = "ctime" /\ r = "ctime"
        /\ o = "u" => c'.sort = "atime" /\ r = "atime"
        /\ o = "S" => c'.sort = "size" /\ r = "size"
        /\ o = "t" => c'.sort = "mtime" /\ r = "mtime"
        /\ o \in {"", "v", "X"} => c'.sort = "name" /\ r = "name"
    BY ONLY <1>2, <1>3, <1>4, <1>5 DEF SortOf
  <2>2. o \in {"", "c", "u", "S", "t", "v", "X"} BY ONLY <1>4, <1>5
  <2> QED BY ONLY <2>1, <2>2
<1>8. c'.style = CASE Y = "1" -> "SINGLE" [] Y = "C" -> "COLUMNS" [] Y = "l" -> "LONG"
                   [] OTHER -> IF cmd.tty THEN "COLUMNS" ELSE "SINGLE"
  BY ONLY <1>2, <1>3, <1>4
<1>9. c'.style = "LONG" <=> c.style = "LONG" BY <1>3
<1>10. cmd'.tty = cmd.tty OBVIOUS
<1> QED BY <1>1, <1>3, <1>4, <1>6, <1>7, <1>8, <1>9, <1>10 DEF OptionsMean

\* A step of ls_main or of the file system; the others end the process.
LsNext == LsMain \/ \E e \in cmd.moves : Unlink(e[1], e[2])

\* Every other step leaves what ls_main is about alone.
LEMMA OfLs == [Next]_vars => [LsNext]_lsvars
BY DEF Next, Step, Running, Main, Crash, LsNext, vars

PcValues == {"options", "args", "showdirs", "readdir", "done", "usage"}
Read == Len(cmd.opts) - Len(opts)
OptionsInv ==
  /\ cmd \in CommandLines /\ pc \in PcValues
  /\ Sensible(c)
  /\ pc = "options" =>
       /\ opts \in Seq(STRING) /\ Read \in Nat
       /\ \A j \in DOMAIN opts : opts[j] = cmd.opts[Read + j]
       /\ Meaning(Read)
  /\ pc \notin {"options", "usage"} => c.style # "AUTO"
  /\ OptionsMean

\* The invariant of the options: at first,
LEMMA OptionsFirst == Init => OptionsInv
<1> SUFFICES ASSUME Init PROVE OptionsInv OBVIOUS
<1>1. cmd \in CommandLines /\ opts = cmd.opts /\ c = Settings(cmd.cols) /\ pc = "options" BY DEF Init
<1>2. cmd.opts \in Seq(STRING) /\ cmd.cols \in 0..(2 * ShortHalf - 1)
  BY <1>1, CommandLineConstants
<1>3. Read = 0 /\ \A j \in DOMAIN opts : opts[j] = cmd.opts[Read + j]
  <2>1. Read = 0 BY <1>1, <1>2 DEF Read
  <2>2. \A j \in DOMAIN opts : j \in Nat /\ 0 + j = j BY <1>1, <1>2
  <2> QED BY <1>1, <2>1, <2>2
<1>4. Meaning(0) BY <1>1, MeaningFirst
<1>5. Sensible(c) BY <1>1, <1>2, FirstSensible
<1> QED BY <1>1, <1>2, <1>3, <1>4, <1>5 DEF OptionsInv, PcValues, OptionsMean

\* The steps after the options leave the settings alone.
Later ==
  /\ UNCHANGED <<cmd, c>> /\ pc' \in PcValues
  /\ pc \notin {"options", "usage"} /\ pc' \notin {"options", "usage"}

\* Every other step is an option.
LEMMA LaterSteps ==
  ASSUME pc \in PcValues, LsNext
  PROVE  Option \/ Usage \/ OptionsDone \/ Later
<1>1. Argument => Later BY DEF Argument, Later, settings, PcValues
<1>2. ArgumentsDone => Later BY DEF ArgumentsDone, Later, settings, PcValues
<1>3. ShowDir => Later BY DEF ShowDir, Later, settings, PcValues
<1>4. EndDir => Later BY DEF EndDir, Later, settings, PcValues
<1>5. Return => Later BY DEF Return, Later, settings, PcValues
<1>6. \A n : ReadEntry(n) => Later BY DEF ReadEntry, Later, settings, PcValues
<1>7. \A n : MissEntry(n) => Later BY DEF MissEntry, Later, settings, PcValues
<1>8. \A d, n : Unlink(d, n) => Later BY DEF Unlink, Later, settings, PcValues
<1> QED BY <1>1, <1>2, <1>3, <1>4, <1>5, <1>6, <1>7, <1>8 DEF LsNext, LsMain

\* a step that leaves them alone,
LEMMA OptionsKept ==
  ASSUME OptionsInv, UNCHANGED <<cmd, c>>, pc' \in PcValues \ {"options"},
         pc' # "usage" => pc \notin {"options", "usage"}
  PROVE  OptionsInv'
<1>1. Sensible(c)' BY DEF OptionsInv, Sensible
<1>2. OptionsMean'
  <2>1. CASE pc' = "usage" BY <2>1 DEF OptionsMean
  <2>2. CASE pc' # "usage"
    <3>1. \A S : Latest(S)' = Latest(S) BY DEF Latest
    <3>2. \A o : SinceX(o)' <=> SinceX(o) BY DEF SinceX
    <3>3. \A o : Given(o)' <=> Given(o) BY DEF Given
    <3> QED BY <2>2, <3>1, <3>2, <3>3 DEF OptionsMean, OptionsInv
  <2> QED BY <2>1, <2>2
<1> QED BY <1>1, <1>2 DEF OptionsInv

\* and every step.
LEMMA OptionsNext == OptionsInv /\ [LsNext]_lsvars => OptionsInv'
<1> SUFFICES ASSUME OptionsInv, [LsNext]_lsvars PROVE OptionsInv' OBVIOUS
<1>1. cmd \in CommandLines /\ cmd.opts \in Seq(STRING) /\ cmd.tty \in BOOLEAN
      /\ cmd.widths \subseteq Int
  BY CommandLineConstants DEF OptionsInv
<1>2. CASE Option
  <2>1. /\ pc = "options" /\ pc' = pc /\ opts # << >> /\ opts' = Tail(opts) /\ cmd' = cmd
        /\ GetOpt(Head(opts))
    BY <1>2 DEF Option
  <2>2. /\ opts \in Seq(STRING) /\ Read \in Nat /\ Sensible(c) /\ Meaning(Read)
        /\ \A j \in DOMAIN opts : opts[j] = cmd.opts[Read + j]
    BY <2>1 DEF OptionsInv
  <2>3. Sensible(c)' /\ Effect(Head(opts), c, c') BY <1>1, <2>1, <2>2, GetOptDoes
  <2>4. Head(opts) = cmd.opts[Read + 1]
    <3>1. 1 \in DOMAIN opts /\ Head(opts) = opts[1] BY <2>1, <2>2
    <3> QED BY <2>2, <3>1
  <2>5. /\ opts' \in Seq(STRING) /\ Read' = Read + 1
        /\ \A j \in DOMAIN opts' : opts'[j] = cmd'.opts[Read' + j]
    <3>1. Len(opts') = Len(opts) - 1 /\ opts' \in Seq(STRING) BY <2>1, <2>2
    <3>2. Read' = Read + 1 BY <1>1, <2>1, <2>2, <3>1 DEF Read
    <3>3. ASSUME NEW j \in DOMAIN opts' PROVE opts'[j] = cmd'.opts[Read' + j]
      <4>1. j \in Nat /\ j + 1 \in DOMAIN opts /\ opts'[j] = opts[j + 1]
        BY <2>1, <2>2, <3>1
      <4>2. opts[j + 1] = cmd.opts[Read + (j + 1)] BY <2>2, <4>1
      <4>3. Read + (j + 1) = Read' + j BY <2>2, <3>2, <4>1
      <4> QED BY <2>1, <4>1, <4>2, <4>3
    <3> QED BY <3>1, <3>2, <3>3
  <2>6. Meaning(Read)'
    <3>1. PICK k \in Nat : k = Read BY <2>2
    <3>2. Meaning(k) /\ Effect(cmd.opts[k + 1], c, c') BY <2>2, <2>3, <2>4, <3>1
    <3>3. Meaning(k + 1)' BY <2>1, <2>2, <3>2, MeaningStep
    <3>4. Read' = k + 1 BY <2>5, <3>1
    <3> QED BY <3>3, <3>4 DEF Meaning
  <2>7. Read' \in Nat BY <2>2, <2>5
  <2> QED BY <1>1, <2>1, <2>3, <2>5, <2>6, <2>7 DEF OptionsInv, PcValues, OptionsMean
<1>3. CASE Usage
  BY <1>3, OptionsKept DEF Usage, settings, PcValues
<1>4. CASE OptionsDone
  <2>1. /\ pc = "options" /\ pc' = "args" /\ opts = << >> /\ cmd' = cmd
        /\ c' = Settle(c, cmd.tty, Len(args'))
    BY <1>4 DEF OptionsDone
  <2>2. Sensible(c) /\ Meaning(Len(cmd.opts))
    <3>1. Read = Len(cmd.opts) BY <1>1, <2>1 DEF Read
    <3> QED BY <2>1, <3>1 DEF OptionsInv
  <2>3. OptionsMean' BY <1>1, <2>1, <2>2, Settled
  <2>4. Sensible(c') /\ c'.style # "AUTO" BY <1>1, <2>1, <2>2, SettleDoes
  <2> QED BY <1>1, <2>1, <2>3, <2>4 DEF OptionsInv, PcValues, Sensible
<1>5. CASE Later
  BY <1>5, OptionsKept DEF Later
<1>6. CASE UNCHANGED lsvars
  <2>1. CASE pc = "options"
    <3>1. /\ pc' = pc /\ opts' = opts /\ cmd' = cmd /\ c' = c
      BY <1>6 DEF lsvars, settings
    <3>2. /\ opts \in Seq(STRING) /\ Read \in Nat /\ Sensible(c) /\ Meaning(Read)
          /\ \A j \in DOMAIN opts : opts[j] = cmd.opts[Read + j]
      BY <2>1 DEF OptionsInv
    <3>3. Read' = Read BY <3>1 DEF Read
    <3>4. Meaning(Read)' BY <3>1, <3>2, <3>3 DEF Meaning
    <3>5. Sensible(c)' BY <3>1, <3>2
    <3> QED BY <1>1, <2>1, <3>1, <3>2, <3>3, <3>4, <3>5 DEF OptionsInv, PcValues, OptionsMean
  <2>2. CASE pc # "options"
    BY <1>6, <2>2, OptionsKept DEF lsvars, settings, OptionsInv
  <2> QED BY <2>1, <2>2
<1> QED BY <1>2, <1>3, <1>4, <1>5, <1>6, LaterSteps DEF OptionsInv

\* The settings mean what the places of the options say, for every command
\* line of options that getopt knows: OptionsMean, about ls_main.
THEOREM OptionsOrdered == Spec => []OptionsMean
<1>1. OptionsInv => OptionsMean BY DEF OptionsInv
<1> QED BY <1>1, OptionsFirst, OptionsNext, OfLs, PTL DEF Spec

\* The settings are what the rest of ls expects.
THEOREM OptionsTyped == Spec => []OptionsInv
BY OptionsFirst, OptionsNext, OfLs, PTL DEF Spec

-----------------------------------------------------------------------------
(* Conversions.                                                            *)

\* The conversions depend on no state.
LEMMA ConversionsHold == Conversions
<1>1. ModesReadable BY ModesApart DEF ModesReadable
<1>2. SizesReadable
  <2>1. SUFFICES ASSUME NEW n \in LongSizes
        PROVE  LET r == HumanReadable(n, 0)
                   error == 10 * n - (10 * r.val + r.frac) * Unit(r.units)
                   cut == Unit(r.units - 1) - 1
               IN /\ r.frac \in 0..9
                  /\ r.units < 4 => r.val <= Kilo
                  /\ r.units = 0 => error = 0
                  /\ r.units > 0 => /\ -Unit(r.units) <= 2 * error
                                    /\ 2 * error <= Unit(r.units) + 20 * cut
    BY DEF SizesReadable
  <2>2. n \in Nat BY SampleConstants
  <2> QED BY <2>2, SizeReadable
<1>3. LinksWhole
  <2>1. \A len \in LinkLengths : len \in Nat BY SampleConstants
  <2> QED BY <2>1, ReadlinkBufferFits DEF LinksWhole
<1>4. BlocksReadable
  <2>1. \A n \in LongSizes : n \in Nat BY SampleConstants
  <2> QED BY <2>1, BlockReadable DEF BlocksReadable
<1> QED BY <1>1, <1>2, <1>3, <1>4 DEF Conversions

\* Modes, sizes of any length and texts of links of any length are printed
\* so that they can be read back: mode_string, make_human_readable_str, xreadlink.
THEOREM ConversionsReadable == Spec => []Conversions
BY ConversionsHold, PTL

-----------------------------------------------------------------------------
(* The kernel.                                                             *)

\* The directories e are those of the beginning, without some names.
Remains(e) ==
  /\ DOMAIN e = DOMAIN Entries
  /\ \A d \in DOMAIN Entries :
       /\ DOMAIN e[d] \subseteq DOMAIN Entries[d] /\ Dot \in DOMAIN e[d]
       /\ \A n \in DOMAIN e[d] : e[d][n] = Entries[d][n]

\* Lookup and Walk in directories e.
LookupIn(e, w, name) ==
  IF w.ino \in DOMAIN e /\ name \in DOMAIN e[w.ino]
    THEN [ino |-> e[w.ino][name], links |-> w.links] ELSE Lost
WalkBody(e, path) ==
  [s \in [at : Walks, k : Nat] |->
     [at |-> LookupIn(e, Follow(s.at), path[s.k + 1]), k |-> s.k + 1]]
WalkStart == [at |-> [ino |-> Cwd, links |-> 0], k |-> 0]
WalkIn(e, path) ==
  IF Len(path) > MaxPath THEN Lost ELSE Repeat(WalkBody(e, path), Len(path), WalkStart).at

\* Walk is a walk in the directories as they are.
LEMMA WalkIs == \A path : Walk(path) = WalkIn(entries, path)
BY DEF Walk, WalkIn, WalkBody, WalkStart, Lookup, LookupIn

\* A lost walk is a walk.
LEMMA LostWalk == Lost \in Walks
BY LsConstants DEF Lost, Walks, Inodes

\* Following links ends, and not at a link.
LEMMA FollowTyped ==
  ASSUME NEW w \in Walks
  PROVE  Follow(w) \in Walks /\ (Follow(w).ino = None \/ Attr[Follow(w).ino].type # "lnk")
<1>1. MaxLinks \in Nat BY LsConstants
<1>2. ASSUME NEW v \in Walks
      PROVE  FollowOne[v] = IF v.ino = None \/ Attr[v.ino].type # "lnk" THEN v
               ELSE IF v.links = MaxLinks THEN Lost ELSE [ino |-> Attr[v.ino].to, links |-> v.links + 1]
  BY DEF FollowOne
<1>3. ASSUME NEW v \in Walks PROVE FollowOne[v] \in Walks
  <2>1. CASE v.ino = None \/ Attr[v.ino].type # "lnk" BY <1>2, <2>1
  <2>2. CASE v.ino # None /\ Attr[v.ino].type = "lnk" /\ v.links = MaxLinks
    BY <1>2, <2>2, LostWalk
  <2>3. CASE v.ino # None /\ Attr[v.ino].type = "lnk" /\ v.links # MaxLinks
    <3>1. v.ino \in DOMAIN Attr /\ v.links \in 0..MaxLinks BY <2>3 DEF Walks, Inodes
    <3>2. Attr[v.ino].to \in Inodes BY <2>3, <3>1, InodeConstants DEF Inodes
    <3>3. v.links + 1 \in 0..MaxLinks BY <1>1, <2>3, <3>1
    <3>4. FollowOne[v] = [ino |-> Attr[v.ino].to, links |-> v.links + 1] BY <1>2, <2>3
    <3> QED BY <3>2, <3>3, <3>4 DEF Walks
  <2> QED BY <2>1, <2>2, <2>3
<1> DEFINE rank == [v \in Walks |-> IF v.ino = None \/ Attr[v.ino].type # "lnk" THEN 0
                                    ELSE (MaxLinks + 1) - v.links]
<1>4. \A v \in Walks : rank[v] \in Nat /\ rank[v] <= MaxLinks + 1
  BY <1>1 DEF Walks
<1>5. \A v \in Walks : rank[v] = 0 => rank[FollowOne[v]] = 0
  <2>1. ASSUME NEW v \in Walks, rank[v] = 0 PROVE v.ino = None \/ Attr[v.ino].type # "lnk"
    BY <1>1, <2>1 DEF Walks
  <2> QED BY <1>2, <2>1
<1>6. ASSUME NEW v \in Walks, rank[v] > 0 PROVE rank[FollowOne[v]] < rank[v]
  <2>1. v.ino # None /\ Attr[v.ino].type = "lnk" BY <1>6
  <2>2. CASE v.links = MaxLinks
    <3>1. FollowOne[v] = Lost BY <1>2, <2>1, <2>2
    <3>2. rank[Lost] = 0 BY LostWalk DEF Lost
    <3> QED BY <1>6, <3>1, <3>2
  <2>3. CASE v.links # MaxLinks
    <3>1. FollowOne[v] = [ino |-> Attr[v.ino].to, links |-> v.links + 1] BY <1>2, <2>1, <2>3
    <3>2. FollowOne[v] \in Walks /\ FollowOne[v].links = v.links + 1 BY <1>3, <3>1
    <3>3. v.links \in 0..MaxLinks BY DEF Walks
    <3>4. rank[FollowOne[v]] <= (MaxLinks + 1) - (v.links + 1) BY <1>1, <2>3, <3>2, <3>3
    <3>5. rank[v] = (MaxLinks + 1) - v.links BY <2>1
    <3>6. rank[FollowOne[v]] \in Nat BY <1>4, <3>2
    <3> QED BY <1>1, <3>3, <3>4, <3>5, <3>6
  <2> QED BY <2>2, <2>3
<1> HIDE DEF rank
<1>7. Follow(w) \in Walks
  <2>1. \A n \in Nat : Repeat(FollowOne, n, w) \in Walks BY <1>3, RepeatKeeps
  <2> QED BY <1>1, <2>1 DEF Follow
<1>8. rank[Follow(w)] = 0
  <2>1. MaxLinks + 1 \in Nat /\ rank[w] <= MaxLinks + 1 BY <1>1, <1>4
  <2>2. \A v \in Walks : rank[v] \in Nat BY <1>4
  <2>3. rank[Repeat(FollowOne, MaxLinks + 1, w)] = 0
    BY <1>3, <1>5, <1>6, <2>1, <2>2, RepeatEnds
  <2> QED BY <2>3 DEF Follow
<1>9. Follow(w).ino = None \/ Attr[Follow(w).ino].type # "lnk"
  BY <1>1, <1>7, <1>8 DEF rank, Walks
<1> QED BY <1>7, <1>9

\* It leads nowhere from nowhere.
LEMMA FollowLost == Follow(Lost) = Lost
<1>1. FollowOne[Lost] = Lost BY LostWalk DEF FollowOne, Lost
<1>2. \A v \in {Lost} : FollowOne[v] \in {Lost} BY <1>1
<1>3. \A n \in Nat : Repeat(FollowOne, n, Lost) \in {Lost}
  <2> DEFINE P == {Lost}
             x == Lost
  <2>1. x \in P /\ \A v \in P : FollowOne[v] \in P BY <1>2
  <2> HIDE DEF P, x
  <2>2. \A n \in Nat : Repeat(FollowOne, n, x) \in P BY <2>1, RepeatKeeps
  <2> QED BY <2>2 DEF P, x
<1>4. MaxLinks + 1 \in Nat BY LsConstants
<1> QED BY <1>3, <1>4 DEF Follow

\* Looking a name up.
LEMMA LookupTyped ==
  ASSUME NEW e, Remains(e), NEW w \in Walks, NEW n
  PROVE  LookupIn(e, w, n) \in Walks
<1>1. CASE w.ino \in DOMAIN e /\ n \in DOMAIN e[w.ino]
  <2>1. LookupIn(e, w, n) = [ino |-> e[w.ino][n], links |-> w.links] BY <1>1 DEF LookupIn
  <2>2. e[w.ino][n] = Entries[w.ino][n] /\ n \in DOMAIN Entries[w.ino] /\ w.ino \in DOMAIN Entries
    BY <1>1 DEF Remains
  <2>3. e[w.ino][n] \in DOMAIN Attr BY <2>2, InodeConstants
  <2> QED BY <2>1, <2>3 DEF Walks, Inodes
<1>2. CASE ~(w.ino \in DOMAIN e /\ n \in DOMAIN e[w.ino])
  BY <1>2, LostWalk DEF LookupIn
<1> QED BY <1>1, <1>2

WalkStates == [at : Walks, k : Nat]

\* One name of a walk.
LEMMA WalkBodyTyped ==
  ASSUME NEW e, Remains(e), NEW path, NEW s \in WalkStates
  PROVE  /\ WalkBody(e, path)[s] = [at |-> LookupIn(e, Follow(s.at), path[s.k + 1]), k |-> s.k + 1]
         /\ WalkBody(e, path)[s] \in WalkStates
<1>1. WalkBody(e, path)[s] = [at |-> LookupIn(e, Follow(s.at), path[s.k + 1]), k |-> s.k + 1]
  BY DEF WalkBody, WalkStates
<1>2. s.at \in Walks /\ s.k \in Nat BY DEF WalkStates
<1>3. LookupIn(e, Follow(s.at), path[s.k + 1]) \in Walks BY <1>2, FollowTyped, LookupTyped
<1> QED BY <1>1, <1>2, <1>3 DEF WalkStates

\* Where it begins.
LEMMA StartTyped == WalkStart \in WalkStates
<1>1. Cwd \in DOMAIN Attr BY InodeConstants
<1>2. 0 \in 0..MaxLinks BY LsConstants
<1>3. [ino |-> Cwd, links |-> 0] \in Walks BY <1>1, <1>2 DEF Walks, Inodes
<1> QED BY <1>3 DEF WalkStart, WalkStates

\* After n rounds the walk has gone n names.
LEMMA WalkRounds ==
  ASSUME NEW e, Remains(e), NEW path, NEW n \in Nat
  PROVE  Repeat(WalkBody(e, path), n, WalkStart) \in [at : Walks, k : {n}]
<1> DEFINE f == WalkBody(e, path)
           Q == [k \in 0..n |-> [at : Walks, k : {k}]]
           x == WalkStart
<1>1. x \in Q[0] BY StartTyped DEF WalkStart, WalkStates
<1>2. ASSUME NEW k \in 0..(n - 1), NEW v \in Q[k] PROVE f[v] \in Q[k + 1]
  <2>1. v \in WalkStates /\ v.k = k BY DEF WalkStates
  <2>2. \A s \in WalkStates :
          /\ f[s] = [at |-> LookupIn(e, Follow(s.at), path[s.k + 1]), k |-> s.k + 1]
          /\ f[s] \in WalkStates
    BY WalkBodyTyped
  <2>3. f[v] \in WalkStates /\ f[v].k = k + 1
    <3> HIDE DEF f
    <3>1. f[v] = [at |-> LookupIn(e, Follow(v.at), path[v.k + 1]), k |-> v.k + 1]
      BY ONLY <2>1, <2>2
    <3>2. f[v].k = v.k + 1 BY ONLY <3>1
    <3>3. f[v] \in WalkStates BY ONLY <2>1, <2>2
    <3> QED BY ONLY <2>1, <3>2, <3>3
  <2>4. k + 1 \in 0..n BY <1>2
  <2> QED BY <2>3, <2>4 DEF WalkStates
<1> HIDE DEF f, Q, x
<1>3. Repeat(f, n, x) \in Q[n] BY <1>1, <1>2, RepeatIndexed
<1> QED BY <1>3 DEF f, Q, x

\* A walk ends at an inode, or nowhere.
LEMMA WalkTyped ==
  ASSUME NEW e, Remains(e), NEW path, Len(path) \in Nat
  PROVE  WalkIn(e, path) \in Walks
BY WalkRounds, LostWalk DEF WalkIn

\* Two loops that start alike and do the same at each round end alike.
LEMMA RepeatAgree ==
  ASSUME NEW f, NEW g, NEW n \in Nat, NEW x,
         \A k \in 0..(n - 1) : f[Repeat(f, k, x)] = g[Repeat(f, k, x)]
  PROVE  Repeat(f, n, x) = Repeat(g, n, x)
<1> DEFINE S == {k \in Nat : k <= n => Repeat(f, k, x) = Repeat(g, k, x)}
<1>1. 0 \in S BY RepeatZero
<1>2. ASSUME NEW k \in S PROVE k + 1 \in S
  <2>1. k \in Nat /\ k + 1 \in Nat OBVIOUS
  <2>2. CASE k + 1 <= n
    <3>1. k \in 0..(n - 1) /\ k <= n BY <2>1, <2>2
    <3>2. Repeat(f, k, x) = Repeat(g, k, x) BY <3>1
    <3>3. Repeat(f, k + 1, x) = f[Repeat(f, k, x)] BY <2>1, RepeatStep
    <3>4. Repeat(g, k + 1, x) = g[Repeat(g, k, x)] BY <2>1, RepeatStep
    <3> QED BY <2>1, <3>1, <3>2, <3>3, <3>4
  <2> QED BY <2>1, <2>2
<1>3. S = Nat BY <1>1, <1>2, FromMin
<1> QED BY <1>3

\* A walk along one more name.
LEMMA WalkOn ==
  ASSUME NEW e, Remains(e), NEW path \in Paths, NEW n \in DOMAIN NameLen, Len(path) < MaxPath
  PROVE  WalkIn(e, Append(path, n)) = LookupIn(e, Follow(WalkIn(e, path)), n)
<1> DEFINE m == Len(path)
           p == Append(path, n)
           f == WalkBody(e, path)
           g == WalkBody(e, p)
           x == WalkStart
<1>0. m \in Nat /\ p \in Paths /\ Len(p) = m + 1 /\ MaxPath \in Nat
      /\ p[m + 1] = n /\ \A i \in 1..m : p[i] = path[i]
  BY LsConstants DEF Paths
<1>1. \A k \in 0..m : Repeat(f, k, x) \in WalkStates /\ Repeat(f, k, x).k = k
  <2>1. \A k \in 0..m : k \in Nat BY <1>0
  <2>2. \A k \in 0..m : Repeat(f, k, x) \in [at : Walks, k : {k}] BY <2>1, WalkRounds
  <2> HIDE DEF f, x, m
  <2> QED BY <2>1, <2>2 DEF WalkStates
<1>2. \A s \in WalkStates :
        /\ f[s] = [at |-> LookupIn(e, Follow(s.at), path[s.k + 1]), k |-> s.k + 1]
        /\ g[s] = [at |-> LookupIn(e, Follow(s.at), p[s.k + 1]), k |-> s.k + 1]
  BY WalkBodyTyped
<1> DEFINE y(k) == Repeat(f, k, x)
<1>3. WalkIn(e, path) = y(m).at /\ WalkIn(e, p) = Repeat(g, m + 1, x).at BY <1>0 DEF WalkIn
<1> HIDE DEF f, g, x, p, m
<1>4. ASSUME NEW k \in 0..(m - 1) PROVE f[y(k)] = g[y(k)]
  <2>1. k \in 0..m /\ k + 1 \in 1..m BY <1>0
  <2>2. y(k) \in WalkStates /\ y(k).k = k BY <1>1, <2>1
  <2>3. path[k + 1] = p[k + 1] BY <1>0, <2>1
  <2> HIDE DEF y
  <2> QED BY ONLY <1>2, <2>2, <2>3
<1>5. y(m) = Repeat(g, m, x) BY <1>0, <1>4, RepeatAgree
<1>6. Repeat(g, m + 1, x) = g[y(m)] BY <1>0, <1>5, RepeatStep
<1>7. y(m) \in WalkStates /\ y(m).k = m BY <1>0, <1>1
<1> HIDE DEF y
<1>8. g[y(m)].at = LookupIn(e, Follow(y(m).at), p[m + 1])
  <2> DEFINE z == y(m)
  <2>1. z \in WalkStates /\ z.k = m BY <1>7
  <2> HIDE DEF z
  <2>2. g[z] = [at |-> LookupIn(e, Follow(z.at), p[z.k + 1]), k |-> z.k + 1] BY ONLY <1>2, <2>1
  <2>3. g[z].at = LookupIn(e, Follow(z.at), p[m + 1]) BY ONLY <2>1, <2>2
  <2> QED BY <2>3 DEF z
<1>9. WalkIn(e, p) = LookupIn(e, Follow(WalkIn(e, path)), n) BY <1>0, <1>3, <1>6, <1>8
<1> QED BY <1>9 DEF p

\* Directories that have lost names.
Shrunk(e, f) == \A d \in DOMAIN Entries : DOMAIN f[d] \subseteq DOMAIN e[d]

\* A name leads where it led before, or nowhere.
LEMMA LookupLess ==
  ASSUME NEW e, NEW f, Remains(e), Remains(f), Shrunk(e, f),
         NEW w \in Walks, NEW v \in {w, Lost}, NEW n
  PROVE  LookupIn(f, v, n) \in {LookupIn(e, w, n), Lost}
<1>1. CASE v.ino \in DOMAIN f /\ n \in DOMAIN f[v.ino]
  <2>1. v.ino # None BY <1>1, InodeConstants DEF Remains
  <2>2. v = w BY <2>1 DEF Lost
  <2>3. w.ino \in DOMAIN Entries /\ n \in DOMAIN f[w.ino] BY <1>1, <2>2 DEF Remains
  <2>4. n \in DOMAIN e[w.ino] /\ f[w.ino][n] = e[w.ino][n] BY <2>3 DEF Remains, Shrunk
  <2>5. w.ino \in DOMAIN e BY <2>3 DEF Remains
  <2> QED BY <1>1, <2>2, <2>4, <2>5 DEF LookupIn
<1>2. CASE ~(v.ino \in DOMAIN f /\ n \in DOMAIN f[v.ino])
  BY <1>2 DEF LookupIn
<1> QED BY <1>1, <1>2

\* A path leads where it led before, or nowhere.
LEMMA WalkLess ==
  ASSUME NEW e, NEW f, Remains(e), Remains(f), Shrunk(e, f), NEW path, Len(path) \in Nat
  PROVE  WalkIn(f, path) \in {WalkIn(e, path), Lost}
<1> DEFINE n == Len(path)
           x == WalkStart
           a == WalkBody(e, path)
           b == WalkBody(f, path)
           S == {k \in Nat : Repeat(b, k, x).at \in {Repeat(a, k, x).at, Lost}}
<1>1. 0 \in S BY RepeatZero
<1>2. ASSUME NEW k \in S PROVE k + 1 \in S
  <2> DEFINE y == Repeat(a, k, x)
             z == Repeat(b, k, x)
  <2>1. k \in Nat /\ z.at \in {y.at, Lost} OBVIOUS
  <2>2. y \in [at : Walks, k : {k}] /\ z \in [at : Walks, k : {k}] BY <2>1, WalkRounds
  <2>3. Repeat(a, k + 1, x) = a[y] /\ Repeat(b, k + 1, x) = b[z] BY <2>1, RepeatStep
  <2>4. y \in WalkStates /\ z \in WalkStates /\ y.k = k /\ z.k = k
    <3> HIDE DEF y, z
    <3> QED BY <2>1, <2>2 DEF WalkStates
  <2>5. a[y] = [at |-> LookupIn(e, Follow(y.at), path[y.k + 1]), k |-> y.k + 1]
    BY <2>4, WalkBodyTyped
  <2>6. b[z] = [at |-> LookupIn(f, Follow(z.at), path[z.k + 1]), k |-> z.k + 1]
    BY <2>4, WalkBodyTyped
  <2> HIDE DEF a, b, x, y, z
  <2>7. a[y].at = LookupIn(e, Follow(y.at), path[k + 1]) BY ONLY <2>4, <2>5
  <2>8. b[z].at = LookupIn(f, Follow(z.at), path[k + 1]) BY ONLY <2>4, <2>6
  <2>9. Follow(z.at) \in {Follow(y.at), Lost} BY <2>1, FollowLost
  <2>10. Follow(y.at) \in Walks BY <2>4, FollowTyped DEF WalkStates
  <2>11. b[z].at \in {a[y].at, Lost} BY <2>7, <2>8, <2>9, <2>10, LookupLess
  <2> QED BY <2>1, <2>3, <2>11
<1>3. S = Nat BY <1>1, <1>2, FromMin
<1> QED BY <1>3 DEF WalkIn

-----------------------------------------------------------------------------
(* Chains and arrays of dnodes.                                            *)

\* The elements, with one more.
LEMMA ToSetAppend ==
  ASSUME NEW T, NEW s \in Seq(T), NEW x
  PROVE  ToSet(Append(s, x)) = ToSet(s) \cup {x}
<1> DEFINE a == Append(s, x)
<1>1. DOMAIN s = 1..Len(s) /\ DOMAIN a = 1..(Len(s) + 1) /\ Len(s) \in Nat OBVIOUS
<1>2. a[Len(s) + 1] = x /\ \A i \in 1..Len(s) : a[i] = s[i] OBVIOUS
<1>3. \A i \in 1..(Len(s) + 1) : i \in 1..Len(s) \/ i = Len(s) + 1 BY <1>1
<1>4. \A i \in 1..Len(s) : i \in 1..(Len(s) + 1) BY <1>1
<1>5. Len(s) + 1 \in 1..(Len(s) + 1) BY <1>1
<1> HIDE DEF a
<1>6. ToSet(a) = ToSet(s) \cup {x} BY <1>1, <1>2, <1>3, <1>4, <1>5 DEF ToSet
<1> QED BY <1>6 DEF a

\* One more, that was not there.
LEMMA OnceAppend ==
  ASSUME NEW T, NEW s \in Seq(T), Once(s), NEW x, x \notin ToSet(s)
  PROVE  Once(Append(s, x))
<1> DEFINE a == Append(s, x)
<1>1. DOMAIN s = 1..Len(s) /\ DOMAIN a = 1..(Len(s) + 1) /\ Len(s) \in Nat OBVIOUS
<1>2. a[Len(s) + 1] = x /\ \A i \in 1..Len(s) : a[i] = s[i] OBVIOUS
<1>3. \A i \in 1..(Len(s) + 1) : i \in 1..Len(s) \/ i = Len(s) + 1 BY <1>1
<1>4. \A i \in 1..Len(s) : s[i] # x BY <1>1 DEF ToSet
<1> HIDE DEF a
<1>5. Once(a) BY <1>1, <1>2, <1>3, <1>4 DEF Once
<1> QED BY <1>5 DEF a

\* The dnodes h, and a set of them that next pointers do not leave.
Older(h, m) ==
  /\ m \in Nat /\ DOMAIN h \subseteq 1..m
  /\ \A id \in DOMAIN h : h[id].next \in Nat /\ h[id].next < id
Closed(h, T) == \A id \in T : id \in DOMAIN h /\ h[id].next \in T \cup {0}

ChainBody(h) ==
  [s \in [ids : Seq(Nat), next : Nat] |->
     IF s.next = 0 THEN s ELSE [ids |-> Append(s.ids, s.next), next |-> h[s.next].next]]
ChainIn(h, m, id) == Repeat(ChainBody(h), m, [ids |-> << >>, next |-> id]).ids

\* Chain is the chain in the heap as it is.
LEMMA ChainIs == \A id : Chain(id) = ChainIn(heap, made, id)
BY DEF Chain, ChainIn, ChainBody

\* A chain stays in a set that next pointers do not leave, and they do not
\* leave the chain: the loop has rounds enough.
LEMMA ChainClosed ==
  ASSUME NEW h, NEW m, Older(h, m), NEW T, Closed(h, T), NEW id \in T \cup {0}
  PROVE  /\ ChainIn(h, m, id) \in Seq(T)
         /\ Closed(h, ToSet(ChainIn(h, m, id)))
         /\ id \in ToSet(ChainIn(h, m, id)) \cup {0}
         /\ Once(ChainIn(h, m, id))
<1> DEFINE f == ChainBody(h)
           x == [ids |-> << >>, next |-> id]
           P == {s \in [ids : Seq(T), next : T \cup {0}] :
                   /\ id \in ToSet(s.ids) \cup {s.next}
                   /\ Once(s.ids) /\ \A i \in ToSet(s.ids) : s.next < i
                   /\ \A i \in ToSet(s.ids) : h[i].next \in ToSet(s.ids) \cup {s.next, 0}}
           rank == [s \in P |-> s.next]
           y == Repeat(f, m, x)
<1>1. /\ T \subseteq DOMAIN h /\ T \subseteq Nat /\ 0 \notin T
      /\ \A i \in T : i \in 1..m /\ h[i].next \in T \cup {0} /\ h[i].next < i
  BY DEF Older, Closed
<1>2. x \in P
  <2>1. ToSet(<< >>) = {} BY DEF ToSet
  <2>2. << >> \in Seq(T) /\ Once(<< >>) BY DEF Once
  <2> QED BY <2>1, <2>2
<1>3. ASSUME NEW s \in P
      PROVE  f[s] = IF s.next = 0 THEN s
                    ELSE [ids |-> Append(s.ids, s.next), next |-> h[s.next].next]
  <2>1. s.ids \in Seq(T) /\ s.next \in T \cup {0} /\ s = [ids |-> s.ids, next |-> s.next] OBVIOUS
  <2>2. s.ids \in Seq(Nat) BY <1>1, <2>1
  <2>3. s \in [ids : Seq(Nat), next : Nat] BY <1>1, <2>1, <2>2
  <2> QED BY <2>3 DEF ChainBody
<1>4. ASSUME NEW s \in P PROVE f[s] \in P
  <2>1. CASE s.next = 0 BY <1>3, <2>1
  <2>2. CASE s.next # 0
    <3> DEFINE t == [ids |-> Append(s.ids, s.next), next |-> h[s.next].next]
    <3>1. /\ s.ids \in Seq(T) /\ s.next \in T /\ id \in ToSet(s.ids) \cup {s.next}
          /\ \A i \in ToSet(s.ids) : h[i].next \in ToSet(s.ids) \cup {s.next, 0}
      BY <2>2
    <3>2. ToSet(Append(s.ids, s.next)) = ToSet(s.ids) \cup {s.next} BY <3>1, ToSetAppend
    <3>3. /\ Append(s.ids, s.next) \in Seq(T) /\ h[s.next].next \in T \cup {0}
          /\ h[s.next].next < s.next /\ s.next \in Nat /\ h[s.next].next \in Nat
      BY <1>1, <3>1
    <3>4. /\ Once(s.ids) /\ ToSet(s.ids) \subseteq T
          /\ \A i \in ToSet(s.ids) : s.next < i
      BY <3>1 DEF ToSet
    <3>5. Once(Append(s.ids, s.next)) BY <3>1, <3>3, <3>4, OnceAppend
    <3>6. \A i \in ToSet(s.ids) \cup {s.next} : h[s.next].next < i BY <1>1, <3>3, <3>4
    <3>7. t \in P BY <3>1, <3>2, <3>3, <3>5, <3>6
    <3> HIDE DEF P, f, t
    <3>8. f[s] = t BY <1>3, <2>2 DEF t
    <3> QED BY <3>7, <3>8
  <2> QED BY <2>1, <2>2
<1>5. \A s \in P : rank[s] \in Nat BY <1>1
<1>6. ASSUME NEW s \in P
      PROVE  (rank[s] = 0 => rank[f[s]] = 0) /\ (rank[s] > 0 => rank[f[s]] < rank[s])
  <2>1. f[s] \in P BY <1>4
  <2>2. rank[s] = s.next /\ rank[f[s]] = f[s].next BY <2>1
  <2>3. s.next \in T \cup {0} OBVIOUS
  <2> HIDE DEF P, rank, f
  <2>4. s.next = 0 => f[s].next = 0 BY <1>3
  <2>5. s.next # 0 => f[s].next = h[s.next].next
    <3>1. ASSUME s.next # 0 PROVE f[s] = [ids |-> Append(s.ids, s.next), next |-> h[s.next].next]
      BY <1>3, <3>1
    <3>2. [ids |-> Append(s.ids, s.next), next |-> h[s.next].next].next = h[s.next].next OBVIOUS
    <3> QED BY ONLY <3>1, <3>2
  <2>6. s.next # 0 => f[s].next < s.next BY <1>1, <2>3, <2>5
  <2> QED BY <1>1, <2>2, <2>3, <2>4, <2>6
<1>7. m \in Nat /\ rank[x] <= m
  <2>1. m \in Nat BY DEF Older
  <2>2. rank[x] = id BY <1>2
  <2> QED BY <1>1, <2>1, <2>2
<1>8. y \in P
  <2> HIDE DEF P, f, x
  <2> QED BY <1>2, <1>4, <1>7, RepeatKeeps
<1>9. y.next = 0
  <2>1. rank[y] = y.next BY <1>8
  <2> HIDE DEF P, f, x, rank
  <2>2. rank[y] = 0 BY <1>2, <1>4, <1>5, <1>6, <1>7, RepeatEnds
  <2> QED BY <2>1, <2>2
<1>10. /\ y.ids \in Seq(T) /\ id \in ToSet(y.ids) \cup {0}
       /\ \A i \in ToSet(y.ids) : h[i].next \in ToSet(y.ids) \cup {0}
       /\ Once(y.ids)
  <2> HIDE DEF y
  <2> QED BY <1>8, <1>9
<1> HIDE DEF y
<1>11. ToSet(y.ids) \subseteq T BY <1>10 DEF ToSet
<1>12. Closed(h, ToSet(y.ids)) BY <1>1, <1>10, <1>11 DEF Closed
<1> QED BY <1>10, <1>12 DEF ChainIn, y

\* A new node at the front adds itself to the chain, and nothing else.
LEMMA ChainGrows ==
  ASSUME NEW h, NEW m, Older(h, m), NEW T, Closed(h, T), NEW id \in T \cup {0},
         NEW h2, DOMAIN h2 = DOMAIN h \cup {m + 1}, \A i \in DOMAIN h : h2[i] = h[i],
         h2[m + 1].next = id
  PROVE  /\ Older(h2, m + 1)
         /\ ToSet(ChainIn(h2, m + 1, m + 1)) = ToSet(ChainIn(h, m, id)) \cup {m + 1}
<1> DEFINE A == ToSet(ChainIn(h, m, id))
           n == m + 1
           B == ToSet(ChainIn(h2, n, n))
<1>1. /\ m \in Nat /\ n \in Nat /\ 0 # n /\ n \notin DOMAIN h /\ DOMAIN h \subseteq 1..m
      /\ \A i \in DOMAIN h : i \in 1..m /\ h[i].next \in Nat /\ h[i].next < i /\ i < n
  BY DEF Older
<1>2. T \subseteq DOMAIN h /\ \A i \in T : h[i].next \in T \cup {0} BY DEF Closed
<1>3. Older(h2, n)
  <2>1. DOMAIN h2 \subseteq 1..n BY <1>1
  <2>2. id \in Nat /\ id < n BY <1>1, <1>2
  <2> HIDE DEF n
  <2>3. \A i \in DOMAIN h2 : i = n \/ i \in DOMAIN h BY DEF n
  <2>4. h2[n].next = id BY DEF n
  <2> QED BY <1>1, <2>1, <2>2, <2>3, <2>4 DEF Older
<1>4. Closed(h, A) /\ id \in A \cup {0} /\ A \subseteq T
  <2>1. ChainIn(h, m, id) \in Seq(T) BY ChainClosed
  <2>2. Closed(h, A) /\ id \in A \cup {0} BY ChainClosed
  <2> QED BY <2>1, <2>2 DEF ToSet
<1>5. Closed(h2, A \cup {n}) BY <1>1, <1>4 DEF Closed
<1>6. Closed(h2, B) /\ n \in B /\ B \subseteq A \cup {n}
  <2>1. n \in (A \cup {n}) \cup {0} OBVIOUS
  <2> HIDE DEF n, A
  <2>2. ChainIn(h2, n, n) \in Seq(A \cup {n}) /\ Closed(h2, B) /\ n \in B \cup {0}
    BY <1>3, <1>5, <2>1, ChainClosed
  <2> QED BY <1>1, <2>2 DEF ToSet
<1>7. B \ {n} \subseteq T BY <1>4, <1>6
<1>8. id \in (B \ {n}) \cup {0}
  <2>1. h2[n].next \in B \cup {0} BY <1>6 DEF Closed
  <2>2. id # n BY <1>1, <1>2
  <2> QED BY <2>1, <2>2
<1>9. Closed(h, B \ {n})
  <2> SUFFICES ASSUME NEW i \in B \ {n} PROVE i \in DOMAIN h /\ h[i].next \in (B \ {n}) \cup {0}
    BY DEF Closed
  <2>1. i \in DOMAIN h BY <1>2, <1>7
  <2>2. h2[i].next \in B \cup {0} BY <1>6 DEF Closed
  <2>3. h[i].next # n BY <1>1, <2>1
  <2> QED BY <2>1, <2>2, <2>3
<1>10. A \subseteq B \ {n}
  <2> HIDE DEF A, B
  <2>1. ChainIn(h, m, id) \in Seq(B \ {n}) BY <1>8, <1>9, ChainClosed
  <2> QED BY <2>1 DEF A, ToSet
<1> QED BY <1>3, <1>6, <1>10

\* The null pointer has an empty chain.
LEMMA ChainOfNone ==
  ASSUME NEW h, NEW m, Older(h, m) PROVE ToSet(ChainIn(h, m, 0)) = {}
<1>1. Closed(h, {}) BY DEF Closed
<1>2. ChainIn(h, m, 0) \in Seq({}) BY <1>1, ChainClosed
<1> QED BY <1>2 DEF ToSet

-----------------------------------------------------------------------------

\* splitdnarray: the elements that it keeps.
LEMMA KeepIs ==
  ASSUME NEW T, NEW ids \in Seq(T), NEW set
  PROVE  /\ Keep(ids, set) \in Seq(set \cap T) /\ ToSet(Keep(ids, set)) = ToSet(ids) \cap set
         /\ Once(ids) => Once(Keep(ids, set))
<1> DEFINE n == Len(ids)
           f == [s \in [kept : Seq(set), i : Nat] |->
                  [kept |-> IF ids[s.i] \in set THEN Append(s.kept, ids[s.i]) ELSE s.kept,
                   i |-> s.i + 1]]
           x == [kept |-> << >>, i |-> 1]
           First(k) == {ids[j] : j \in 1..k} \cap set
           At(k) == {s \in [kept : Seq(set \cap T), i : {k + 1}] :
                       ToSet(s.kept) = First(k) /\ (Once(ids) => Once(s.kept))}
           Q == [k \in 0..n |-> At(k)]
<1>1. n \in Nat /\ DOMAIN ids = 1..n /\ \A j \in 1..n : ids[j] \in T OBVIOUS
<1>2. x \in Q[0]
  <2>1. ToSet(<< >>) = {} BY DEF ToSet
  <2>2. First(0) = {} OBVIOUS
  <2>3. << >> \in Seq(set \cap T) /\ 0 + 1 = 1 /\ Once(<< >>) BY DEF Once
  <2> HIDE DEF First
  <2>4. x \in At(0) BY <2>1, <2>2, <2>3
  <2> HIDE DEF At, x
  <2> QED BY <1>1, <2>4
<1>3. ASSUME NEW k \in 0..(n - 1), NEW s \in Q[k] PROVE f[s] \in Q[k + 1]
  <2>1. /\ k \in Nat /\ k + 1 \in 1..n /\ k + 1 \in 0..n /\ ids[k + 1] \in T
        /\ Q[k] = At(k) /\ Q[k + 1] = At(k + 1)
    <3>1. k \in Nat /\ k \in 0..n /\ k + 1 \in 1..n /\ k + 1 \in 0..n BY <1>1
    <3> HIDE DEF At
    <3> QED BY <1>1, <3>1
  <2>2. /\ s.kept \in Seq(set \cap T) /\ s.i = k + 1 /\ ToSet(s.kept) = First(k)
        /\ s = [kept |-> s.kept, i |-> s.i] /\ (Once(ids) => Once(s.kept))
    <3> HIDE DEF First, Q
    <3>1. s \in At(k) BY <2>1
    <3> QED BY ONLY <3>1
  <2> DEFINE id == ids[k + 1]
             t == [kept |-> IF id \in set THEN Append(s.kept, id) ELSE s.kept, i |-> (k + 1) + 1]
  <2>3. f[s] = t
    <3>1. s.kept \in Seq(set) BY <2>2
    <3>2. s \in [kept : Seq(set), i : Nat] BY <2>1, <2>2, <3>1
    <3>3. f[s] = [kept |-> IF ids[s.i] \in set THEN Append(s.kept, ids[s.i]) ELSE s.kept,
                   i |-> s.i + 1]
      BY <3>2
    <3> HIDE DEF f, Q
    <3> QED BY <2>2, <3>3
  <2>4. First(k + 1) = First(k) \cup ({id} \cap set)
    <3>1. \A j \in 1..(k + 1) : j = k + 1 \/ j \in 1..k BY <2>1
    <3>2. 1..k \subseteq 1..(k + 1) /\ k + 1 \in 1..(k + 1) BY <2>1
    <3> QED BY <3>1, <3>2
  <2>7. Once(ids) => id \notin First(k)
    <3>1. \A j \in 1..k : j \in DOMAIN ids /\ j # k + 1 BY <1>1, <2>1
    <3> QED BY <1>1, <2>1, <3>1 DEF Once
  <2> HIDE DEF First, Q, f, At
  <2>5. CASE id \in set
    <3>1. Append(s.kept, id) \in Seq(set \cap T) BY <2>1, <2>2, <2>5
    <3>2. ToSet(Append(s.kept, id)) = ToSet(s.kept) \cup {id} BY <2>2, ToSetAppend
    <3>3. t = [kept |-> Append(s.kept, id), i |-> (k + 1) + 1] BY <2>5
    <3>4. ToSet(t.kept) = First(k + 1) BY <2>2, <2>4, <2>5, <3>2, <3>3
    <3>5. t \in [kept : Seq(set \cap T), i : {(k + 1) + 1}] BY <3>1, <3>3
    <3>7. Once(ids) => Once(t.kept)
      <4>1. s.kept \in Seq(set \cap T) BY <2>2
      <4> QED BY <2>2, <2>7, <3>3, <4>1, OnceAppend
    <3> HIDE DEF t
    <3>6. t \in At(k + 1) BY ONLY <3>4, <3>5, <3>7 DEF At
    <3> QED BY ONLY <2>1, <2>3, <3>6
  <2>6. CASE id \notin set
    <3>1. t = [kept |-> s.kept, i |-> (k + 1) + 1] BY <2>6
    <3>2. ToSet(s.kept) = First(k + 1) BY <2>2, <2>4, <2>6
    <3>3. t.kept = s.kept BY <3>1
    <3> HIDE DEF t
    <3>4. t \in [kept : Seq(set \cap T), i : {(k + 1) + 1}] BY <2>2, <3>1
    <3>5. t \in At(k + 1) BY ONLY <2>2, <3>2, <3>3, <3>4 DEF At
    <3> QED BY ONLY <2>1, <2>3, <3>5
  <2> QED BY <2>5, <2>6
<1> HIDE DEF f, x, Q, At
<1>4. Repeat(f, n, x) \in Q[n] BY <1>1, <1>2, <1>3, RepeatIndexed
<1>5. First(n) = ToSet(ids) \cap set BY <1>1 DEF ToSet
<1> HIDE DEF First
<1>6. /\ Repeat(f, n, x).kept \in Seq(set \cap T) /\ ToSet(Repeat(f, n, x).kept) = First(n)
      /\ Once(ids) => Once(Repeat(f, n, x).kept)
  <2> DEFINE y == Repeat(f, n, x)
  <2>1. y \in Q[n] /\ n \in 0..n BY <1>1, <1>4
  <2> HIDE DEF y, n
  <2>2. /\ y \in [kept : Seq(set \cap T), i : {n + 1}] /\ ToSet(y.kept) = First(n)
        /\ Once(ids) => Once(y.kept)
    BY <2>1 DEF Q, At
  <2> QED BY <2>2 DEF y
<1>7. Keep(ids, set) = Repeat(f, n, x).kept BY DEF Keep, f, x
<1> QED BY <1>5, <1>6, <1>7

\* The same elements, sorted.
LEMMA SortedIs ==
  ASSUME NEW T, NEW ids \in Seq(T)
  PROVE  /\ Sorted(ids) \in Seq(T) /\ Len(Sorted(ids)) = Len(ids)
         /\ ToSet(Sorted(ids)) = ToSet(ids)
         /\ Sorted(ids) = << >> <=> ids = << >>
         /\ Once(ids) => Once(Sorted(ids))
<1> DEFINE s == Sorted(ids)
<1>1. s \in Shuffles(ids) BY ShellsortSorts DEF Sorted
<1>2. s \in [DOMAIN ids -> ToSet(ids)] /\ ToSet(s) = ToSet(ids) /\ (Once(ids) => Once(s))
  BY <1>1 DEF Shuffles, Arrays
<1>3. DOMAIN ids = 1..Len(ids) /\ Len(ids) \in Nat /\ ToSet(ids) \subseteq T BY DEF ToSet
<1> HIDE DEF s
<1>4. s \in [1..Len(ids) -> T] BY <1>2, <1>3
<1>5. s \in Seq(T) /\ Len(s) = Len(ids) BY <1>3, <1>4, SeqDef, LenProperties
<1>6. s = << >> <=> ids = << >> BY <1>5, EmptySeq
<1> QED BY <1>2, <1>5, <1>6 DEF s

-----------------------------------------------------------------------------
(* The file system, and new dnodes.                                        *)

FilesInv ==
  /\ Remains(entries) /\ args \in Seq(DOMAIN NameLen) /\ faults \in Nat
  /\ dir \in [ino : DOMAIN Entries \cup {None}, left : SUBSET DOMAIN NameLen]
  /\ pc = "readdir" => dir.ino \in DOMAIN Entries
  /\ faults = 0 => entries = Entries

\* The invariant of the file system: at first,
LEMMA FilesFirst == Init => FilesInv
<1> SUFFICES ASSUME Init PROVE FilesInv OBVIOUS
<1>1. cmd \in CommandLines /\ args = cmd.args /\ entries = Entries /\ faults = 0
      /\ dir = [ino |-> None, left |-> {}] /\ pc = "options"
  BY DEF Init
<1>2. args \in Seq(DOMAIN NameLen) BY <1>1, CommandLineConstants
<1>3. Remains(Entries)
  <2>1. \A d \in DOMAIN Entries : Dot \in DOMAIN Entries[d] BY InodeConstants
  <2> QED BY <2>1 DEF Remains
<1> QED BY <1>1, <1>2, <1>3 DEF FilesInv

\* What the kernel answers.
LEMMA WalksTyped ==
  ASSUME Remains(entries), NEW path \in Paths
  PROVE  /\ Walk(path) \in Walks /\ Stat(path) \in Inodes /\ Lstat(path) \in Inodes
         /\ Opendir(path) \in DOMAIN Entries \cup {None}
         /\ Opendir(path) # None => Opendir(path) = Stat(path) /\ Attr[Stat(path)].type = "dir"
<1>1. Len(path) \in Nat BY DEF Paths
<1>2. Walk(path) \in Walks BY <1>1, WalkIs, WalkTyped
<1>3. Follow(Walk(path)) \in Walks BY <1>2, FollowTyped
<1>4. Stat(path) \in Inodes /\ Lstat(path) \in Inodes BY <1>2, <1>3 DEF Stat, Lstat, Walks
<1>5. Opendir(path) \in DOMAIN Entries \cup {None} BY DEF Opendir, Remains
<1>6. Opendir(path) # None => Opendir(path) = Stat(path) BY DEF Opendir
<1>7. Opendir(path) # None => Attr[Stat(path)].type = "dir" BY <1>5, <1>6, InodeConstants
<1> QED BY <1>2, <1>4, <1>5, <1>6, <1>7

\* and after every step, which takes names away at most.
LEMMA FilesNext ==
  OptionsInv /\ FilesInv /\ [LsNext]_lsvars => FilesInv' /\ Shrunk(entries, entries')
<1> SUFFICES ASSUME OptionsInv, FilesInv, [LsNext]_lsvars PROVE FilesInv' /\ Shrunk(entries, entries')
  OBVIOUS
<1>1. /\ Remains(entries) /\ args \in Seq(DOMAIN NameLen) /\ faults \in Nat
      /\ dir \in [ino : DOMAIN Entries \cup {None}, left : SUBSET DOMAIN NameLen]
      /\ (pc = "readdir" => dir.ino \in DOMAIN Entries)
      /\ (faults = 0 => entries = Entries)
  BY DEF FilesInv
<1>2. ASSUME UNCHANGED fs, args' \in Seq(DOMAIN NameLen), 
             dir' \in [ino : DOMAIN Entries \cup {None}, left : SUBSET DOMAIN NameLen],
             pc' = "readdir" => dir'.ino \in DOMAIN Entries
      PROVE  FilesInv' /\ Shrunk(entries, entries')
  BY <1>1, <1>2 DEF FilesInv, fs, Shrunk, Remains
<1>3. CASE Option BY <1>1, <1>2, <1>3 DEF Option, fs
<1>4. CASE Usage BY <1>1, <1>2, <1>4 DEF Usage, fs
<1>5. CASE OptionsDone
  <2>1. << >> \in Seq(DOMAIN NameLen) /\ <<Dot>> \in Seq(DOMAIN NameLen)
    <3>1. Dot \in DOMAIN NameLen BY LsConstants
    <3> QED BY <3>1
  <2> QED BY <1>1, <1>2, <1>5, <2>1 DEF OptionsDone, fs
<1>6. CASE Argument
  <2>1. Tail(args) \in Seq(DOMAIN NameLen) BY <1>1, <1>6, HeadTailProperties DEF Argument
  <2> QED BY <1>1, <1>2, <1>6, <2>1 DEF Argument, fs
<1>7. CASE ArgumentsDone BY <1>1, <1>2, <1>7 DEF ArgumentsDone, fs
<1>8. CASE ShowDir
  <2>1. args' = args /\ UNCHANGED fs BY <1>8 DEF ShowDir
  <2>2. CASE Opendir(Path) = None BY <1>1, <1>2, <1>8, <2>1, <2>2 DEF ShowDir
  <2>3. CASE Opendir(Path) # None
    <3>1. dir' = [ino |-> Opendir(Path), left |-> DOMAIN entries[Opendir(Path)]]
      BY <1>8, <2>3 DEF ShowDir
    <3>2. Opendir(Path) \in DOMAIN Entries BY <1>1, <2>3 DEF Opendir, Remains
    <3>3. DOMAIN entries[Opendir(Path)] \subseteq DOMAIN NameLen
      BY <1>1, <3>2, InodeConstants DEF Remains
    <3> QED BY <1>1, <1>2, <2>1, <3>1, <3>2, <3>3
  <2> QED BY <2>2, <2>3
<1>9. CASE EndDir BY <1>1, <1>2, <1>9 DEF EndDir, fs
<1>10. CASE Return BY <1>1, <1>2, <1>10 DEF Return, fs
<1>11. ASSUME NEW n, ReadEntry(n) PROVE FilesInv' /\ Shrunk(entries, entries')
  <2>1. /\ pc = "readdir" /\ pc' = pc /\ args' = args /\ UNCHANGED fs
        /\ dir' = [dir EXCEPT !.left = @ \ {n}]
    BY <1>11 DEF ReadEntry
  <2>2. dir' \in [ino : DOMAIN Entries \cup {None}, left : SUBSET DOMAIN NameLen]
        /\ dir'.ino = dir.ino
    BY <1>1, <2>1
  <2> QED BY <1>1, <1>2, <2>1, <2>2
<1>12. ASSUME NEW n, MissEntry(n) PROVE FilesInv' /\ Shrunk(entries, entries')
  <2>1. /\ pc = "readdir" /\ pc' = pc /\ args' = args /\ UNCHANGED fs
        /\ dir' = [dir EXCEPT !.left = @ \ {n}]
    BY <1>12 DEF MissEntry
  <2>2. dir' \in [ino : DOMAIN Entries \cup {None}, left : SUBSET DOMAIN NameLen]
        /\ dir'.ino = dir.ino
    BY <1>1, <2>1
  <2> QED BY <1>1, <1>2, <2>1, <2>2
<1>13. ASSUME NEW d, NEW n, d \in DOMAIN Entries, Unlink(d, n)
       PROVE  FilesInv' /\ Shrunk(entries, entries')
  <2>1. /\ n \in DOMAIN entries[d] \ {Dot, DotDot} /\ faults' = faults + 1
        /\ entries' = [entries EXCEPT ![d] = [m \in DOMAIN @ \ {n} |-> @[m]]]
        /\ args' = args /\ dir' = dir /\ pc' = pc
    BY <1>13 DEF Unlink
  <2>2. DOMAIN entries' = DOMAIN Entries
        /\ \A i \in DOMAIN Entries :
             entries'[i] = IF i = d THEN [m \in DOMAIN entries[d] \ {n} |-> entries[d][m]]
                           ELSE entries[i]
    BY <1>1, <1>13, <2>1 DEF Remains
  <2>3. Remains(entries') /\ Shrunk(entries, entries')
    BY <1>1, <2>1, <2>2 DEF Remains, Shrunk
  <2>4. faults' \in Nat /\ faults' # 0 BY <1>1, <2>1
  <2> QED BY <1>1, <2>1, <2>3, <2>4 DEF FilesInv
<1>14. CASE UNCHANGED lsvars BY <1>1, <1>2, <1>14 DEF lsvars, fs
<1>15. \A l \in CommandLines : \A e \in l.moves : e[1] \in DOMAIN Entries
  BY CommandLineConstants
<1>16. cmd \in CommandLines BY DEF OptionsInv
<1> QED BY <1>3, <1>4, <1>5, <1>6, <1>7, <1>8, <1>9, <1>10, <1>11, <1>12, <1>13, <1>14, <1>15, <1>16
  DEF LsNext, LsMain

-----------------------------------------------------------------------------
DnodeType ==
  [name : DOMAIN NameLen, fullname : Paths \ {<< >>}, next : Nat,
   dstat : {Attr[i] : i \in DOMAIN Attr},
   end : {Attr[i] : i \in DOMAIN Attr} \cup {[type |-> "none"]}]
TrueDnode == {d \in DnodeType : d.name = Last(d.fullname)}

\* Something is there at an inode.
LEMMA SomethingThere ==
  ASSUME NEW i \in DOMAIN Attr PROVE Attr[i] # Nothing /\ Attr[i].type \in FileTypes
<1>1. Attr[i].type \in FileTypes BY InodeConstants
<1>2. "none" \notin FileTypes BY DEF FileTypes
<1>3. Nothing.type = "none" BY DEF Nothing
<1> QED BY <1>1, <1>2, <1>3

\* What is added to the dnodes.
Added(path, h, h2, m, d, info) ==
  /\ DOMAIN h2 = DOMAIN h \cup {m + 1} /\ \A i \in DOMAIN h : h2[i] = h[i]
  /\ h2[m + 1] \in TrueDnode
  /\ h2[m + 1].fullname = path /\ h2[m + 1].next = d /\ h2[m + 1].dstat = info

\* my_stat fails, or there is a new dnode with what it tells.
LEMMA AddDnodeDoes ==
  ASSUME Remains(entries), NEW path \in Paths, path # << >>,
         made \in Nat, DOMAIN heap \subseteq 1..made,
         dn \in Nat, AddDnode(path)
  PROVE  \/ ~Exists(path) /\ errors' = errors \cup {path} /\ UNCHANGED nodes
         \/ /\ Exists(path) /\ errors' = errors
            /\ made' = made + 1 /\ dn' = made + 1 /\ Added(path, heap, heap', made, dn, Info(path))
<1> DEFINE ino == IF c.follow THEN Stat(path) ELSE Lstat(path)
<1>1. ino \in Inodes BY WalksTyped
<1>2. Info(path) = IF ino = None THEN Nothing ELSE Attr[ino] BY <1>1 DEF Info, InodeInfo
<1>3. CASE ino = None BY <1>2, <1>3 DEF AddDnode, PerrorMsg, Exists
<1>4. CASE ino # None
  <2>1. ino \in DOMAIN Attr BY <1>1, <1>4 DEF Inodes
  <2>2. Info(path) = Attr[ino] /\ Exists(path) BY <1>2, <1>4, <2>1, SomethingThere DEF Exists
  <2>3. /\ made' = made + 1 /\ dn' = made + 1 /\ errors' = errors
        /\ heap' = [k \in DOMAIN heap \cup {made + 1} |->
                      IF k = made + 1 THEN Dnode(path, ino) ELSE heap[k]]
    BY <1>4 DEF AddDnode, report
  <2>4. made + 1 \notin DOMAIN heap OBVIOUS
  <2> DEFINE walk == [ino |-> ino, links |-> 0]
             to == Follow(walk).ino
             d == Dnode(path, ino)
  <2>5. 0 \in 0..MaxLinks BY LsConstants
  <2>6. to \in Inodes
    <3>1. walk \in Walks BY <1>1, <2>5 DEF Walks
    <3>2. Follow(walk) \in Walks BY <3>1, FollowTyped
    <3> QED BY <3>2 DEF Walks
  <2>7. Last(path) \in DOMAIN NameLen
    <3>1. Len(path) \in 1..Len(path) BY EmptySeq DEF Paths
    <3> QED BY <3>1 DEF Last, Paths
  <2>8. d = [name |-> Last(path), fullname |-> path, next |-> dn, dstat |-> Attr[ino],
             end |-> IF to = None THEN [type |-> "none"] ELSE Attr[to]]
    BY DEF Dnode
  <2>9. (IF to = None THEN [type |-> "none"] ELSE Attr[to])
          \in {Attr[i] : i \in DOMAIN Attr} \cup {[type |-> "none"]}
    BY <2>6 DEF Inodes
  <2> HIDE DEF to, d
  <2>10. d \in DnodeType BY <2>1, <2>7, <2>8, <2>9 DEF DnodeType
  <2>11. d.name = Last(path) /\ d.fullname = path /\ d.next = dn /\ d.dstat = Attr[ino] BY <2>8
  <2>12. d \in TrueDnode BY <2>10, <2>11 DEF TrueDnode
  <2>13. heap'[made + 1] = d BY <2>3 DEF d
  <2>14. \A i \in DOMAIN heap : heap'[i] = heap[i] BY <2>3, <2>4
  <2>15. DOMAIN heap' = DOMAIN heap \cup {made + 1} BY <2>3
  <2> QED BY <2>2, <2>3, <2>11, <2>12, <2>13, <2>14, <2>15 DEF Added
<1> QED BY <1>3, <1>4

-----------------------------------------------------------------------------
(* The calls of showdirs.                                                  *)

\* The nodes of a depth; a directory's have one name more than it has itself.
Level(h, k) == {id \in DOMAIN h : Len(h[id].fullname) = k}

\* A call of showdirs goes through directories of one depth,
FrameOk(h, f, k) ==
  /\ ToSet(f.dn) \subseteq Level(h, k) /\ f.i \in 1..(Len(f.dn) + 1)
  /\ \A id \in ToSet(f.dn) : h[id].dstat.type = "dir"

\* and one that waits for another, g, has lent it some of the nodes of its listing.
Waiting(h, f, g, k) ==
  /\ f.i <= Len(f.dn) /\ f.sub # << >>
  /\ Closed(h, ToSet(f.sub)) /\ ToSet(f.sub) \subseteq Level(h, k + 1)
  /\ ToSet(g.dn) \subseteq ToSet(f.sub)

FrameType == [dn : Seq(Nat), i : Nat, sub : Seq(Nat)]

HeapOk(h, m) ==
  /\ Older(h, m) /\ \A id \in DOMAIN h : h[id] \in TrueDnode
  /\ Closed(h, Level(h, 1))
BatchOf(h, m, d) == ToSet(ChainIn(h, m, d))
BatchOk(h, m, d, k) ==
  /\ Closed(h, BatchOf(h, m, d)) /\ BatchOf(h, m, d) \subseteq Level(h, k)
  /\ d \in BatchOf(h, m, d) \cup {0}
StackOk(h, st) ==
  /\ st \in Seq(FrameType)
  /\ \A k \in 1..Len(st) : FrameOk(h, st[k], k)
  /\ \A k \in 1..(Len(st) - 1) : Waiting(h, st[k], st[k + 1], k)

BatchLevel == IF pc = "readdir" THEN Len(stack) + 1 ELSE 1
NodesInv ==
  /\ HeapOk(heap, made) /\ BatchOk(heap, made, dn, BatchLevel) /\ StackOk(heap, stack)
  /\ pc \in {"options", "args", "usage"} => DOMAIN heap \subseteq Level(heap, 1)
  /\ stack = << >> <=> pc \notin {"showdirs", "readdir"}
  /\ stack # << >> => Top.sub = << >> /\ (pc = "readdir" => Top.i <= Len(Top.dn))

-----------------------------------------------------------------------------
Kept(h, h2, T) == \A id \in T : id \in DOMAIN h2 /\ h2[id] = h[id]

\* Nodes that are kept remain what they were:
LEMMA KeptSet ==
  ASSUME NEW h, NEW h2, NEW T, Kept(h, h2, T)
  PROVE  /\ Closed(h, T) => Closed(h2, T)
         /\ \A k : T \subseteq Level(h, k) => T \subseteq Level(h2, k)
BY DEF Kept, Closed, Level

\* a chain of them,
LEMMA BatchKept ==
  ASSUME NEW h, NEW m, NEW d, NEW k, BatchOk(h, m, d, k), NEW h2, NEW m2, Older(h2, m2),
         Kept(h, h2, Level(h, k))
  PROVE  BatchOk(h2, m2, d, k)
<1> DEFINE T == BatchOf(h, m, d)
           U == BatchOf(h2, m2, d)
<1>1. Closed(h, T) /\ T \subseteq Level(h, k) /\ d \in T \cup {0} BY DEF BatchOk
<1>2. Kept(h, h2, T) BY <1>1 DEF Kept
<1> HIDE DEF T
<1>3. Closed(h2, T) /\ T \subseteq Level(h2, k) BY <1>1, <1>2, KeptSet
<1>4. ChainIn(h2, m2, d) \in Seq(T) /\ Closed(h2, U) /\ d \in U \cup {0}
  BY <1>1, <1>3, ChainClosed DEF BatchOf
<1>5. U \subseteq T BY <1>4 DEF BatchOf, ToSet
<1> QED BY <1>3, <1>4, <1>5 DEF BatchOk

\* and the arrays of the calls of showdirs.
LEMMA StackKept ==
  ASSUME NEW h, NEW st, StackOk(h, st), NEW h2, \A k \in 1..Len(st) : Kept(h, h2, Level(h, k))
  PROVE  StackOk(h2, st)
<1>1. st \in Seq(FrameType) /\ Len(st) \in Nat BY DEF StackOk
<1>2. ASSUME NEW k \in 1..Len(st) PROVE FrameOk(h2, st[k], k)
  <2> DEFINE f == st[k]
  <2>1. FrameOk(h, f, k) /\ Kept(h, h2, Level(h, k)) BY DEF StackOk
  <2> HIDE DEF f
  <2>2. ToSet(f.dn) \subseteq Level(h2, k) BY <2>1 DEF FrameOk, Kept, Level
  <2>3. \A id \in ToSet(f.dn) : h2[id] = h[id] BY <2>1 DEF FrameOk, Kept
  <2>4. FrameOk(h2, f, k) BY <2>1, <2>2, <2>3 DEF FrameOk
  <2> QED BY <2>4 DEF f
<1>3. ASSUME NEW k \in 1..(Len(st) - 1) PROVE Waiting(h2, st[k], st[k + 1], k)
  <2> DEFINE f == st[k]
             g == st[k + 1]
  <2>1. k + 1 \in 1..Len(st) BY <1>1
  <2>2. Waiting(h, f, g, k) /\ Kept(h, h2, Level(h, k + 1)) BY <2>1 DEF StackOk
  <2> HIDE DEF f, g
  <2>3. Kept(h, h2, ToSet(f.sub)) BY <2>2 DEF Waiting, Kept
  <2>4. Closed(h2, ToSet(f.sub)) /\ ToSet(f.sub) \subseteq Level(h2, k + 1)
    BY <2>2, <2>3, KeptSet DEF Waiting
  <2>5. Waiting(h2, f, g, k) BY <2>2, <2>4 DEF Waiting
  <2> QED BY <2>5 DEF f, g
<1> QED BY <1>1, <1>2, <1>3 DEF StackOk

\* A new node.
LEMMA GrowOk ==
  ASSUME NEW h, NEW m, NEW d, NEW k, HeapOk(h, m), BatchOk(h, m, d, k),
         NEW path, NEW h2, NEW info, Added(path, h, h2, m, d, info), Len(path) = k
  PROVE  /\ HeapOk(h2, m + 1) /\ BatchOk(h2, m + 1, m + 1, k) /\ Kept(h, h2, DOMAIN h)
         /\ BatchOf(h2, m + 1, m + 1) = BatchOf(h, m, d) \cup {m + 1}
<1> DEFINE T == BatchOf(h, m, d)
           n == m + 1
<1>1. /\ Closed(h, T) /\ T \subseteq Level(h, k) /\ d \in T \cup {0} BY DEF BatchOk
<1>2. /\ DOMAIN h2 = DOMAIN h \cup {m + 1} /\ \A i \in DOMAIN h : h2[i] = h[i]
      /\ h2[m + 1] \in TrueDnode /\ h2[m + 1].fullname = path /\ h2[m + 1].next = d
  BY DEF Added
<1>3. Older(h, m) /\ \A id \in DOMAIN h : h[id] \in TrueDnode BY DEF HeapOk
<1>4. Older(h2, n) /\ BatchOf(h2, n, n) = BatchOf(h, m, d) \cup {n}
  <2> HIDE DEF T
  <2>1. Older(h, m) /\ Closed(h, T) /\ d \in T \cup {0} BY <1>1, <1>3
  <2>2. /\ DOMAIN h2 = DOMAIN h \cup {m + 1} /\ (\A i \in DOMAIN h : h2[i] = h[i])
        /\ h2[m + 1].next = d
    BY <1>2
  <2>3. ToSet(ChainIn(h2, m + 1, m + 1)) = ToSet(ChainIn(h, m, d)) \cup {m + 1} /\ Older(h2, m + 1)
    BY ONLY <2>1, <2>2, ChainGrows
  <2> QED BY <2>3 DEF BatchOf
<1>5. Kept(h, h2, DOMAIN h) BY <1>2 DEF Kept
<1>6. n \in Level(h2, k) /\ \A j : Level(h, j) \subseteq Level(h2, j) BY <1>2 DEF Level
<1>7. Closed(h2, T \cup {n})
  <2>1. \A id \in T : id \in DOMAIN h /\ h[id].next \in T \cup {0} BY <1>1 DEF Closed
  <2> QED BY <1>1, <1>2, <2>1 DEF Closed
<1>8. BatchOk(h2, n, n, k)
  <2> HIDE DEF T
  <2>1. BatchOf(h2, n, n) = T \cup {n} BY <1>4 DEF T
  <2> QED BY <1>1, <1>6, <1>7, <2>1 DEF BatchOk
<1>9. Closed(h2, Level(h2, 1))
  <2>1. SUFFICES ASSUME NEW id \in Level(h2, 1) PROVE h2[id].next \in Level(h2, 1) \cup {0}
    BY DEF Closed, Level
  <2>2. CASE id \in DOMAIN h
    <3>1. id \in Level(h, 1) BY <1>2, <2>2 DEF Level
    <3>2. h[id].next \in Level(h, 1) \cup {0} BY <3>1 DEF HeapOk, Closed
    <3> QED BY <1>2, <1>6, <2>2, <3>2
  <2>3. CASE id = n
    <3>1. k = 1 BY <1>2, <2>3 DEF Level
    <3>2. d \in Level(h, 1) \cup {0} BY <1>1, <3>1
    <3> QED BY <1>2, <1>6, <2>3, <3>2
  <2> QED BY <1>2, <2>2, <2>3 DEF Level
<1>10. HeapOk(h2, n) BY <1>2, <1>3, <1>4, <1>9 DEF HeapOk
<1> QED BY <1>4, <1>5, <1>8, <1>10

\* Nodes that are not arguments go.
LEMMA FreeOk ==
  ASSUME NEW h, NEW m, HeapOk(h, m), NEW n, n # 1, NEW F, F \subseteq Level(h, n),
         NEW h2, h2 = [k \in DOMAIN h \ F |-> h[k]]
  PROVE  HeapOk(h2, m) /\ \A k : k # n => Kept(h, h2, Level(h, k))
<1>1. Older(h2, m) BY DEF HeapOk, Older
<1>2. \A k : k # n => Kept(h, h2, Level(h, k)) BY DEF Kept, Level
<1>3. Level(h2, 1) \subseteq Level(h, 1) BY DEF Level
<1>4. Closed(h2, Level(h, 1)) /\ Level(h, 1) \subseteq Level(h2, 1)
  <2>1. Kept(h, h2, Level(h, 1)) BY <1>2
  <2>2. Closed(h, Level(h, 1)) BY DEF HeapOk
  <2> HIDE DEF Level
  <2> QED BY <2>1, <2>2, KeptSet
<1>5. Level(h2, 1) = Level(h, 1) BY <1>3, <1>4
<1> QED BY <1>1, <1>2, <1>4, <1>5 DEF HeapOk

\* dfree stays in a set that next pointers do not leave.
LEMMA DfreeWithin ==
  ASSUME Older(heap, made), NEW T, Closed(heap, T), NEW S, NEW ids \in Seq(S), ids # << >>,
         ToSet(ids) \subseteq T
  PROVE  Dfree(ids) \subseteq T
<1>1. ids[1] \in T
  <2>1. 1 \in DOMAIN ids OBVIOUS
  <2> QED BY <2>1 DEF ToSet
<1>2. Chain(ids[1]) \in Seq(T) BY <1>1, ChainIs, ChainClosed
<1> QED BY <1>2 DEF Dfree, ToSet

-----------------------------------------------------------------------------

\* The calls of showdirs, with the last of them one directory further.
LEMMA NextDirIs ==
  ASSUME NEW st \in Seq(FrameType), st # << >>
  PROVE  LET n == Len(st)
             s == NextDir(st)
         IN /\ n \in Nat \ {0} /\ s \in Seq(FrameType) /\ Len(s) = n
            /\ \A k \in 1..(n - 1) : s[k] = st[k]
            /\ s[n].dn = st[n].dn /\ s[n].i = st[n].i + 1 /\ s[n].sub = << >>
<1> DEFINE n == Len(st)
           f == [dn |-> st[n].dn, i |-> st[n].i + 1, sub |-> << >>]
           s == [st EXCEPT ![n] = f]
<1>1. n \in Nat \ {0} /\ n \in 1..n BY EmptySeq
<1>2. st[n] \in FrameType BY <1>1
<1>3. f \in FrameType BY <1>2 DEF FrameType
<1>4. NextDir(st) = s
  <2>1. [[st[n] EXCEPT !.i = @ + 1] EXCEPT !.sub = << >>] = f
    <3> DEFINE r == st[n]
    <3>1. r \in [dn : Seq(Nat), i : Nat, sub : Seq(Nat)] BY <1>2 DEF FrameType
    <3> HIDE DEF r
    <3>2. r = [dn |-> r.dn, i |-> r.i, sub |-> r.sub] BY ONLY <3>1
    <3>3. [r EXCEPT !.i = @ + 1] = [dn |-> r.dn, i |-> r.i + 1, sub |-> r.sub] BY ONLY <3>2
    <3> DEFINE q == [r EXCEPT !.i = @ + 1]
    <3>4. q = [dn |-> r.dn, i |-> r.i + 1, sub |-> r.sub] BY ONLY <3>3
    <3> HIDE DEF q
    <3>5. [q EXCEPT !.sub = << >>] = [dn |-> r.dn, i |-> r.i + 1, sub |-> << >>] BY ONLY <3>4
    <3> QED BY <3>5 DEF q, r
  <2>2. [[st EXCEPT ![n].i = @ + 1] EXCEPT ![n].sub = << >>]
          = [st EXCEPT ![n] = [[st[n] EXCEPT !.i = @ + 1] EXCEPT !.sub = << >>]]
    BY <1>1
  <2> QED BY <2>1, <2>2 DEF NextDir
<1> HIDE DEF f
<1>5. s \in Seq(FrameType) /\ Len(s) = n /\ s[n] = f /\ \A k \in 1..(n - 1) : s[k] = st[k]
  BY <1>1, <1>3
<1> HIDE DEF s
<1> QED BY <1>1, <1>4, <1>5 DEF f

\* They are as they should be.
LEMMA NextDirOk ==
  ASSUME NEW h, NEW st, StackOk(h, st), st # << >>, st[Len(st)].i <= Len(st[Len(st)].dn)
  PROVE  StackOk(h, NextDir(st))
<1> DEFINE n == Len(st)
           s == NextDir(st)
<1>1. /\ st \in Seq(FrameType) /\ \A k \in 1..n : FrameOk(h, st[k], k)
      /\ \A k \in 1..(n - 1) : Waiting(h, st[k], st[k + 1], k)
  BY DEF StackOk
<1>2. /\ n \in Nat \ {0} /\ s \in Seq(FrameType) /\ Len(s) = n
      /\ \A k \in 1..(n - 1) : s[k] = st[k]
      /\ s[n].dn = st[n].dn /\ s[n].i = st[n].i + 1 /\ s[n].sub = << >>
  BY <1>1, NextDirIs
<1> HIDE DEF s
<1>3. ASSUME NEW k \in 1..n PROVE FrameOk(h, s[k], k)
  <2>1. CASE k = n
    <3>1. FrameOk(h, st[n], n) /\ st[n].i <= Len(st[n].dn) BY <1>1, <1>2
    <3>2. Len(st[n].dn) \in Nat
      <4>1. n \in 1..n BY <1>2
      <4>2. st[n] \in FrameType BY <1>1, <4>1
      <4> QED BY <4>2 DEF FrameType
    <3> QED BY <1>2, <2>1, <3>1, <3>2 DEF FrameOk
  <2>2. CASE k # n
    <3>1. k \in 1..(n - 1) BY <1>2, <2>2
    <3> QED BY <1>1, <1>2, <3>1
  <2> QED BY <2>1, <2>2
<1>4. ASSUME NEW k \in 1..(n - 1) PROVE Waiting(h, s[k], s[k + 1], k)
  <2>1. s[k + 1].dn = st[k + 1].dn
    <3>1. k + 1 = n \/ k + 1 \in 1..(n - 1) BY <1>2
    <3> QED BY <1>2, <3>1
  <2>2. Waiting(h, st[k], st[k + 1], k) /\ s[k] = st[k] BY <1>1, <1>2
  <2> QED BY <2>1, <2>2 DEF Waiting
<1>5. StackOk(h, s) BY <1>2, <1>3, <1>4 DEF StackOk
<1> QED BY <1>5 DEF s

\* A recursive call, g, from the listing sub.
Push(st, sub, g) == Append([st EXCEPT ![Len(st)].sub = sub], g)

Pushable(h, st, sub, g) ==
  /\ StackOk(h, st) /\ st # << >> /\ st[Len(st)].i <= Len(st[Len(st)].dn)
  /\ sub \in Seq(Nat) /\ sub # << >> /\ Closed(h, ToSet(sub))
  /\ ToSet(sub) \subseteq Level(h, Len(st) + 1)
  /\ g \in FrameType /\ ToSet(g.dn) \subseteq ToSet(sub) /\ g.i = 1
  /\ \A id \in ToSet(g.dn) : h[id].dstat.type = "dir"
Pushed(h, st, g, s) == StackOk(h, s) /\ Len(s) = Len(st) + 1 /\ s[Len(st) + 1] = g

\* So they are after a recursive call,
LEMMA PushOk ==
  ASSUME NEW h, NEW st, NEW sub, NEW g, Pushable(h, st, sub, g)
  PROVE  Pushed(h, st, g, Push(st, sub, g))
<1> DEFINE n == Len(st)
           f == [st[n] EXCEPT !.sub = sub]
           t == [st EXCEPT ![n] = f]
           s == Append(t, g)
<1> USE DEF Pushable
<1>1. /\ st \in Seq(FrameType) /\ \A k \in 1..n : FrameOk(h, st[k], k)
      /\ \A k \in 1..(n - 1) : Waiting(h, st[k], st[k + 1], k)
  BY DEF StackOk
<1>2. n \in Nat \ {0} /\ n \in 1..n /\ n + 1 \in Nat BY <1>1, EmptySeq
<1>3. st[n] \in FrameType BY <1>1, <1>2
<1>4. f \in FrameType /\ f.dn = st[n].dn /\ f.i = st[n].i /\ f.sub = sub
  BY <1>3 DEF FrameType
<1>5. [st EXCEPT ![n].sub = sub] = t OBVIOUS
<1> HIDE DEF f
<1>6. t \in Seq(FrameType) /\ Len(t) = n /\ t[n] = f /\ \A k \in 1..(n - 1) : t[k] = st[k]
  BY <1>1, <1>2, <1>4
<1> HIDE DEF t
<1>7. /\ s \in Seq(FrameType) /\ Len(s) = n + 1 /\ s[n + 1] = g /\ s[n] = f
      /\ \A k \in 1..(n - 1) : s[k] = st[k]
  BY <1>2, <1>6
<1> HIDE DEF s
<1>8. ASSUME NEW k \in 1..(n + 1) PROVE FrameOk(h, s[k], k)
  <2>1. CASE k = n + 1
    <3>1. Len(g.dn) \in Nat BY DEF FrameType
    <3> QED BY <1>7, <2>1, <3>1 DEF FrameOk
  <2>2. CASE k = n
    <3>1. FrameOk(h, st[n], n) BY <1>1, <1>2
    <3> QED BY <1>4, <1>7, <2>2, <3>1 DEF FrameOk
  <2>3. CASE k \in 1..(n - 1)
    <3>1. k \in 1..n BY <1>2, <2>3
    <3> QED BY <1>1, <1>7, <2>3, <3>1
  <2> QED BY <1>2, <2>1, <2>2, <2>3
<1>9. ASSUME NEW k \in 1..n PROVE Waiting(h, s[k], s[k + 1], k)
  <2>1. CASE k = n BY <1>2, <1>4, <1>7, <2>1 DEF Waiting
  <2>2. CASE k # n
    <3>1. k \in 1..(n - 1) BY <1>2, <2>2
    <3>2. s[k + 1].dn = st[k + 1].dn
      <4>1. k + 1 = n \/ k + 1 \in 1..(n - 1) BY <1>2, <3>1
      <4> QED BY <1>4, <1>7, <4>1
    <3>3. Waiting(h, st[k], st[k + 1], k) /\ s[k] = st[k] BY <1>1, <1>7, <3>1
    <3> QED BY <3>2, <3>3 DEF Waiting
  <2> QED BY <2>1, <2>2
<1>10. StackOk(h, s) BY <1>2, <1>7, <1>8, <1>9 DEF StackOk
<1> QED BY <1>5, <1>7, <1>10 DEF s, f, Push, Pushed

\* and after its return.
LEMMA PopOk ==
  ASSUME NEW h, NEW st, StackOk(h, st), Len(st) > 1
  PROVE  LET s == Front(st)
             n == Len(st)
         IN /\ StackOk(h, s) /\ Len(s) = n - 1 /\ s # << >>
            /\ \A k \in 1..(n - 1) : s[k] = st[k]
            /\ s[n - 1].i <= Len(s[n - 1].dn)
<1> DEFINE n == Len(st)
           s == Front(st)
<1>1. /\ st \in Seq(FrameType) /\ \A k \in 1..n : FrameOk(h, st[k], k)
      /\ \A k \in 1..(n - 1) : Waiting(h, st[k], st[k + 1], k)
  BY DEF StackOk
<1>2. n \in Nat /\ n - 1 \in Nat /\ n - 1 \in 1..(n - 1) BY <1>1
<1>3. /\ s \in Seq(FrameType) /\ Len(s) = n - 1 /\ \A k \in 1..(n - 1) : s[k] = st[k]
  BY <1>1, <1>2, SubSeqProperties DEF Front
<1> HIDE DEF s
<1>4. \A k \in 1..(n - 1) : k \in 1..n BY <1>2
<1>5. \A k \in 1..((n - 1) - 1) : k \in 1..(n - 1) /\ k + 1 \in 1..(n - 1) BY <1>2
<1>6. StackOk(h, s)
  <2>1. ASSUME NEW k \in 1..(n - 1) PROVE FrameOk(h, s[k], k) BY <1>1, <1>3, <1>4
  <2>2. ASSUME NEW k \in 1..((n - 1) - 1) PROVE Waiting(h, s[k], s[k + 1], k)
    <3>1. s[k] = st[k] /\ s[k + 1] = st[k + 1] BY <1>3, <1>5
    <3> QED BY <1>1, <1>5, <3>1
  <2> QED BY <1>3, <2>1, <2>2 DEF StackOk
<1>7. s[n - 1].i <= Len(s[n - 1].dn) BY <1>1, <1>2, <1>3 DEF Waiting
<1>8. s # << >> BY <1>2, <1>3
<1> QED BY <1>3, <1>6, <1>7, <1>8 DEF s

-----------------------------------------------------------------------------
(* The dnodes: the invariant.                                              *)

\* The invariant of the dnodes: at first,
LEMMA NodesFirst == Init => NodesInv
<1> SUFFICES ASSUME Init PROVE NodesInv OBVIOUS
<1>1. heap = << >> /\ made = 0 /\ dn = 0 /\ stack = << >> /\ pc = "options" BY DEF Init
<1>2. DOMAIN heap = {} BY <1>1
<1>3. Older(heap, made) BY <1>1, <1>2 DEF Older
<1>4. HeapOk(heap, made) BY <1>2, <1>3 DEF HeapOk, Closed, Level
<1>5. BatchOk(heap, made, dn, BatchLevel)
  <2>1. BatchOf(heap, made, 0) = {} BY <1>3, ChainOfNone DEF BatchOf
  <2> QED BY <1>1, <2>1 DEF BatchOk, Closed
<1>6. StackOk(heap, stack) BY <1>1 DEF StackOk
<1> QED BY <1>1, <1>2, <1>4, <1>5, <1>6 DEF NodesInv

\* The directory that showdirs is at.
LEMMA AtDirectory ==
  ASSUME NodesInv, stack # << >>, Top.i <= Len(Top.dn)
  PROVE  /\ Len(stack) \in Nat \ {0} /\ Top = stack[Len(stack)] /\ Top \in FrameType
         /\ Top.i \in DOMAIN Top.dn
         /\ Top.dn[Top.i] \in Level(heap, Len(stack)) /\ Top.dn[Top.i] \in DOMAIN heap
         /\ heap[Top.dn[Top.i]] \in TrueDnode /\ heap[Top.dn[Top.i]].dstat.type = "dir"
         /\ Path \in Paths /\ Path # << >> /\ Len(Path) = Len(stack)
<1> DEFINE n == Len(stack)
           id == Top.dn[Top.i]
<1>1. stack \in Seq(FrameType) /\ \A k \in 1..n : FrameOk(heap, stack[k], k)
  BY DEF NodesInv, StackOk
<1>2. n \in Nat \ {0} /\ n \in 1..n BY <1>1, EmptySeq
<1>3. Top = stack[n] /\ Top \in FrameType /\ FrameOk(heap, Top, n)
  BY <1>1, <1>2 DEF Last, Top
<1>4. Top.dn \in Seq(Nat) /\ Top.i \in Nat BY <1>3 DEF FrameType
<1>5. Top.i \in 1..Len(Top.dn)
  <2>1. Top.i \in 1..(Len(Top.dn) + 1) BY <1>3 DEF FrameOk
  <2> QED BY <1>4, <2>1
<1>6. Top.i \in DOMAIN Top.dn /\ id \in ToSet(Top.dn) BY <1>4, <1>5 DEF ToSet
<1>7. id \in Level(heap, n) /\ heap[id].dstat.type = "dir" BY <1>3, <1>6 DEF FrameOk
<1>8. id \in DOMAIN heap /\ Len(heap[id].fullname) = n BY <1>7 DEF Level
<1>9. heap[id] \in TrueDnode BY <1>8 DEF NodesInv, HeapOk
<1>10. Path \in Paths \ {<< >>} BY <1>9 DEF Path, TrueDnode, DnodeType
<1> QED BY <1>2, <1>3, <1>6, <1>7, <1>8, <1>9, <1>10 DEF Path

\* Steps that touch neither nodes nor calls.
LEMMA NodesAlone ==
  ASSUME NodesInv, UNCHANGED nodes, UNCHANGED stack,
         pc' = pc \/ (pc = "options" /\ pc' \in {"args", "usage"})
  PROVE  NodesInv'
<1>1. heap' = heap /\ made' = made /\ dn' = dn BY DEF nodes
<1>2. BatchLevel' = BatchLevel BY DEF BatchLevel
<1>3. Top' = Top BY DEF Top
<1> QED BY <1>1, <1>2, <1>3 DEF NodesInv

\* A dnode may be added.
LEMMA NodesAdded ==
  ASSUME NodesInv, Remains(entries), NEW path \in Paths, path # << >>, AddDnode(path),
         UNCHANGED <<stack, pc>>, Len(path) = BatchLevel,
         pc \in {"options", "args", "usage"} => BatchLevel = 1
  PROVE  /\ NodesInv'
         /\ \/ ~Exists(path) /\ errors' = errors \cup {path} /\ UNCHANGED nodes
            \/ /\ Exists(path) /\ errors' = errors
               /\ made' = made + 1 /\ dn' = made + 1
               /\ Added(path, heap, heap', made, dn, Info(path))
               /\ BatchOf(heap', made', dn') = BatchOf(heap, made, dn) \cup {made + 1}
<1>1. HeapOk(heap, made) /\ BatchOk(heap, made, dn, BatchLevel) /\ StackOk(heap, stack)
  BY DEF NodesInv
<1>2. made \in Nat /\ DOMAIN heap \subseteq 1..made BY <1>1 DEF HeapOk, Older
<1>3. dn \in Nat
  <2>1. dn \in DOMAIN heap \cup {0} BY <1>1 DEF BatchOk, Closed
  <2> QED BY <1>2, <2>1
<1>4. CASE ~Exists(path) /\ errors' = errors \cup {path} /\ UNCHANGED nodes
  BY <1>4, NodesAlone
<1>5. CASE /\ Exists(path) /\ errors' = errors
           /\ made' = made + 1 /\ dn' = made + 1
           /\ Added(path, heap, heap', made, dn, Info(path))
  <2> DEFINE L == BatchLevel
  <2>1. L' = L BY DEF BatchLevel
  <2> HIDE DEF L
  <2>2. Len(path) = L /\ BatchOk(heap, made, dn, L) BY <1>1 DEF L
  <2>3. /\ HeapOk(heap', made + 1) /\ BatchOk(heap', made + 1, made + 1, L)
        /\ Kept(heap, heap', DOMAIN heap)
        /\ BatchOf(heap', made + 1, made + 1) = BatchOf(heap, made, dn) \cup {made + 1}
    BY <1>1, <1>5, <2>2, GrowOk
  <2>4. \A k \in 1..Len(stack) : Kept(heap, heap', Level(heap, k)) BY <2>3 DEF Kept, Level
  <2>5. StackOk(heap', stack) BY <1>1, <2>4, StackKept
  <2>6. pc \in {"options", "args", "usage"} => DOMAIN heap' \subseteq Level(heap', 1)
    <3>1. SUFFICES ASSUME pc \in {"options", "args", "usage"}
                   PROVE  DOMAIN heap' \subseteq Level(heap', 1)
      OBVIOUS
    <3>2. DOMAIN heap \subseteq Level(heap, 1) /\ L = 1 BY <3>1 DEF NodesInv, L
    <3>3. \A i \in DOMAIN heap' : i = made + 1 \/ i \in DOMAIN heap BY <1>5 DEF Added
    <3>4. heap'[made + 1].fullname = path /\ \A i \in DOMAIN heap : heap'[i] = heap[i]
      BY <1>5 DEF Added
    <3> QED BY <2>2, <3>2, <3>3, <3>4 DEF Level
  <2>7. BatchOk(heap', made', dn', BatchLevel') BY <1>5, <2>1, <2>3 DEF L
  <2>8. Top' = Top BY DEF Top
  <2>9. NodesInv' BY <1>5, <2>3, <2>5, <2>6, <2>7, <2>8 DEF NodesInv
  <2> QED BY <1>5, <2>3, <2>9
<1> QED BY <1>2, <1>3, <1>4, <1>5, AddDnodeDoes

Batch == ToSet(Chain(dn))

\* The chain under construction.
LEMMA BatchIs ==
  ASSUME NodesInv
  PROVE  /\ Batch = BatchOf(heap, made, dn) /\ Chain(dn) \in Seq(Batch)
         /\ Closed(heap, Batch) /\ Batch \subseteq Level(heap, BatchLevel) /\ dn \in Batch \cup {0}
<1> DEFINE B == BatchOf(heap, made, dn)
<1>1. /\ Older(heap, made) /\ Closed(heap, B)
      /\ B \subseteq Level(heap, BatchLevel) /\ dn \in B \cup {0}
  BY DEF NodesInv, HeapOk, BatchOk
<1>2. Batch = B BY ChainIs DEF Batch, BatchOf
<1>3. ChainIn(heap, made, dn) \in Seq(B)
  <2> HIDE DEF B
  <2> QED BY <1>1, ChainClosed
<1> QED BY <1>1, <1>2, <1>3, ChainIs

\* A call of showdirs with the directories of an array.
LEMMA FrameIs ==
  ASSUME NEW T, T \subseteq Nat, NEW ids \in Seq(T), NEW set
  PROVE  LET f == Frame(Keep(ids, set))
         IN /\ f \in FrameType /\ f.i = 1 /\ f.sub = << >> /\ ToSet(f.dn) = ToSet(ids) \cap set
            /\ f.dn = << >> <=> Keep(ids, set) = << >>
<1> DEFINE k == Keep(ids, set)
<1>1. k \in Seq(set \cap T) /\ ToSet(k) = ToSet(ids) \cap set BY KeepIs
<1> HIDE DEF k
<1>2. k \in Seq(Nat)
  <2> DEFINE U == set \cap T
  <2>1. U \subseteq Nat /\ k \in Seq(U) BY <1>1
  <2> HIDE DEF U
  <2>2. Seq(U) \subseteq Seq(Nat) BY <2>1, SeqMonotonic
  <2> QED BY <2>1, <2>2
<1>3. Sorted(k) \in Seq(Nat) /\ ToSet(Sorted(k)) = ToSet(k) /\ (Sorted(k) = << >> <=> k = << >>)
  BY <1>2, SortedIs
<1>4. << >> \in Seq(Nat) OBVIOUS
<1>5. Frame(k) = [dn |-> Sorted(k), i |-> 1, sub |-> << >>] BY DEF Frame
<1>6. Frame(k) \in FrameType BY <1>3, <1>4, <1>5 DEF FrameType
<1> QED BY <1>1, <1>3, <1>5, <1>6 DEF k

\* The arguments have been examined.
LEMMA NodesArgumentsDone ==
  ASSUME NodesInv, ArgumentsDone PROVE NodesInv'
<1> DEFINE dirs == Keep(Chain(dn), Dirs)
           f == Frame(dirs)
<1>1. /\ pc = "args" /\ UNCHANGED <<heap, made, dn>> BY DEF ArgumentsDone, nodes
<1>2. /\ HeapOk(heap, made) /\ BatchOk(heap, made, dn, 1) /\ stack = << >>
  BY <1>1 DEF NodesInv, BatchLevel
<1>3. BatchLevel' = 1 \/ pc' = "readdir" BY DEF BatchLevel
<1>4. CASE "NOLIST" \in c.disp
  <2>1. pc' = "done" /\ stack' = stack BY <1>4 DEF ArgumentsDone
  <2>2. BatchLevel' = 1 BY <1>3, <2>1
  <2> QED BY <1>1, <1>2, <2>1, <2>2 DEF NodesInv, StackOk
<1>5. CASE "NOLIST" \notin c.disp /\ dirs = << >>
  <2>1. pc' = "done" /\ stack' = stack BY <1>5 DEF ArgumentsDone
  <2>2. BatchLevel' = 1 BY <1>3, <2>1
  <2> QED BY <1>1, <1>2, <2>1, <2>2 DEF NodesInv, StackOk
<1>6. CASE "NOLIST" \notin c.disp /\ dirs # << >>
  <2>1. pc' = "showdirs" /\ stack' = <<f>> BY <1>6 DEF ArgumentsDone
  <2>2. BatchLevel' = 1 BY <1>3, <2>1
  <2>3. Chain(dn) \in Seq(Batch) /\ Batch \subseteq Level(heap, 1)
    BY <1>1, BatchIs DEF BatchLevel
  <2>4. Batch \subseteq DOMAIN heap /\ Batch \subseteq Nat
    <3>1. DOMAIN heap \subseteq Nat BY <1>2 DEF HeapOk, Older
    <3> QED BY <2>3, <3>1 DEF Level
  <2>5. f \in FrameType /\ f.i = 1 /\ f.sub = << >> /\ ToSet(f.dn) = ToSet(Chain(dn)) \cap Dirs
    BY <2>3, <2>4, FrameIs
  <2> HIDE DEF f
  <2>6. Len(f.dn) \in Nat BY <2>5 DEF FrameType
  <2>7. ToSet(Chain(dn)) = Batch BY DEF Batch
  <2>8. FrameOk(heap, f, 1) BY <2>3, <2>5, <2>6, <2>7 DEF FrameOk, Dirs
  <2>9. <<f>> \in Seq(FrameType) /\ Len(<<f>>) = 1 /\ <<f>>[1] = f /\ <<f>> # << >> BY <2>5
  <2>10. StackOk(heap, <<f>>)
    <3> DEFINE s == <<f>>
    <3>1. s \in Seq(FrameType) /\ Len(s) = 1 /\ s[1] = f BY <2>9
    <3> HIDE DEF s
    <3>2. \A k \in 1..Len(s) : k = 1 BY <3>1
    <3>3. 1..(Len(s) - 1) = {} BY <3>1
    <3>4. StackOk(heap, s) BY <2>8, <3>1, <3>2, <3>3 DEF StackOk
    <3> QED BY <3>4 DEF s
  <2>11. Top' = f BY <2>1, <2>9 DEF Top, Last
  <2> QED BY <1>1, <1>2, <2>1, <2>2, <2>5, <2>9, <2>10, <2>11 DEF NodesInv
<1> QED BY <1>4, <1>5, <1>6

\* An empty chain.
LEMMA NoBatch ==
  ASSUME NEW h, NEW m, Older(h, m), NEW k PROVE BatchOk(h, m, 0, k)
<1>1. BatchOf(h, m, 0) = {} BY ChainOfNone DEF BatchOf
<1> QED BY <1>1 DEF BatchOk, Closed

\* The next directory, the top of the calls being done with one.
LEMMA NodesNextDir ==
  ASSUME NEW h, NEW m, HeapOk(h, m), NEW st, StackOk(h, st), st # << >>,
         st[Len(st)].i <= Len(st[Len(st)].dn),
         NEW d, BatchOk(h, m, d, 1),
         heap' = h, made' = m, dn' = d, stack' = NextDir(st), pc' = "showdirs"
  PROVE  NodesInv'
<1> DEFINE s == NextDir(st)
<1>1. /\ Len(st) \in Nat \ {0} /\ s \in Seq(FrameType) /\ Len(s) = Len(st)
      /\ s[Len(st)].sub = << >>
  BY NextDirIs DEF StackOk
<1>2. StackOk(h, s) BY NextDirOk
<1> HIDE DEF s
<1>3. s # << >> BY <1>1
<1>4. stack' = s BY DEF s
<1>5. Top' = s[Len(st)] BY <1>1, <1>4 DEF Top, Last
<1>6. BatchLevel' = 1 BY DEF BatchLevel
<1> QED BY <1>1, <1>2, <1>3, <1>4, <1>5, <1>6 DEF NodesInv

\* A directory is opened, or not.
LEMMA NodesShowDir ==
  ASSUME NodesInv, ShowDir PROVE NodesInv'
<1>1. /\ pc = "showdirs" /\ Top.i <= Len(Top.dn) /\ heap' = heap /\ made' = made BY DEF ShowDir
<1>2. /\ HeapOk(heap, made) /\ BatchOk(heap, made, dn, 1) /\ StackOk(heap, stack)
      /\ stack # << >> /\ Top.sub = << >> /\ Top = stack[Len(stack)]
  BY <1>1 DEF NodesInv, BatchLevel, Top, Last
<1>3. CASE Opendir(Path) = None
  <2>1. stack' = NextDir(stack) /\ dn' = dn /\ pc' = "showdirs" BY <1>1, <1>3 DEF ShowDir
  <2> QED BY <1>1, <1>2, <2>1, NodesNextDir
<1>4. CASE Opendir(Path) # None
  <2>1. dn' = 0 /\ pc' = "readdir" /\ stack' = stack BY <1>4 DEF ShowDir
  <2>2. BatchOk(heap', made', dn', BatchLevel')
    <3>1. Older(heap, made) BY <1>2 DEF HeapOk
    <3> QED BY <1>1, <2>1, <3>1, NoBatch
  <2>3. Top' = Top BY <2>1 DEF Top
  <2> QED BY <1>1, <1>2, <2>1, <2>2, <2>3 DEF NodesInv
<1> QED BY <1>3, <1>4

\* What list_dir has sorted.
LEMMA SortedBatch ==
  ASSUME NodesInv, pc = "readdir"
  PROVE  LET subdnp == Sorted(Chain(dn))
         IN /\ subdnp \in Seq(Nat) /\ ToSet(subdnp) = Batch
            /\ Closed(heap, Batch) /\ Batch \subseteq Level(heap, Len(stack) + 1)
            /\ Batch \subseteq Nat /\ Batch \subseteq DOMAIN heap
            /\ subdnp # << >> => Dfree(subdnp) \subseteq Batch
            /\ subdnp = << >> <=> Batch = {}
<1> DEFINE s == Sorted(Chain(dn))
<1>1. /\ Chain(dn) \in Seq(Batch) /\ Closed(heap, Batch)
      /\ Batch \subseteq Level(heap, Len(stack) + 1)
  BY BatchIs DEF BatchLevel
<1>2. Older(heap, made) BY DEF NodesInv, HeapOk
<1>3. Batch \subseteq DOMAIN heap /\ Batch \subseteq Nat BY <1>1, <1>2 DEF Level, Older
<1>4. s \in Seq(Batch) /\ ToSet(s) = Batch BY <1>1, SortedIs DEF Batch
<1> HIDE DEF s
<1>5. s \in Seq(Nat) BY <1>3, <1>4
<1>6. s # << >> => Dfree(s) \subseteq Batch BY <1>1, <1>2, <1>4, DfreeWithin
<1>7. s = << >> <=> Batch = {}
  <2>1. s = << >> => ToSet(s) = {} BY DEF ToSet
  <2>2. s # << >> => s[1] \in ToSet(s)
    <3>1. s # << >> => 1 \in DOMAIN s BY <1>5
    <3> QED BY <3>1 DEF ToSet
  <2> QED BY <1>4, <2>1, <2>2
<1> QED BY <1>1, <1>3, <1>4, <1>5, <1>6, <1>7 DEF s

\* A directory has been read.
LEMMA NodesEndDir ==
  ASSUME NodesInv, EndDir PROVE NodesInv'
<1> DEFINE s == Sorted(Chain(dn))
           subdirs == Keep(s, Subdirs)
           n == Len(stack)
           f == Frame(subdirs)
<1>1. /\ pc = "readdir" /\ dn' = 0 /\ pc' = "showdirs" /\ made' = made BY DEF EndDir
<1>2. /\ HeapOk(heap, made) /\ StackOk(heap, stack) /\ Older(heap, made)
      /\ stack # << >> /\ Top.i <= Len(Top.dn)
  BY <1>1 DEF NodesInv, HeapOk
<1>3. n \in Nat \ {0} /\ Top = stack[n] BY <1>2, AtDirectory
<1>4. /\ s \in Seq(Nat) /\ ToSet(s) = Batch /\ Closed(heap, Batch)
      /\ Batch \subseteq Level(heap, n + 1) /\ Batch \subseteq Nat /\ Batch \subseteq DOMAIN heap
      /\ (s # << >> => Dfree(s) \subseteq Batch)
  BY <1>1, SortedBatch
<1>5. BatchOk(heap, made, 0, 1) BY <1>2, NoBatch
<1>6. CASE s = << >>
  <2>1. stack' = NextDir(stack) /\ heap' = heap BY <1>6 DEF EndDir
  <2> QED BY <1>1, <1>2, <1>3, <1>5, <2>1, NodesNextDir
<1>7. CASE s # << >> /\ "RECURSIVE" \in c.disp /\ subdirs # << >>
  <2>1. stack' = Append([stack EXCEPT ![n].sub = s], f) /\ heap' = heap BY <1>7 DEF EndDir
  <2>2. /\ f \in FrameType /\ f.i = 1 /\ f.sub = << >> /\ ToSet(f.dn) = ToSet(s) \cap Subdirs
    BY <1>4, FrameIs
  <2> HIDE DEF f, s
  <2>3. \A id \in ToSet(f.dn) : heap[id].dstat.type = "dir" BY <2>2 DEF Subdirs, Dirs
  <2>4. /\ StackOk(heap, stack') /\ Len(stack') = n + 1 /\ stack'[n + 1] = f
    <3>1. StackOk(heap, stack) /\ stack # << >> /\ stack[Len(stack)].i <= Len(stack[Len(stack)].dn)
      BY <1>2, <1>3
    <3>2. /\ s \in Seq(Nat) /\ s # << >> /\ Closed(heap, ToSet(s))
          /\ ToSet(s) \subseteq Level(heap, Len(stack) + 1)
      BY <1>4, <1>7
    <3>3. /\ f \in FrameType /\ ToSet(f.dn) \subseteq ToSet(s) /\ f.i = 1
          /\ \A id \in ToSet(f.dn) : heap[id].dstat.type = "dir"
      BY <2>2, <2>3
    <3>4. Pushable(heap, stack, s, f) BY ONLY <3>1, <3>2, <3>3 DEF Pushable
    <3>5. stack' = Push(stack, s, f) BY <2>1 DEF Push
    <3>6. Pushed(heap, stack, f, stack') BY <3>4, <3>5, PushOk
    <3> QED BY <3>6 DEF Pushed
  <2>5. Top' = f /\ stack' # << >> BY <1>3, <2>4 DEF Top, Last
  <2>6. BatchLevel' = 1 BY <1>1 DEF BatchLevel
  <2> QED BY <1>1, <1>2, <1>5, <2>1, <2>2, <2>4, <2>5, <2>6 DEF NodesInv
<1>8. CASE s # << >> /\ ~("RECURSIVE" \in c.disp /\ subdirs # << >>)
  <2>1. stack' = NextDir(stack) /\ heap' = Without(s) BY <1>8 DEF EndDir
  <2>2. Dfree(s) \subseteq Level(heap, n + 1) BY <1>4, <1>8
  <2>3. heap' = [k \in DOMAIN heap \ Dfree(s) |-> heap[k]] BY <2>1 DEF Without
  <2>4. n + 1 # 1 BY <1>3
  <2> HIDE DEF s, n
  <2>5. /\ HeapOk(heap', made) /\ \A k : k # n + 1 => Kept(heap, heap', Level(heap, k))
    <3> DEFINE F == Dfree(s)
               N == n + 1
               h2 == [k \in DOMAIN heap \ F |-> heap[k]]
    <3>1. HeapOk(heap, made) /\ N # 1 /\ F \subseteq Level(heap, N) BY <1>2, <2>2, <2>4
    <3> HIDE DEF F, N
    <3>2. HeapOk(h2, made) /\ \A k : k # N => Kept(heap, h2, Level(heap, k))
      BY ONLY <3>1, FreeOk
    <3>3. heap' = h2 BY <2>3 DEF F
    <3> HIDE DEF h2
    <3> QED BY <3>2, <3>3 DEF N
  <2>6. \A k \in 1..n : k # n + 1 BY <1>3
  <2>7. StackOk(heap', stack) BY <1>2, <2>5, <2>6, StackKept DEF n
  <2>8. BatchOk(heap', made, 0, 1)
    <3>1. Older(heap', made) BY <2>5 DEF HeapOk
    <3> QED BY <3>1, NoBatch
  <2> QED BY <1>1, <1>2, <1>3, <2>1, <2>5, <2>7, <2>8, NodesNextDir DEF n
<1> QED BY <1>6, <1>7, <1>8

\* showdirs returns.
LEMMA NodesReturn ==
  ASSUME NodesInv, Return PROVE NodesInv'
<1> DEFINE n == Len(stack)
           sub == stack[n - 1].sub
           st == Front(stack)
<1>1. pc = "showdirs" /\ made' = made /\ dn' = dn BY DEF Return
<1>2. /\ HeapOk(heap, made) /\ BatchOk(heap, made, dn, 1) /\ StackOk(heap, stack)
      /\ stack # << >> /\ Older(heap, made)
  BY <1>1 DEF NodesInv, BatchLevel, HeapOk
<1>3. n \in Nat \ {0} BY <1>2, EmptySeq DEF StackOk
<1>4. CASE n = 1
  <2>1. pc' = "done" /\ stack' = << >> /\ heap' = heap BY <1>4 DEF Return
  <2>2. BatchLevel' = 1 BY <2>1 DEF BatchLevel
  <2>3. StackOk(heap, << >>) BY DEF StackOk
  <2> QED BY <1>1, <1>2, <2>1, <2>2, <2>3 DEF NodesInv
<1>5. CASE n # 1
  <2>1. heap' = Without(sub) /\ stack' = NextDir(st) /\ pc' = "showdirs"
    <3>1. /\ heap' = Without(stack[Len(stack) - 1].sub)
          /\ stack' = NextDir(Front(stack))
          /\ UNCHANGED pc
      BY <1>5, Zenon DEF Return
    <3> QED BY <1>1, <3>1
  <2>2. n > 1 /\ n - 1 \in 1..(n - 1) /\ (n - 1) + 1 = n /\ n - 1 \in 1..n
    <3> HIDE DEF n
    <3> QED BY ONLY <1>3, <1>5
  <2>3. Waiting(heap, stack[n - 1], stack[n], n - 1) /\ stack[n - 1] \in FrameType
    BY <1>2, <2>2 DEF StackOk
  <2>4. /\ sub \in Seq(Nat) /\ sub # << >>
        /\ Closed(heap, ToSet(sub)) /\ ToSet(sub) \subseteq Level(heap, n)
    BY <2>2, <2>3 DEF Waiting, FrameType
  <2>5. Dfree(sub) \subseteq Level(heap, n)
    <3> DEFINE T == ToSet(sub)
    <3> HIDE DEF T
    <3>1. Dfree(sub) \subseteq T BY <1>2, <2>4, DfreeWithin DEF T
    <3> QED BY <2>4, <3>1 DEF T
  <2>6. heap' = [k \in DOMAIN heap \ Dfree(sub) |-> heap[k]]
    <3> HIDE DEF sub
    <3> QED BY ONLY <2>1, ZenonT(40) DEF Without
  <2>7. /\ StackOk(heap, st) /\ Len(st) = n - 1 /\ st # << >>
        /\ st[n - 1].i <= Len(st[n - 1].dn)
    BY <1>2, <2>2, PopOk
  <2> HIDE DEF sub, st, n
  <2>8. /\ HeapOk(heap', made) /\ \A k : k # n => Kept(heap, heap', Level(heap, k))
    <3> DEFINE F == Dfree(sub)
               h2 == [k \in DOMAIN heap \ F |-> heap[k]]
    <3>1. HeapOk(heap, made) /\ n # 1 /\ F \subseteq Level(heap, n) BY <1>2, <1>5, <2>5
    <3> HIDE DEF F
    <3>2. HeapOk(h2, made) /\ \A k : k # n => Kept(heap, h2, Level(heap, k))
      BY ONLY <3>1, FreeOk
    <3>3. heap' = h2 BY <2>6 DEF F
    <3> HIDE DEF h2
    <3> QED BY <3>2, <3>3
  <2>9. \A k \in 1..Len(st) : k # n BY <1>3, <2>7
  <2>10. StackOk(heap', st) BY <2>7, <2>8, <2>9, StackKept
  <2>11. BatchOk(heap', made, dn, 1)
    <3>1. Older(heap', made) /\ Kept(heap, heap', Level(heap, 1)) BY <1>5, <2>8 DEF HeapOk
    <3> QED BY <1>2, <3>1, BatchKept
  <2> QED BY <1>1, <2>1, <2>7, <2>8, <2>10, <2>11, NodesNextDir
<1> QED BY <1>4, <1>5

\* An argument is examined,
LEMMA ArgumentAdds ==
  ASSUME NodesInv, FilesInv, Argument
  PROVE  LET path == <<Head(args)>>
         IN /\ path \in Paths /\ path # << >> /\ Len(path) = BatchLevel /\ BatchLevel = 1
            /\ AddDnode(path) /\ UNCHANGED <<stack, pc>>
<1>1. /\ pc = "args" /\ args # << >> /\ AddDnode(<<Head(args)>>) /\ stack' = stack /\ pc' = pc
  BY DEF Argument
<1>2. Head(args) \in DOMAIN NameLen BY <1>1, HeadTailProperties DEF FilesInv
<1>3. BatchLevel = 1 BY <1>1 DEF BatchLevel
<1> QED BY <1>1, <1>2, <1>3 DEF Paths

\* or an entry of a directory.
LEMMA EntryAdds ==
  ASSUME NodesInv, FilesInv, NEW n, n \in dir.left, ReadEntry(n)
  PROVE  /\ UNCHANGED <<stack, pc>> /\ pc = "readdir" /\ stack # << >> /\ Top.i <= Len(Top.dn)
         /\ IF Skipped(n) THEN UNCHANGED <<nodes, report>>
            ELSE LET path == Append(Path, n)
                 IN /\ path \in Paths /\ path # << >> /\ Len(path) = BatchLevel
                    /\ AddDnode(path)
<1>1. /\ pc = "readdir" /\ stack' = stack /\ pc' = pc
      /\ IF Skipped(n) THEN UNCHANGED <<nodes, report>> ELSE AddDnode(Append(Path, n))
  BY DEF ReadEntry
<1>2. stack # << >> /\ Top.i <= Len(Top.dn) BY <1>1 DEF NodesInv
<1>3. n \in DOMAIN NameLen BY DEF FilesInv
<1>4. Path \in Paths /\ Len(Path) = Len(stack) /\ Len(stack) \in Nat BY <1>2, AtDirectory
<1>5. Append(Path, n) \in Paths /\ Append(Path, n) # << >> /\ Len(Append(Path, n)) = BatchLevel
  BY <1>1, <1>3, <1>4 DEF Paths, BatchLevel
<1> QED BY <1>1, <1>2, <1>5

\* The invariant of the dnodes is kept by every step.
LEMMA NodesNext ==
  FilesInv /\ NodesInv /\ [LsNext]_lsvars => NodesInv'
<1> SUFFICES ASSUME FilesInv, NodesInv, [LsNext]_lsvars PROVE NodesInv' OBVIOUS
<1>1. Remains(entries) BY DEF FilesInv
<1>2. CASE Option BY <1>2, NodesAlone DEF Option
<1>3. CASE Usage BY <1>3, NodesAlone DEF Usage
<1>4. CASE OptionsDone BY <1>4, NodesAlone DEF OptionsDone
<1>5. CASE Argument BY <1>1, <1>5, ArgumentAdds, NodesAdded
<1>6. CASE ArgumentsDone BY <1>6, NodesArgumentsDone
<1>7. CASE ShowDir BY <1>7, NodesShowDir
<1>8. CASE EndDir BY <1>8, NodesEndDir
<1>9. CASE Return BY <1>9, NodesReturn
<1>10. ASSUME NEW n \in dir.left, ReadEntry(n) PROVE NodesInv'
  <2>1. pc = "readdir" /\ UNCHANGED <<stack, pc>> BY <1>10, EntryAdds
  <2>2. CASE Skipped(n)
    <3>1. UNCHANGED nodes BY <1>10, <2>2 DEF ReadEntry
    <3> QED BY <2>1, <3>1, NodesAlone
  <2>3. CASE ~Skipped(n) BY <1>1, <1>10, <2>1, <2>3, EntryAdds, NodesAdded
  <2> QED BY <2>2, <2>3
<1>11. ASSUME NEW n, MissEntry(n) PROVE NodesInv' BY <1>11, NodesAlone DEF MissEntry
<1>12. ASSUME NEW d, NEW n, Unlink(d, n) PROVE NodesInv' BY <1>12, NodesAlone DEF Unlink
<1>13. CASE UNCHANGED lsvars BY <1>13, NodesAlone DEF lsvars
<1> QED BY <1>2, <1>3, <1>4, <1>5, <1>6, <1>7, <1>8, <1>9, <1>10, <1>11, <1>12, <1>13 DEF LsNext, LsMain

\* It is all that NodesLive asks for.
LEMMA NodesInvLive == NodesInv => NodesLive
<1> SUFFICES ASSUME NodesInv PROVE NodesLive OBVIOUS
<1>1. /\ HeapOk(heap, made) /\ BatchOk(heap, made, dn, BatchLevel) /\ StackOk(heap, stack)
      /\ (stack # << >> => Top.sub = << >>)
  BY DEF NodesInv
<1>2. /\ DOMAIN heap \subseteq 1..made /\ \A id \in DOMAIN heap : heap[id].next < id
  BY <1>1 DEF HeapOk, Older
<1>3. dn \in DOMAIN heap \cup {0} BY <1>1 DEF BatchOk, Closed
<1>4. ASSUME NEW k \in DOMAIN stack
      PROVE  /\ stack[k].i \in 1..(Len(stack[k].dn) + 1)
             /\ \A id \in ToSet(stack[k].dn) \cup ToSet(stack[k].sub) :
                  id \in DOMAIN heap /\ heap[id].next \in DOMAIN heap \cup {0}
  <2> DEFINE f == stack[k]
  <2>1. k \in 1..Len(stack) /\ Len(stack) \in Nat BY <1>1 DEF StackOk
  <2>2. FrameOk(heap, f, k) BY <1>1, <2>1 DEF StackOk
  <2>3. \A id \in ToSet(f.sub) : id \in DOMAIN heap /\ heap[id].next \in DOMAIN heap \cup {0}
    <3>1. CASE k = Len(stack)
      <4>1. f.sub = << >> BY <1>1, <2>1, <3>1 DEF Top, Last
      <4>2. ToSet(f.sub) = {} BY <4>1 DEF ToSet
      <4> QED BY <4>2
    <3>2. CASE k # Len(stack)
      <4>1. k \in 1..(Len(stack) - 1) BY <2>1, <3>2
      <4>2. Closed(heap, ToSet(f.sub)) BY <1>1, <4>1 DEF StackOk, Waiting
      <4> QED BY <4>2 DEF Closed
    <3> QED BY <3>1, <3>2
  <2>4. \A id \in ToSet(f.dn) : id \in DOMAIN heap /\ heap[id].next \in DOMAIN heap \cup {0}
    <3>1. CASE k = 1
      <4>1. ToSet(f.dn) \subseteq Level(heap, 1) /\ Closed(heap, Level(heap, 1))
        BY <1>1, <2>2, <3>1 DEF FrameOk, HeapOk
      <4> QED BY <4>1 DEF Closed
    <3>2. CASE k # 1
      <4>1. k - 1 \in 1..(Len(stack) - 1) /\ (k - 1) + 1 = k BY <2>1, <3>2
      <4>2. Waiting(heap, stack[k - 1], f, k - 1) BY <1>1, <4>1 DEF StackOk
      <4> QED BY <4>2 DEF Waiting, Closed
    <3> QED BY <3>1, <3>2
  <2>5. f.i \in 1..(Len(f.dn) + 1) BY <2>2 DEF FrameOk
  <2> QED BY <2>3, <2>4, <2>5
<1> QED BY <1>2, <1>3, <1>4 DEF NodesLive

\* All three invariants.
LEMMA Invariants == Spec => [](OptionsInv /\ FilesInv /\ NodesInv)
<1>1. Init => OptionsInv /\ FilesInv /\ NodesInv BY OptionsFirst, FilesFirst, NodesFirst
<1>2. (OptionsInv /\ FilesInv /\ NodesInv) /\ [LsNext]_lsvars => (OptionsInv /\ FilesInv /\ NodesInv)'
  BY OptionsNext, FilesNext, NodesNext
<1> QED BY <1>1, <1>2, OfLs, PTL DEF Spec

\* No dnode is used after dfree: NodesLive, about showdirs, list_dir and dfree,
\* for every file system, depth of recursion and command line.
THEOREM NodesOutliveTheirUse == Spec => []NodesLive
BY Invariants, NodesInvLive, PTL

-----------------------------------------------------------------------------
(* The output.                                                             *)

\* a comes before b, and the files are sorted if none are too far apart.
Precedes(a, b, s) == IF s.reverse THEN Leads(b, a, s) ELSE Leads(a, b, s)
AllNear(files, s) == \A i, j \in DOMAIN files : Near(files[i], files[j], s)
SortedBy(files, s) ==
  AllNear(files, s) => \A i, j \in DOMAIN files : i < j => ~Precedes(files[j], files[i], s)

OutItem(o, s) ==
  /\ o \in [head : Paths, files : Seq(TrueDnode)]
  /\ SortedBy(o.files, s)
OutInv ==
  /\ pc \in {"options", "usage"} => out = << >>
  /\ out \in Seq([head : Paths, files : Seq(TrueDnode)])
  /\ \A k \in DOMAIN out : OutItem(out[k], c)

\* A dnode can be sorted and listed.
LEMMA DnodeSortable ==
  ASSUME NEW s, Sensible(s), NEW d \in TrueDnode
  PROVE  Sortable(d, s) /\ Listable(d)
<1>1. d.name \in DOMAIN NameLen /\ d.dstat \in {Attr[i] : i \in DOMAIN Attr}
  BY DEF TrueDnode, DnodeType
<1>2. d.name \in Nat BY <1>1, ShowConstants
<1>3. PICK i \in DOMAIN Attr : d.dstat = Attr[i] BY <1>1
<1>4. {Attr[i].size, Attr[i].mtime, Attr[i].ctime, Attr[i].atime} \subseteq Nat BY InodeConstants
<1>5. SortKey(d, s) \in Int
  <2>1. s.sort \in SortKeys BY DEF Sensible, SettingsType
  <2>2. CASE s.sort = "name" BY <2>2 DEF SortKey
  <2>3. CASE s.sort = "size" BY <1>3, <1>4, <2>3 DEF SortKey
  <2>4. CASE s.sort = "mtime" BY <1>3, <1>4, <2>4 DEF SortKey
  <2>5. CASE s.sort = "ctime" BY <1>3, <1>4, <2>5 DEF SortKey
  <2>6. CASE s.sort = "atime" BY <1>3, <1>4, <2>6 DEF SortKey
  <2> QED BY <2>1, <2>2, <2>3, <2>4, <2>5, <2>6 DEF SortKeys
<1> QED BY <1>1, <1>2, <1>3, <1>4, <1>5 DEF Sortable, Listable

\* What is given to showfiles.
LEMMA ListingSorted ==
  ASSUME NEW T, T \subseteq DOMAIN heap, \A id \in T : heap[id] \in TrueDnode,
         Sensible(c), NEW ids \in Seq(T)
  PROVE  /\ OutItem(Listing(Sorted(ids)), c)
         /\ ToSet(Listing(Sorted(ids)).files) = {heap[id] : id \in ToSet(ids)}
<1> DEFINE s == Sorted(ids)
           files == [k \in DOMAIN s |-> heap[s[k]]]
           near == \A i, j \in DOMAIN files : Near(files[i], files[j], c)
<1>1. s \in Shuffles(ids)
      /\ (Ranked(ToSet(ids), heap, c) => OrderedTo(s, Len(ids), heap, c))
  BY ShellsortSorts DEF Sorted
<1>2. s \in Seq(T) /\ Len(s) = Len(ids) /\ ToSet(s) = ToSet(ids) BY SortedIs
<1> HIDE DEF s
<1>3. DOMAIN s = 1..Len(ids) /\ Len(ids) \in Nat /\ Len(s) = Len(ids) BY <1>2
<1>4. files \in Seq(TrueDnode)
  <2>1. \A k \in DOMAIN s : heap[s[k]] \in TrueDnode BY <1>2, <1>3
  <2>2. files \in [1..Len(ids) -> TrueDnode] BY <1>3, <2>1
  <2> QED BY <1>3, <2>2, SeqDef
<1>5. ToSet(files) = {heap[id] : id \in ToSet(ids)}
  <2>1. ToSet(files) = {heap[s[k]] : k \in DOMAIN s} BY DEF ToSet
  <2>2. ToSet(s) = {s[k] : k \in DOMAIN s} BY DEF ToSet
  <2> QED BY <1>2, <2>1, <2>2
<1>6. Listing(s) = [head |-> << >>, files |-> files] BY DEF Listing
<1>7. DOMAIN files = 1..Len(ids) /\ \A k \in 1..Len(ids) : files[k] = heap[s[k]] BY <1>3
<1> HIDE DEF files
<1>8. ASSUME AllNear(files, c), NEW p \in DOMAIN files, NEW q \in DOMAIN files, p < q
      PROVE  ~Precedes(files[q], files[p], c)
  <2>1. \A x \in ToSet(ids) : \E k \in DOMAIN files : heap[x] = files[k]
    BY <1>5 DEF ToSet
  <2>2. \A x, y \in ToSet(ids) : Near(heap[x], heap[y], c)
    BY <1>8, <2>1 DEF AllNear
  <2>3. ToSet(ids) \subseteq T BY DEF ToSet
  <2>4. \A x \in ToSet(ids) : Sortable(heap[x], c) BY <2>3, DnodeSortable
  <2>5. Ranked(ToSet(ids), heap, c) BY <2>2, <2>4, NearRanked
  <2>6. Le(s[p], s[q], heap, c) BY <1>1, <1>7, <1>8, <2>5 DEF OrderedTo
  <2>7. Sortcmp(files[p], files[q], c) <= 0 BY <1>7, <1>8, <2>6 DEF Le
  <2>8. files[p] \in ToSet(files) /\ files[q] \in ToSet(files) BY <1>8 DEF ToSet
  <2>9. Sortable(files[p], c) /\ Sortable(files[q], c) BY <1>4, <1>8, DnodeSortable
  <2>10. Near(files[p], files[q], c) /\ Near(files[q], files[p], c) BY <1>8 DEF AllNear
  <2>11. ~(IF c.reverse THEN Leads(files[p], files[q], c) ELSE Leads(files[q], files[p], c))
    BY <2>7, <2>9, <2>10, SortcmpIs
  <2> QED BY <2>11 DEF Precedes
<1>9. SortedBy(files, c) BY <1>8 DEF SortedBy
<1>10. << >> \in Paths BY DEF Paths
<1> QED BY <1>4, <1>5, <1>6, <1>9, <1>10 DEF OutItem, s

\* A heading is no listing.
LEMMA HeadingItem ==
  ASSUME NEW path \in Paths PROVE OutItem(Heading(path), c)
<1>1. Heading(path) = [head |-> path, files |-> << >>] BY DEF Heading
<1>2. << >> \in Seq(TrueDnode) /\ DOMAIN << >> = {} OBVIOUS
<1> QED BY <1>1, <1>2 DEF OutItem, SortedBy

\* The output grows by one item at most.
LEMMA OutGrows ==
  ASSUME OutInv, Later,
         out' = out \/ \E o : OutItem(o, c) /\ out' = Append(out, o)
  PROVE  OutInv'
<1>1. c' = c /\ pc' \notin {"options", "usage"} BY DEF Later
<1> DEFINE O == [head : Paths, files : Seq(TrueDnode)]
<1>2. out \in Seq(O) /\ \A k \in DOMAIN out : OutItem(out[k], c) BY DEF OutInv
<1>3. CASE out' = out BY <1>1, <1>2, <1>3 DEF OutInv
<1>4. CASE \E o : OutItem(o, c) /\ out' = Append(out, o)
  <2>1. PICK o : OutItem(o, c) /\ out' = Append(out, o) BY <1>4
  <2>2. o \in O BY <2>1 DEF OutItem
  <2> HIDE DEF O
  <2>3. out' \in Seq(O) BY <1>2, <2>1, <2>2
  <2>4. \A k \in DOMAIN out' : out'[k] = o \/ (k \in DOMAIN out /\ out'[k] = out[k])
    BY <1>2, <2>1
  <2>5. \A k \in DOMAIN out' : OutItem(out'[k], c) BY <1>2, <2>1, <2>4
  <2> QED BY <1>1, <2>3, <2>5 DEF OutInv, O
<1> QED BY <1>3, <1>4

\* What the arguments and the directories show.
LEMMA ArgumentsShow ==
  ASSUME NodesInv, ArgumentsDone
  PROVE  LET files == IF "NOLIST" \in c.disp THEN Chain(dn)
                      ELSE Keep(Chain(dn), DOMAIN heap \ Dirs)
         IN /\ files \in Seq(Batch)
            /\ ToSet(files) = IF "NOLIST" \in c.disp THEN Batch ELSE Batch \ Dirs
            /\ out' = IF files = << >> THEN out ELSE Append(out, Listing(Sorted(files)))
<1> DEFINE dnp == Chain(dn)
           set == DOMAIN heap \ Dirs
           files == IF "NOLIST" \in c.disp THEN dnp ELSE Keep(dnp, set)
<1>1. dnp \in Seq(Batch) /\ Batch \subseteq DOMAIN heap
  <2>1. dnp \in Seq(Batch) /\ Batch \subseteq Level(heap, BatchLevel) BY BatchIs
  <2> QED BY <2>1 DEF Level
<1>2. Batch = ToSet(dnp) BY DEF Batch
<1>3. out' = IF files = << >> THEN out ELSE Append(out, Listing(Sorted(files)))
  BY DEF ArgumentsDone
<1> HIDE DEF dnp
<1>4. Keep(dnp, set) \in Seq(set \cap Batch) /\ ToSet(Keep(dnp, set)) = ToSet(dnp) \cap set
  <2> HIDE DEF set
  <2> QED BY <1>1, KeepIs
<1>5. Keep(dnp, set) \in Seq(Batch)
  <2> DEFINE U == set \cap Batch
  <2>1. U \subseteq Batch /\ Keep(dnp, set) \in Seq(U) BY <1>4
  <2> HIDE DEF U
  <2> QED BY <2>1, SeqMonotonic
<1>6. ToSet(dnp) \cap set = Batch \ Dirs BY <1>1, <1>2
<1> QED BY <1>1, <1>2, <1>3, <1>4, <1>5, <1>6 DEF dnp

\* What the chain under construction consists of.
LEMMA BatchTrue ==
  ASSUME NodesInv
  PROVE  Batch \subseteq DOMAIN heap /\ \A id \in Batch : heap[id] \in TrueDnode
<1>1. Batch \subseteq Level(heap, BatchLevel) BY BatchIs
<1>2. \A id \in DOMAIN heap : heap[id] \in TrueDnode BY DEF NodesInv, HeapOk
<1> QED BY <1>1, <1>2 DEF Level

\* The invariant of the output is kept by every step,
LEMMA OutNext ==
  OptionsInv /\ NodesInv /\ OutInv /\ [LsNext]_lsvars => OutInv'
<1> SUFFICES ASSUME OptionsInv, NodesInv, OutInv, [LsNext]_lsvars PROVE OutInv' OBVIOUS
<1>1. pc \in PcValues /\ Sensible(c) BY DEF OptionsInv
<1>2. CASE UNCHANGED lsvars BY <1>2 DEF lsvars, settings, OutInv
<1>3. CASE Option \/ Usage \/ OptionsDone
  <2>1. pc = "options" /\ out' = out BY <1>3 DEF Option, Usage, OptionsDone
  <2>2. out = << >> /\ DOMAIN out = {} BY <2>1 DEF OutInv
  <2> QED BY <2>1, <2>2 DEF OutInv
<1>4. CASE LsNext /\ Later
  <2>1. SUFFICES out' = out \/ \E o : OutItem(o, c) /\ out' = Append(out, o)
    BY <1>4, OutGrows
  <2>2. CASE out' = out BY <2>2
  <2>3. CASE ArgumentsDone
    <3> DEFINE files == IF "NOLIST" \in c.disp THEN Chain(dn)
                        ELSE Keep(Chain(dn), DOMAIN heap \ Dirs)
    <3>1. /\ files \in Seq(Batch)
          /\ out' = IF files = << >> THEN out ELSE Append(out, Listing(Sorted(files)))
      BY <2>3, ArgumentsShow
    <3> HIDE DEF files
    <3>2. OutItem(Listing(Sorted(files)), c) BY <1>1, <3>1, BatchTrue, ListingSorted
    <3> QED BY <3>1, <3>2
  <2>4. CASE ShowDir
    <3>1. Top.i <= Len(Top.dn) /\ pc = "showdirs" BY <2>4 DEF ShowDir
    <3>2. stack # << >> BY <3>1 DEF NodesInv
    <3>3. Path \in Paths BY <3>1, <3>2, AtDirectory
    <3>4. OutItem(Heading(Path), c) BY <3>3, HeadingItem
    <3>5. out' = out \/ out' = Append(out, Heading(Path)) BY <2>4 DEF ShowDir
    <3> QED BY <3>4, <3>5
  <2>5. CASE EndDir
    <3> DEFINE files == Chain(dn)
    <3>1. files \in Seq(Batch) BY BatchIs
    <3>2. out' = out \/ out' = Append(out, Listing(Sorted(files))) BY <2>5 DEF EndDir
    <3> HIDE DEF files
    <3>3. OutItem(Listing(Sorted(files)), c) BY <1>1, <3>1, BatchTrue, ListingSorted
    <3> QED BY <3>2, <3>3
  <2>6. ArgumentsDone \/ ShowDir \/ EndDir \/ Option \/ Usage \/ OptionsDone \/ out' = out
    <3>1. \A n : ReadEntry(n) => out' = out BY DEF ReadEntry
    <3>2. \A n : MissEntry(n) => out' = out BY DEF MissEntry
    <3>3. \A d, n : Unlink(d, n) => out' = out BY DEF Unlink
    <3>4. Argument => out' = out BY DEF Argument
    <3>5. Return => out' = out BY DEF Return
    <3> QED BY <1>4, <3>1, <3>2, <3>3, <3>4, <3>5 DEF LsNext, LsMain
  <2>7. Option \/ Usage \/ OptionsDone => out' = out BY DEF Option, Usage, OptionsDone
  <2> QED BY <2>2, <2>3, <2>4, <2>5, <2>6, <2>7
<1> QED BY <1>1, <1>2, <1>3, <1>4, LaterSteps

\* and holds at first.
LEMMA OutFirst == Init => OutInv
BY DEF Init, OutInv

-----------------------------------------------------------------------------
(* Listings are in order and in columns.                                   *)

\* Listings are such as showfiles takes.
LEMMA ListingsShowable ==
  ASSUME OptionsInv, OutInv, NEW k \in Listings
  PROVE  LET files == out[k].files
         IN files \in Seq(TrueDnode) /\ Showable(files, c) /\ SortedBy(files, c)
<1>1. k \in DOMAIN out /\ out[k].files # << >> BY DEF Listings
<1>2. OutItem(out[k], c) BY <1>1 DEF OutInv
<1>3. out[k].files \in Seq(TrueDnode) /\ SortedBy(out[k].files, c) BY <1>2 DEF OutItem
<1>4. Sensible(c) BY DEF OptionsInv
<1>5. \A d \in ToSet(out[k].files) : d \in TrueDnode BY <1>3 DEF ToSet
<1>6. \A d \in ToSet(out[k].files) : Listable(d) BY <1>4, <1>5, DnodeSortable
<1>7. c.width \in Nat BY <1>4 DEF Sensible, SettingsType
<1> QED BY <1>1, <1>3, <1>6, <1>7 DEF Showable

\* The order that InOrder is about,
LEMMA BeforeIs ==
  ASSUME NEW a, NEW b PROVE Before(a, b) <=> Precedes(a, b, c)
BY DEF Before, Precedes, Leads, SortKey

\* and the files that it is about.
LEMMA ComparableIs ==
  ASSUME NEW files, Comparable(files) PROVE AllNear(files, c)
<1>1. CASE c.sort = "name"
  <2>1. 0 - 0 < IntHalf BY ShowConstants
  <2> QED BY <1>1, <2>1 DEF AllNear, Near, SortKey
<1>2. CASE c.sort # "name" BY <1>2 DEF AllNear, Near, SortKey, Comparable
<1> QED BY <1>1, <1>2

\* Listings are in order,
LEMMA OutInvOrder == OptionsInv /\ OutInv => InOrder
<1> SUFFICES ASSUME OptionsInv, OutInv, NEW k \in Newest, Comparable(out[k].files),
                    NEW p \in Positions(Lines(k)), NEW q \in Positions(Lines(k)), Sooner(p, q)
             PROVE  ~Before(FileAt(Lines(k), q), FileAt(Lines(k), p))
  BY DEF InOrder
<1> DEFINE files == out[k].files
           lines == Showfiles(files, c)
           D(r) == DOMAIN lines[r]
<1>1. files \in Seq(TrueDnode) /\ Showable(files, c) /\ SortedBy(files, c)
  <2>1. k \in Listings BY DEF Newest
  <2> QED BY <2>1, ListingsShowable
<1>2. Lines(k) = lines BY DEF Lines
<1>3. PICK r \in DOMAIN lines : p \in {<<r, n>> : n \in DOMAIN lines[r]} BY <1>2 DEF Positions
<1>4. PICK n \in DOMAIN lines[r] : p = <<r, n>> BY <1>3
<1>5. PICK s \in DOMAIN lines : q \in {<<s, m>> : m \in DOMAIN lines[s]} BY <1>2 DEF Positions
<1>6. PICK m \in DOMAIN lines[s] : q = <<s, m>> BY <1>5
<1>7. Earlier(c, r, n, s, m) BY <1>4, <1>6 DEF Sooner, Earlier
<1>8. FileAt(lines, p) = lines[r][n].dn /\ FileAt(lines, q) = lines[s][m].dn
  BY <1>4, <1>6 DEF FileAt
<1> HIDE DEF files
<1> DEFINE i == PlaceOf(files, c, r, n)
           j == PlaceOf(files, c, s, m)
<1>9. i < j BY <1>1, <1>7, EarlierPlaced
<1>10. i \in 1..Len(files) /\ lines[r][n].dn = files[i] BY <1>1, CellHas
<1>11. j \in 1..Len(files) /\ lines[s][m].dn = files[j] BY <1>1, CellHas
<1> HIDE DEF i, j
<1>12. DOMAIN files = 1..Len(files) BY <1>1
<1>13. AllNear(files, c) BY ComparableIs DEF files
<1>14. ~Precedes(files[j], files[i], c) BY <1>1, <1>9, <1>10, <1>11, <1>12, <1>13 DEF SortedBy
<1> QED BY <1>2, <1>8, <1>10, <1>11, <1>14, BeforeIs

\* and in columns.
LEMMA OutInvColumns == OptionsInv /\ OutInv => LaidOut
<1> SUFFICES ASSUME OptionsInv, OutInv, c.width < ShortHalf,
                    c.list \subseteq {"INO", "FILENAME", "FILETYPE", "EXEC"},
                    NEW k \in Newest,
                    NEW p \in Positions(Lines(k)), NEW q \in Positions(Lines(k))
             PROVE  LET lines == Lines(k)
                        Cell(x) == lines[x[1]][x[2]]
                    IN /\ p[2] > 1 => Cell(p).to <= c.width
                       /\ p[2] = q[2] => Cell(p).at = Cell(q).at
                       /\ p[1] = q[1] /\ p[2] < q[2] => Cell(p).to < Cell(q).at
  BY DEF LaidOut
<1> DEFINE files == out[k].files
           lines == Showfiles(files, c)
           W == ColumnWidth(files, c) + 2
<1>1. files \in Seq(TrueDnode) /\ Showable(files, c)
  <2>1. k \in Listings BY DEF Newest
  <2> QED BY <2>1, ListingsShowable
<1>2. Lines(k) = lines BY DEF Lines
<1>3. PICK r \in DOMAIN lines : p \in {<<r, n>> : n \in DOMAIN lines[r]} BY <1>2 DEF Positions
<1>4. PICK n \in DOMAIN lines[r] : p = <<r, n>> BY <1>3
<1>5. PICK s \in DOMAIN lines : q \in {<<s, m>> : m \in DOMAIN lines[s]} BY <1>2 DEF Positions
<1>6. PICK m \in DOMAIN lines[s] : q = <<s, m>> BY <1>5
<1>7. Plain(c)
  <2>1. "FILENAME" \in c.list BY DEF OptionsInv, Sensible
  <2> QED BY <2>1 DEF Plain
<1> HIDE DEF files
<1> DEFINE a == lines[r][n]
           b == lines[s][m]
<1>8. /\ W \in Nat /\ n \in Nat \ {0} /\ a.at = (n - 1) * W /\ a.to < n * W /\ a.to \in Nat
      /\ (n > 1 => a.to <= c.width)
  BY <1>1, <1>7, CellsInColumns
<1>9. m \in Nat \ {0} /\ b.at = (m - 1) * W BY <1>1, <1>7, CellsInColumns
<1> HIDE DEF a, b, W
<1>10. n < m => a.to < b.at
  <2> SUFFICES ASSUME n < m PROVE a.to < b.at OBVIOUS
  <2>1. n <= m - 1 /\ n \in Nat /\ m - 1 \in Nat BY <1>8, <1>9
  <2>2. n * W <= (m - 1) * W /\ n * W \in Nat /\ (m - 1) * W \in Nat BY <1>8, <2>1
  <2> QED BY <1>8, <1>9, <2>2
<1>11. p[1] = r /\ p[2] = n /\ q[1] = s /\ q[2] = m BY <1>4, <1>6
<1>12. (n = m => a.at = b.at) BY <1>8, <1>9
<1> QED BY <1>2, <1>8, <1>10, <1>11, <1>12 DEF a, b

\* All invariants so far.
LEMMA OutAlways == Spec => [](OptionsInv /\ FilesInv /\ NodesInv /\ OutInv)
<1> DEFINE I == OptionsInv /\ FilesInv /\ NodesInv
<1>1. Init => OutInv BY OutFirst
<1>2. OptionsInv /\ NodesInv /\ OutInv /\ [LsNext]_lsvars => OutInv' BY OutNext
<1>3. Spec => [](OptionsInv /\ FilesInv /\ NodesInv) BY Invariants
<1> QED BY <1>1, <1>2, <1>3, OfLs, PTL DEF Spec

\* Every listing that ls prints is in the order of the options, as one reads
\* it: InOrder, about shellsort, sortcmp and showfiles.
THEOREM ListingsInOrder == Spec => []InOrder
BY OutAlways, OutInvOrder, PTL

\* Columns of names line up, apart from each other and within the terminal,
\* for every width the terminal reports or -w gives, up to what a short holds:
\* LaidOut, about ls_main, showfiles, nexttabstop and list_single.
THEOREM ColumnsLinedUp == Spec => []LaidOut
BY OutAlways, OutInvColumns, PTL

-----------------------------------------------------------------------------
(* The kernel, when names vanish.                                          *)

\* Info, Opendir, Within and Enters in directories e, with settings s.
InfoIn(e, s, path) ==
  LET ino == IF s.follow THEN Follow(WalkIn(e, path)).ino ELSE WalkIn(e, path).ino
  IN IF ino = None THEN Nothing ELSE Attr[ino]
OpenIn(e, path) ==
  LET ino == Follow(WalkIn(e, path)).ino IN IF ino \in DOMAIN e /\ Attr[ino].open THEN ino ELSE None
ListedBy(s, n) ==
  \/ n \notin Hidden \/ "DOT" \in s.disp
  \/ "HIDDEN" \in s.disp /\ n \notin {Dot, DotDot}
NamesOf(e, path) == IF OpenIn(e, path) = None THEN {} ELSE DOMAIN e[OpenIn(e, path)]
WithinIn(e, s, path) == {Append(path, n) : n \in {m \in NamesOf(e, path) : ListedBy(s, m)}}
EntersIn(e, s, path) ==
  /\ InfoIn(e, s, path).type = "dir"
  /\ IF Len(path) = 1 THEN "NOLIST" \notin s.disp
     ELSE "RECURSIVE" \in s.disp /\ Last(path) \notin {Dot, DotDot}

\* That is what they are, in the directories and with the settings as they are.
LEMMA KernelIs ==
  ASSUME Remains(entries), NEW path \in Paths
  PROVE  /\ Info(path) = InfoIn(entries, c, path) /\ Opendir(path) = OpenIn(entries, path)
         /\ Within(path) = WithinIn(entries, c, path)
         /\ Enters(path) <=> EntersIn(entries, c, path)
         /\ Exists(path) <=> InfoIn(entries, c, path) # Nothing
<1>1. Stat(path) = Follow(WalkIn(entries, path)).ino /\ Lstat(path) = WalkIn(entries, path).ino
  BY WalkIs DEF Stat, Lstat
<1>2. Stat(path) \in Inodes /\ Lstat(path) \in Inodes /\ Opendir(path) \in DOMAIN Entries \cup {None}
  BY WalksTyped
<1>3. Info(path) = InfoIn(entries, c, path) BY <1>1, <1>2 DEF Info, InodeInfo, InfoIn
<1>4. Opendir(path) = OpenIn(entries, path) BY <1>1 DEF Opendir, OpenIn
<1>5. NamesIn[Opendir(path)] = NamesOf(entries, path)
  <2>1. Opendir(path) \in Inodes BY <1>2, InodeConstants DEF Inodes
  <2>2. NamesIn[Opendir(path)] = IF Opendir(path) = None THEN {} ELSE DOMAIN entries[Opendir(path)]
    BY <2>1 DEF NamesIn
  <2> QED BY <1>4, <2>2 DEF NamesOf
<1>6. \A n : Listed(n) <=> ListedBy(c, n) BY DEF Listed, ListedBy
<1>7. Within(path) = WithinIn(entries, c, path) BY <1>5, <1>6 DEF Within, WithinIn
<1>8. Enters(path) <=> EntersIn(entries, c, path) BY <1>3 DEF Enters, EntersIn
<1> QED BY <1>3, <1>4, <1>7, <1>8 DEF Exists

\* What the kernel answers is a matter of types.
LEMMA KernelTyped ==
  ASSUME NEW e, Remains(e), NEW s, NEW path \in Paths
  PROVE  /\ InfoIn(e, s, path) \in {Attr[i] : i \in DOMAIN Attr} \cup {Nothing}
         /\ OpenIn(e, path) \in DOMAIN Entries \cup {None}
         /\ NamesOf(e, path) \subseteq DOMAIN NameLen
         /\ WithinIn(e, s, path) \subseteq Paths
         /\ EntersIn(e, s, path) => InfoIn(e, s, path) # Nothing
<1>1. Len(path) \in Nat BY DEF Paths
<1>2. WalkIn(e, path) \in Walks /\ Follow(WalkIn(e, path)) \in Walks
  BY <1>1, WalkTyped, FollowTyped
<1>3. InfoIn(e, s, path) \in {Attr[i] : i \in DOMAIN Attr} \cup {Nothing}
  BY <1>2 DEF InfoIn, Walks, Inodes
<1>4. OpenIn(e, path) \in DOMAIN Entries \cup {None} BY DEF OpenIn, Remains
<1>5. NamesOf(e, path) \subseteq DOMAIN NameLen
  BY <1>4, InodeConstants DEF NamesOf, Remains
<1>6. WithinIn(e, s, path) \subseteq Paths BY <1>5 DEF WithinIn, Paths
<1>7. EntersIn(e, s, path) => InfoIn(e, s, path) # Nothing BY DEF EntersIn, Nothing
<1> QED BY <1>3, <1>4, <1>5, <1>6, <1>7

\* The kernel's answers when names have gone.
LEMMA KernelLess ==
  ASSUME NEW e, NEW f, Remains(e), Remains(f), Shrunk(e, f), NEW s, NEW path \in Paths
  PROVE  /\ InfoIn(f, s, path) \in {InfoIn(e, s, path), Nothing}
         /\ OpenIn(f, path) \in {OpenIn(e, path), None}
         /\ WithinIn(f, s, path) \subseteq WithinIn(e, s, path)
         /\ EntersIn(f, s, path) => EntersIn(e, s, path)
<1>1. Len(path) \in Nat BY DEF Paths
<1>2. WalkIn(f, path) \in {WalkIn(e, path), Lost} BY <1>1, WalkLess
<1>3. Follow(WalkIn(f, path)) \in {Follow(WalkIn(e, path)), Lost} BY <1>2, FollowLost
<1>4. Lost.ino = None BY DEF Lost
<1>5. InfoIn(f, s, path) \in {InfoIn(e, s, path), Nothing} BY <1>2, <1>3, <1>4 DEF InfoIn
<1>6. OpenIn(f, path) \in {OpenIn(e, path), None}
  <2>1. DOMAIN f = DOMAIN e /\ None \notin DOMAIN e BY InodeConstants DEF Remains
  <2> QED BY <1>3, <1>4, <2>1 DEF OpenIn
<1>7. NamesOf(f, path) \subseteq NamesOf(e, path)
  <2>1. OpenIn(e, path) \in DOMAIN Entries \cup {None} BY KernelTyped
  <2> QED BY <1>6, <2>1 DEF NamesOf, Shrunk
<1>8. WithinIn(f, s, path) \subseteq WithinIn(e, s, path) BY <1>7 DEF WithinIn
<1>9. EntersIn(f, s, path) => EntersIn(e, s, path)
  <2>1. Nothing.type # "dir" BY DEF Nothing
  <2> QED BY <1>5, <2>1 DEF EntersIn
<1> QED BY <1>5, <1>6, <1>8, <1>9

-----------------------------------------------------------------------------
(* What is shown of a directory, and what is yet to be.                    *)

ShownIn(o) == {d.fullname : d \in UNION {ToSet(o[k].files) : k \in DOMAIN o}}
CoveredIn(e, s, S, ok, q) ==
  /\ \A p \in WithinIn(e, s, q) : InfoIn(e, s, p) # Nothing => p \in S
  /\ q \in ok => OpenIn(e, q) # None
  /\ \A p \in WithinIn(e, s, q) \cap ok : InfoIn(e, s, p) # Nothing
AwaitedIn(h, st, p) ==
  \E k \in 1..Len(st) : \E j \in DOMAIN st[k].dn :
    /\ j >= st[k].i /\ (k < Len(st) => j > st[k].i)
    /\ p = h[st[k].dn[j]].fullname
CoverIn(e, s, S, ok, h, st, A) ==
  \A p \in A \cup S : EntersIn(e, s, p) => AwaitedIn(h, st, p) \/ CoveredIn(e, s, S, ok, p)

\* A directory that is covered remains so when names have gone.
LEMMA CoveredLess ==
  ASSUME NEW e, NEW f, Remains(e), Remains(f), Shrunk(e, f), NEW s, NEW q \in Paths,
         NEW S, NEW S2, S \subseteq S2, NEW ok, NEW ok2, \A p \in ok2 : p \in ok /\ f = e,
         CoveredIn(e, s, S, ok, q)
  PROVE  CoveredIn(f, s, S2, ok2, q)
<1>1. ASSUME NEW p \in WithinIn(f, s, q), InfoIn(f, s, p) # Nothing PROVE p \in S2
  <2>1. p \in WithinIn(e, s, q) /\ p \in Paths BY KernelLess, KernelTyped
  <2>2. InfoIn(e, s, p) # Nothing BY <1>1, <2>1, KernelLess
  <2> QED BY <2>1, <2>2 DEF CoveredIn
<1>2. q \in ok2 => OpenIn(f, q) # None BY DEF CoveredIn
<1>3. \A p \in WithinIn(f, s, q) \cap ok2 : InfoIn(f, s, p) # Nothing BY DEF CoveredIn
<1> QED BY <1>1, <1>2, <1>3 DEF CoveredIn

\* Of paths that are awaited: the same ones, when the nodes of the stack are kept.
LEMMA AwaitedKept ==
  ASSUME NEW h, NEW st, StackOk(h, st), NEW h2, \A k \in 1..Len(st) : Kept(h, h2, Level(h, k)),
         NEW p, AwaitedIn(h, st, p)
  PROVE  AwaitedIn(h2, st, p)
<1>0. PICK k \in 1..Len(st) : \E j \in DOMAIN st[k].dn :
        /\ j >= st[k].i /\ (k < Len(st) => j > st[k].i)
        /\ p = h[st[k].dn[j]].fullname
  BY DEF AwaitedIn
<1>1. PICK j \in DOMAIN st[k].dn :
        /\ j >= st[k].i /\ (k < Len(st) => j > st[k].i)
        /\ p = h[st[k].dn[j]].fullname
  BY <1>0
<1>2. FrameOk(h, st[k], k) BY DEF StackOk
<1>3. st[k].dn[j] \in Level(h, k) BY <1>2 DEF FrameOk, ToSet
<1>4. h2[st[k].dn[j]] = h[st[k].dn[j]] BY <1>3 DEF Kept
<1> QED BY <1>1, <1>4 DEF AwaitedIn

\* What a recursive call leaves of the stack, and adds to it.
PushedAs(st, sub, g, s) ==
  /\ s \in Seq(FrameType) /\ Len(s) = Len(st) + 1 /\ s[Len(st) + 1] = g
  /\ \A k \in 1..Len(st) : s[k].dn = st[k].dn /\ s[k].i = st[k].i

\* What a recursive call does to the stack.
LEMMA PushIs ==
  ASSUME NEW h, NEW st, NEW sub, NEW g, Pushable(h, st, sub, g)
  PROVE  PushedAs(st, sub, g, Push(st, sub, g))
<1> DEFINE n == Len(st)
           f == [st[n] EXCEPT !.sub = sub]
           t == [st EXCEPT ![n] = f]
           s == Append(t, g)
<1> USE DEF Pushable
<1>1. st \in Seq(FrameType) BY DEF StackOk
<1>2. n \in Nat \ {0} /\ n \in 1..n BY <1>1, EmptySeq
<1>3. st[n] \in FrameType BY <1>1, <1>2
<1>4. f \in FrameType /\ f.dn = st[n].dn /\ f.i = st[n].i
  BY <1>3 DEF FrameType
<1>5. [st EXCEPT ![n].sub = sub] = t OBVIOUS
<1> HIDE DEF f
<1>6. t \in Seq(FrameType) /\ Len(t) = n /\ t[n] = f /\ \A k \in 1..(n - 1) : t[k] = st[k]
  BY <1>1, <1>2, <1>4
<1> HIDE DEF t
<1>7. /\ s \in Seq(FrameType) /\ Len(s) = n + 1 /\ s[n + 1] = g /\ s[n] = f
      /\ \A k \in 1..(n - 1) : s[k] = st[k]
  BY <1>2, <1>6
<1> HIDE DEF s
<1>8. ASSUME NEW k \in 1..n PROVE s[k].dn = st[k].dn /\ s[k].i = st[k].i
  <2>1. k = n \/ k \in 1..(n - 1) BY <1>2
  <2> QED BY <1>4, <1>7, <2>1
<1> QED BY <1>5, <1>7, <1>8 DEF s, f, Push, PushedAs

\* The directory that the innermost call of showdirs is at.
AtTop(h, st) == h[st[Len(st)].dn[st[Len(st)].i]].fullname

\* A place in the stack that is still to come.
LEMMA AwaitedAt ==
  ASSUME NEW h, NEW s, NEW k \in 1..Len(s), NEW j \in DOMAIN s[k].dn,
         j >= s[k].i, k < Len(s) => j > s[k].i
  PROVE  AwaitedIn(h, s, h[s[k].dn[j]].fullname)
BY DEF AwaitedIn

\* When a call goes on to its next directory, all that was awaited still is,
\* but for the one that it was at.
LEMMA AwaitedNextDir ==
  ASSUME NEW h, NEW st \in Seq(FrameType), st # << >>, NEW p, AwaitedIn(h, st, p)
  PROVE  AwaitedIn(h, NextDir(st), p) \/ p = AtTop(h, st)
<1> DEFINE n == Len(st)
           s == NextDir(st)
<1>0. PICK k \in 1..Len(st) : \E j \in DOMAIN st[k].dn :
        /\ j >= st[k].i /\ (k < Len(st) => j > st[k].i)
        /\ p = h[st[k].dn[j]].fullname
  BY DEF AwaitedIn
<1>1. PICK j \in DOMAIN st[k].dn :
        /\ j >= st[k].i /\ (k < Len(st) => j > st[k].i)
        /\ p = h[st[k].dn[j]].fullname
  BY <1>0
<1>2. /\ n \in Nat \ {0} /\ Len(s) = n
      /\ \A l \in 1..(n - 1) : s[l] = st[l]
      /\ s[n].dn = st[n].dn /\ s[n].i = st[n].i + 1
  BY NextDirIs
<1>3. st[k] \in FrameType /\ j \in Nat /\ st[k].i \in Nat
  <2>1. st[k] \in FrameType OBVIOUS
  <2>2. st[k].dn \in Seq(Nat) BY <2>1 DEF FrameType
  <2>3. j \in Nat BY ONLY <2>2, <1>1
  <2> QED BY <2>1, <2>3 DEF FrameType
<1> HIDE DEF s
<1>4. CASE k < n
  <2>1. k \in 1..(n - 1) BY <1>2, <1>4
  <2>2. s[k] = st[k] BY <1>2, <2>1
  <2>3. k \in 1..Len(s) /\ k < Len(s) BY <1>2, <1>4
  <2>5. j \in DOMAIN s[k].dn /\ j >= s[k].i /\ j > s[k].i BY <1>1, <1>3, <1>4, <2>2
  <2>4. AwaitedIn(h, s, h[s[k].dn[j]].fullname) BY <2>3, <2>5, AwaitedAt
  <2> QED BY <1>1, <2>2, <2>4 DEF s
<1>5. CASE k = n /\ j = st[n].i BY <1>1, <1>5 DEF AtTop
<1>6. CASE k = n /\ j # st[n].i
  <2>1. j >= st[n].i + 1 BY <1>1, <1>3, <1>6
  <2>2. n \in 1..Len(s) /\ ~(n < Len(s)) /\ j \in DOMAIN s[n].dn /\ p = h[s[n].dn[j]].fullname
    BY <1>1, <1>2, <1>6
  <2>3. AwaitedIn(h, s, p) BY <1>2, <2>1, <2>2 DEF AwaitedIn
  <2> QED BY <2>3 DEF s
<1>7. k = n \/ k < n
  <2>1. k \in 1..n /\ n \in Nat OBVIOUS
  <2> HIDE DEF n
  <2> QED BY ONLY <2>1
<1> QED BY <1>4, <1>5, <1>6, <1>7

\* The same when it calls itself for its subdirectories,
LEMMA AwaitedPush ==
  ASSUME NEW h, NEW st \in Seq(FrameType), st # << >>, NEW sub, NEW g, NEW s,
         PushedAs(st, sub, g, s), NEW p, AwaitedIn(h, st, p)
  PROVE  AwaitedIn(h, s, p) \/ p = AtTop(h, st)
<1> DEFINE n == Len(st)
<1>0. PICK k \in 1..Len(st) : \E j \in DOMAIN st[k].dn :
        /\ j >= st[k].i /\ (k < Len(st) => j > st[k].i)
        /\ p = h[st[k].dn[j]].fullname
  BY DEF AwaitedIn
<1>1. PICK j \in DOMAIN st[k].dn :
        /\ j >= st[k].i /\ (k < Len(st) => j > st[k].i)
        /\ p = h[st[k].dn[j]].fullname
  BY <1>0
<1>2. n \in Nat /\ Len(s) = n + 1 /\ s[k].dn = st[k].dn /\ s[k].i = st[k].i BY DEF PushedAs
<1>3. st[k] \in FrameType /\ j \in Nat /\ st[k].i \in Nat
  <2>1. st[k] \in FrameType OBVIOUS
  <2>2. st[k].dn \in Seq(Nat) BY <2>1 DEF FrameType
  <2>3. j \in Nat BY ONLY <2>2, <1>1
  <2> QED BY <2>1, <2>3 DEF FrameType
<1>4. CASE j = st[k].i /\ k = n BY <1>1, <1>4 DEF AtTop
<1>5. CASE ~(j = st[k].i /\ k = n)
  <2>1. j > st[k].i BY <1>1, <1>2, <1>3, <1>5
  <2>2. k \in 1..Len(s) /\ k < Len(s) BY <1>2
  <2>3. j >= s[k].i /\ j > s[k].i BY <1>2, <1>3, <2>1
  <2> QED BY <1>1, <1>2, <2>2, <2>3 DEF AwaitedIn
<1> QED BY <1>4, <1>5

\* which then are awaited.
LEMMA AwaitedPushed ==
  ASSUME NEW h, NEW st \in Seq(FrameType), NEW sub, NEW g \in FrameType, g.i = 1, NEW s,
         PushedAs(st, sub, g, s), NEW id \in ToSet(g.dn)
  PROVE  AwaitedIn(h, s, h[id].fullname)
<1>1. g.dn \in Seq(Nat) BY DEF FrameType
<1>2. PICK j \in DOMAIN g.dn : id = g.dn[j] BY DEF ToSet
<1>3. j >= 1 BY <1>1
<1>4. /\ Len(s) \in Nat /\ Len(s) \in 1..Len(s) /\ ~(Len(s) < Len(s)) /\ s[Len(s)] = g
  BY DEF PushedAs
<1> QED BY <1>2, <1>3, <1>4 DEF AwaitedIn

\* After the return to the caller's caller.
LEMMA AwaitedPop ==
  ASSUME NEW h, NEW st, StackOk(h, st), Len(st) > 1, st[Len(st)].i > Len(st[Len(st)].dn),
         NEW p, AwaitedIn(h, st, p)
  PROVE  AwaitedIn(h, NextDir(Front(st)), p)
<1> DEFINE n == Len(st)
           t == Front(st)
           s == NextDir(t)
<1>0. PICK k \in 1..Len(st) : \E j \in DOMAIN st[k].dn :
        /\ j >= st[k].i /\ (k < Len(st) => j > st[k].i)
        /\ p = h[st[k].dn[j]].fullname
  BY DEF AwaitedIn
<1>1. PICK j \in DOMAIN st[k].dn :
        /\ j >= st[k].i /\ (k < Len(st) => j > st[k].i)
        /\ p = h[st[k].dn[j]].fullname
  BY <1>0
<1>2. /\ StackOk(h, t) /\ Len(t) = n - 1 /\ t # << >>
      /\ \A l \in 1..(n - 1) : t[l] = st[l]
  BY PopOk
<1>3. st \in Seq(FrameType) /\ n \in Nat /\ t \in Seq(FrameType) BY <1>2 DEF StackOk
<1> HIDE DEF t
<1>4. /\ Len(s) = n - 1 /\ \A l \in 1..(n - 2) : s[l] = t[l]
      /\ s[n - 1].dn = t[n - 1].dn /\ s[n - 1].i = t[n - 1].i + 1
  <2>1. \A l \in 1..(Len(t) - 1) : s[l] = t[l] BY <1>2, <1>3, NextDirIs
  <2>2. Len(s) = Len(t) /\ s[Len(t)].dn = t[Len(t)].dn /\ s[Len(t)].i = t[Len(t)].i + 1
    BY <1>2, <1>3, NextDirIs
  <2>3. Len(t) - 1 = n - 2 BY <1>2, <1>3
  <2> QED BY <1>2, <2>1, <2>2, <2>3
<1> HIDE DEF s
<1>5. st[k] \in FrameType /\ st[k].dn \in Seq(Nat) /\ j \in Nat /\ st[k].i \in Nat
  <2>1. st[k] \in FrameType BY <1>3
  <2>2. st[k].dn \in Seq(Nat) BY <2>1 DEF FrameType
  <2>3. j \in Nat BY ONLY <2>2, <1>1
  <2> QED BY <2>1, <2>3 DEF FrameType
<1>6. k # n
  <2>1. j <= Len(st[k].dn) BY <1>5
  <2>2. Len(st[k].dn) \in Nat BY <1>5
  <2> QED BY <1>1, <1>5, <2>1, <2>2
<1>7. k \in 1..(n - 1) /\ k < n
  <2>1. k \in 1..n /\ n \in Nat OBVIOUS
  <2> HIDE DEF n
  <2> QED BY ONLY <1>6, <2>1
<1>8. t[k] = st[k] /\ j > st[k].i BY <1>1, <1>2, <1>7
<1>9. CASE k = n - 1
  <2>0. s[k].dn = st[k].dn /\ s[k].i = st[k].i + 1 BY <1>4, <1>8, <1>9
  <2>1. j >= s[k].i BY <1>5, <1>8, <2>0
  <2>2. k \in 1..Len(s) /\ ~(k < Len(s)) BY <1>4, <1>7, <1>9
  <2>3. AwaitedIn(h, s, h[s[k].dn[j]].fullname) BY <2>0, <2>1, <2>2, AwaitedAt
  <2> QED BY <1>1, <2>0, <2>3 DEF s, t
<1>10. CASE k # n - 1
  <2>1. k \in 1..(n - 2)
    <3> HIDE DEF n
    <3> QED BY ONLY <1>3, <1>7, <1>10
  <2>2. s[k] = st[k] BY <1>4, <1>8, <2>1
  <2>3. k \in 1..Len(s) /\ k < Len(s) BY <1>3, <1>4, <2>1
  <2>4. AwaitedIn(h, s, h[s[k].dn[j]].fullname) BY <1>1, <1>5, <2>2, <2>3, AwaitedAt
  <2> QED BY <1>1, <2>2, <2>4 DEF s, t
<1> QED BY <1>9, <1>10

\* When the outermost call has come to its end nothing is awaited.
LEMMA NoneAwaited ==
  ASSUME NEW h, NEW st \in Seq(FrameType), Len(st) = 1, st[1].i > Len(st[1].dn), NEW p
  PROVE  ~AwaitedIn(h, st, p)
<1> SUFFICES ASSUME AwaitedIn(h, st, p) PROVE FALSE OBVIOUS
<1>1. PICK k \in 1..Len(st) : \E j \in DOMAIN st[k].dn : j >= st[k].i BY DEF AwaitedIn
<1>2. k = 1 OBVIOUS
<1>3. PICK j \in DOMAIN st[1].dn : j >= st[1].i BY <1>1, <1>2
<1>4. st[1] \in FrameType OBVIOUS
<1>5. st[1].dn \in Seq(Nat) /\ st[1].i \in Nat BY <1>4 DEF FrameType
<1>6. j \in Nat /\ j <= Len(st[1].dn) /\ Len(st[1].dn) \in Nat BY <1>5
<1> QED BY <1>3, <1>5, <1>6

(* What the dnodes know.                                                   *)

Fewer(h, h2) == DOMAIN h2 \subseteq DOMAIN h /\ \A i \in DOMAIN h2 : h2[i] = h[i]
FewerDirs(e, f) == Remains(e) /\ Remains(f) /\ Shrunk(e, f)

\* A dnode has what stat says, unless its file has gone.
TrueInfoIn(e, s, h, quiet) ==
  /\ \A id \in DOMAIN h : InfoIn(e, s, h[id].fullname) \in {h[id].dstat, Nothing}
  /\ quiet => \A id \in DOMAIN h : InfoIn(e, s, h[id].fullname) = h[id].dstat

\* Without -L an argument is a name of the current directory.
OwnName(d) ==
  d.name \in DOMAIN Entries[Cwd] /\ d.dstat = Attr[Entries[Cwd][d.name]]
FirstIn(s, h) == ~s.follow => \A id \in Level(h, 1) : OwnName(h[id])

\* What the dnodes know remains true when names vanish and nodes are freed,
LEMMA TrueInfoKept ==
  ASSUME NEW e, NEW f, FewerDirs(e, f), NEW s, NEW h, NEW h2, Fewer(h, h2),
         \A id \in DOMAIN h : h[id] \in TrueDnode,
         NEW quiet, NEW quiet2, quiet2 => quiet /\ f = e, TrueInfoIn(e, s, h, quiet)
  PROVE  TrueInfoIn(f, s, h2, quiet2)
<1>1. Remains(e) /\ Remains(f) /\ Shrunk(e, f) BY DEF FewerDirs
<1>2. ASSUME NEW id \in DOMAIN h2 PROVE InfoIn(f, s, h2[id].fullname) \in {h2[id].dstat, Nothing}
  <2>1. id \in DOMAIN h /\ h2[id] = h[id] BY DEF Fewer
  <2>2. h[id].fullname \in Paths BY <2>1 DEF TrueDnode, DnodeType
  <2>3. InfoIn(e, s, h[id].fullname) \in {h[id].dstat, Nothing} BY <2>1 DEF TrueInfoIn
  <2>4. InfoIn(f, s, h[id].fullname) \in {InfoIn(e, s, h[id].fullname), Nothing}
    BY <1>1, <2>2, KernelLess
  <2> QED BY <2>1, <2>3, <2>4
<1>3. ASSUME quiet2, NEW id \in DOMAIN h2 PROVE InfoIn(f, s, h2[id].fullname) = h2[id].dstat
  <2>1. id \in DOMAIN h /\ h2[id] = h[id] BY DEF Fewer
  <2> QED BY <1>3, <2>1 DEF TrueInfoIn
<1> QED BY <1>2, <1>3 DEF TrueInfoIn

\* and when my_stat adds one.
LEMMA TrueInfoGrows ==
  ASSUME NEW e, NEW s, NEW h, NEW quiet, TrueInfoIn(e, s, h, quiet),
         NEW path, NEW h2, NEW m, NEW d, NEW info, Added(path, h, h2, m, d, info),
         info = InfoIn(e, s, path)
  PROVE  TrueInfoIn(e, s, h2, quiet)
<1>1. /\ DOMAIN h2 = DOMAIN h \cup {m + 1} /\ \A i \in DOMAIN h : h2[i] = h[i]
      /\ h2[m + 1].fullname = path /\ h2[m + 1].dstat = info
  BY DEF Added
<1>2. InfoIn(e, s, h2[m + 1].fullname) = h2[m + 1].dstat BY <1>1
<1>3. ASSUME NEW id \in DOMAIN h2 PROVE InfoIn(e, s, h2[id].fullname) \in {h2[id].dstat, Nothing}
  BY <1>1, <1>2 DEF TrueInfoIn
<1>4. ASSUME quiet, NEW id \in DOMAIN h2 PROVE InfoIn(e, s, h2[id].fullname) = h2[id].dstat
  BY <1>1, <1>2, <1>4 DEF TrueInfoIn
<1> QED BY <1>3, <1>4 DEF TrueInfoIn

\* A walk that is at no link stays there.
LEMMA FollowStays ==
  ASSUME NEW w \in Walks, w.ino = None \/ Attr[w.ino].type # "lnk"
  PROVE  Follow(w) = w
<1>1. FollowOne[w] = w BY DEF FollowOne
<1>2. MaxLinks + 1 \in Nat BY LsConstants
<1>3. Repeat(FollowOne, MaxLinks + 1, w) \in {w}
  <2> DEFINE P == {w}
  <2>1. \A x \in P : FollowOne[x] \in P BY <1>1
  <2>2. w \in P OBVIOUS
  <2> HIDE DEF P
  <2>3. Repeat(FollowOne, MaxLinks + 1, w) \in P BY <1>2, <2>1, <2>2, RepeatKeeps
  <2> QED BY <2>3 DEF P
<1> QED BY <1>3 DEF Follow

\* Without -L my_stat of an argument looks at one name and follows nothing.
LEMMA FirstName ==
  ASSUME NEW e, Remains(e), NEW s, ~s.follow, NEW n \in DOMAIN NameLen,
         InfoIn(e, s, <<n>>) # Nothing
  PROVE  n \in DOMAIN Entries[Cwd] /\ InfoIn(e, s, <<n>>) = Attr[Entries[Cwd][n]]
<1> DEFINE w == WalkIn(e, <<n>>)
           start == [ino |-> Cwd, links |-> 0]
<1>1. w.ino # None /\ InfoIn(e, s, <<n>>) = Attr[w.ino] BY DEF InfoIn
<1>2. Lost.ino = None BY DEF Lost
<1>3. Len(<<n>>) = 1 /\ Append(<< >>, n) = <<n>> /\ << >> \in Paths /\ Len(<< >>) = 0
  BY DEF Paths
<1>4. MaxPath \in Nat BY LsConstants
<1>5. 0 < MaxPath
  <2>1. ~(1 > MaxPath) BY <1>1, <1>2, <1>3 DEF WalkIn
  <2> QED BY <1>4, <2>1
<1>6. WalkIn(e, << >>) = start
  <2>1. ~(0 > MaxPath) BY <1>4
  <2>2. Repeat(WalkBody(e, << >>), 0, WalkStart) = WalkStart BY RepeatZero
  <2> QED BY <1>3, <2>1, <2>2 DEF WalkIn, WalkStart
<1>7. start \in Walks /\ start.ino = Cwd /\ Attr[Cwd].type # "lnk" /\ Cwd \in DOMAIN e
  <2>1. Cwd \in DOMAIN Attr /\ Attr[Cwd].type = "dir" BY InodeConstants
  <2>2. start \in Walks BY <2>1, LsConstants DEF Walks, Inodes
  <2> QED BY <2>1, <2>2, InodeConstants DEF Remains
<1>8. Follow(start) = start
  <2> HIDE DEF start
  <2> QED BY <1>7, FollowStays
<1>9. w = LookupIn(e, start, n)
  <2>1. w = LookupIn(e, Follow(WalkIn(e, << >>)), n) BY <1>3, <1>5, WalkOn
  <2> QED BY <1>6, <1>8, <2>1
<1>10. n \in DOMAIN e[Cwd] /\ w.ino = e[Cwd][n]
  BY <1>1, <1>2, <1>7, <1>9 DEF LookupIn
<1>11. DOMAIN e[Cwd] \subseteq DOMAIN Entries[Cwd] /\ e[Cwd][n] = Entries[Cwd][n]
  BY <1>10, InodeConstants DEF Remains
<1> QED BY <1>1, <1>10, <1>11

\* So it was for the dnodes that remain,
LEMMA FirstKept ==
  ASSUME NEW s, NEW h, NEW h2, Fewer(h, h2), FirstIn(s, h)
  PROVE  FirstIn(s, h2)
BY DEF FirstIn, Fewer, Level

\* and for a new one.
LEMMA FirstGrows ==
  ASSUME NEW e, Remains(e), NEW s, NEW h, FirstIn(s, h),
         NEW path \in Paths, NEW h2, NEW m, NEW d, NEW info, Added(path, h, h2, m, d, info),
         info = InfoIn(e, s, path), info # Nothing
  PROVE  FirstIn(s, h2)
<1>1. /\ DOMAIN h2 = DOMAIN h \cup {m + 1} /\ \A i \in DOMAIN h : h2[i] = h[i]
      /\ h2[m + 1].fullname = path /\ h2[m + 1].dstat = info /\ h2[m + 1] \in TrueDnode
  BY DEF Added
<1>2. SUFFICES ASSUME ~s.follow, NEW id \in Level(h2, 1) PROVE OwnName(h2[id])
  BY DEF FirstIn
<1>3. CASE id \in DOMAIN h
  <2>1. id \in Level(h, 1) /\ h2[id] = h[id] BY <1>1, <1>2, <1>3 DEF Level
  <2> QED BY <1>2, <2>1 DEF FirstIn
<1>4. CASE id = m + 1
  <2>1. Len(path) = 1 BY <1>1, <1>2, <1>4 DEF Level
  <2>2. PICK n \in DOMAIN NameLen : path = <<n>>
    <3>1. path[1] \in DOMAIN NameLen /\ path = <<path[1]>> BY <2>1 DEF Paths
    <3> QED BY <3>1
  <2>3. h2[id].name = n
    <3>1. h2[id].name = Last(path) BY <1>1, <1>4 DEF TrueDnode
    <3> QED BY <2>1, <2>2, <3>1 DEF Last
  <2>4. n \in DOMAIN Entries[Cwd] /\ info = Attr[Entries[Cwd][n]] BY <1>2, <2>2, FirstName
  <2> QED BY <1>1, <1>4, <2>3, <2>4 DEF OwnName
<1> QED BY <1>1, <1>2, <1>3, <1>4 DEF Level

\* The directories of a call have been entered for a reason.
Reason(s, h, k, id) ==
  IF k = 1 THEN "NOLIST" \notin s.disp
  ELSE "RECURSIVE" \in s.disp /\ h[id].name \notin {Dot, DotDot}
EnteredIn(s, h, st, n) == \A k \in 1..n : \A id \in ToSet(st[k].dn) : Reason(s, h, k, id)

\* The calls that stay keep their reasons.
LEMMA EnteredKept ==
  ASSUME NEW s, NEW h, NEW st, StackOk(h, st), NEW m, m \in 0..Len(st),
         EnteredIn(s, h, st, Len(st)),
         NEW h2, NEW st2, \A k \in 1..m : st2[k].dn = st[k].dn /\ Kept(h, h2, Level(h, k))
  PROVE  EnteredIn(s, h2, st2, m)
<1> SUFFICES ASSUME NEW k \in 1..m, NEW id \in ToSet(st2[k].dn) PROVE Reason(s, h2, k, id)
  BY DEF EnteredIn
<1>1. Len(st) \in Nat /\ k \in 1..Len(st)
  <2>1. Len(st) \in Nat BY DEF StackOk
  <2> QED BY <2>1
<1>2. id \in ToSet(st[k].dn) OBVIOUS
<1>3. Reason(s, h, k, id) BY <1>1, <1>2 DEF EnteredIn
<1>4. id \in Level(h, k) BY <1>1, <1>2 DEF StackOk, FrameOk
<1>5. h2[id] = h[id] BY <1>4 DEF Kept
<1> QED BY <1>3, <1>5 DEF Reason

(* What the steps of ls do to nodes, calls and output.                     *)

\* Names vanish, never appear; and each one that does is counted.
LEMMA QuietSteps ==
  ASSUME OptionsInv, FilesInv, [LsNext]_lsvars
  PROVE  FewerDirs(entries, entries') /\ (faults' = 0 => faults = 0 /\ entries' = entries)
<1>1. FilesInv' /\ Shrunk(entries, entries') BY FilesNext
<1>2. Remains(entries) /\ faults \in Nat BY DEF FilesInv
<1>3. Remains(entries)' BY <1>1 DEF FilesInv
<1>4. Remains(entries') BY <1>3 DEF Remains
<1>5. faults' = 0 => faults = 0 /\ entries' = entries
  <2>1. \A d, n : Unlink(d, n) => faults' = faults + 1 BY DEF Unlink
  <2>2. (\E d, n : Unlink(d, n)) \/ UNCHANGED fs
    <3>1. Option => UNCHANGED fs BY DEF Option
    <3>2. Usage => UNCHANGED fs BY DEF Usage
    <3>3. OptionsDone => UNCHANGED fs BY DEF OptionsDone
    <3>4. Argument => UNCHANGED fs BY DEF Argument
    <3>5. ArgumentsDone => UNCHANGED fs BY DEF ArgumentsDone
    <3>6. ShowDir => UNCHANGED fs BY DEF ShowDir
    <3>7. EndDir => UNCHANGED fs BY DEF EndDir
    <3>8. Return => UNCHANGED fs BY DEF Return
    <3>9. \A n : ReadEntry(n) => UNCHANGED fs BY DEF ReadEntry
    <3>10. \A n : MissEntry(n) => UNCHANGED fs BY DEF MissEntry
    <3>11. UNCHANGED lsvars => UNCHANGED fs BY DEF lsvars
    <3> QED BY <3>1, <3>2, <3>3, <3>4, <3>5, <3>6, <3>7, <3>8, <3>9, <3>10, <3>11 DEF LsNext, LsMain
  <2>3. UNCHANGED fs => faults' = faults /\ entries' = entries BY DEF fs
  <2>4. faults + 1 # 0 BY <1>2
  <2> QED BY <2>1, <2>2, <2>3, <2>4
<1> QED BY <1>1, <1>2, <1>4, <1>5 DEF FewerDirs

Fullnames(h, B) == {h[id].fullname : id \in B}

\* One more listing shows its files.
LEMMA ShownAppend ==
  ASSUME NEW T, NEW o \in Seq(T), NEW l
  PROVE  ShownIn(Append(o, l)) = ShownIn(o) \cup {d.fullname : d \in ToSet(l.files)}
<1> DEFINE q == Append(o, l)
           n == Len(o)
<1>1. /\ n \in Nat /\ DOMAIN o = 1..n /\ DOMAIN q = 1..(n + 1) /\ q[n + 1] = l
      /\ \A k \in 1..n : q[k] = o[k]
  OBVIOUS
<1> HIDE DEF q, n
<1>2. UNION {ToSet(q[k].files) : k \in DOMAIN q}
        = (UNION {ToSet(o[k].files) : k \in DOMAIN o}) \cup ToSet(l.files)
  <2>1. ASSUME NEW k \in DOMAIN q PROVE (k \in DOMAIN o /\ q[k] = o[k]) \/ q[k] = l
    <3>1. k = n + 1 \/ k \in 1..n BY <1>1
    <3> QED BY <1>1, <3>1
  <2>2. \A k \in DOMAIN o : k \in DOMAIN q /\ q[k] = o[k]
    <3>1. \A k \in 1..n : k \in 1..(n + 1) BY <1>1
    <3> QED BY <1>1, <3>1
  <2>3. n + 1 \in DOMAIN q BY <1>1
  <2> HIDE DEF ToSet
  <2> QED BY <1>1, <2>1, <2>2, <2>3
<1> QED BY <1>2 DEF ShownIn, q

\* What a listing of some dnodes shows.
LEMMA ShownListing ==
  ASSUME NodesInv, OutInv, Sensible(c), NEW ids \in Seq(Batch)
  PROVE  /\ ShownIn(Append(out, Listing(Sorted(ids)))) = ShownIn(out) \cup Fullnames(heap, ToSet(ids))
         /\ ids = << >> => Fullnames(heap, ToSet(ids)) = {}
<1> DEFINE l == Listing(Sorted(ids))
           T == [head : Paths, files : Seq(TrueDnode)]
<1>1. ToSet(l.files) = {heap[id] : id \in ToSet(ids)} BY BatchTrue, ListingSorted
<1>2. out \in Seq(T) BY DEF OutInv
<1> HIDE DEF l, T
<1>3. ShownIn(Append(out, l)) = ShownIn(out) \cup {d.fullname : d \in ToSet(l.files)}
  BY <1>2, ShownAppend
<1>4. {d.fullname : d \in ToSet(l.files)} = Fullnames(heap, ToSet(ids)) BY <1>1 DEF Fullnames
<1>5. ids = << >> => ToSet(ids) = {} BY DEF ToSet
<1> QED BY <1>3, <1>4, <1>5 DEF Fullnames, l

\* A directory of which nothing is entered, and one that is followed by some.
Finished(h, h2, st, st2) ==
  st2 = NextDir(st) /\ Fewer(h, h2) /\ \A k \in 1..Len(st) : Kept(h, h2, Level(h, k))
Descended(h, h2, st, st2, B) ==
  /\ h2 = h
  /\ \E sub, g : Pushable(h, st, sub, g) /\ st2 = Push(st, sub, g) /\ ToSet(g.dn) = B

\* The end of list_dir for one directory,
LEMMA EndDirDoes ==
  ASSUME NodesInv, OutInv, Sensible(c), EndDir
  PROVE  /\ pc = "readdir" /\ pc' = "showdirs" /\ dir.left = {}
         /\ UNCHANGED <<cmd, c, args, entries, faults, errors>>
         /\ ShownIn(out') = ShownIn(out) \cup Fullnames(heap, Batch)
         /\ \/ /\ Finished(heap, heap', stack, stack')
               /\ "RECURSIVE" \in c.disp => Batch \cap Subdirs = {}
            \/ /\ Descended(heap, heap', stack, stack', Batch \cap Subdirs)
               /\ "RECURSIVE" \in c.disp
<1> DEFINE s == Sorted(Chain(dn))
           subdirs == Keep(s, Subdirs)
           n == Len(stack)
           f == Frame(subdirs)
<1>1. /\ pc = "readdir" /\ pc' = "showdirs" /\ dir.left = {}
      /\ UNCHANGED <<cmd, c, args, entries, faults, errors>>
  BY DEF EndDir, settings, fs, report
<1>2. /\ HeapOk(heap, made) /\ StackOk(heap, stack) /\ Older(heap, made)
      /\ stack # << >> /\ Top.i <= Len(Top.dn)
  BY <1>1 DEF NodesInv, HeapOk
<1>3. n \in Nat \ {0} /\ Top = stack[n] BY <1>2, AtDirectory
<1>4. /\ s \in Seq(Nat) /\ ToSet(s) = Batch /\ Closed(heap, Batch)
      /\ Batch \subseteq Level(heap, n + 1) /\ Batch \subseteq Nat /\ Batch \subseteq DOMAIN heap
      /\ (s # << >> => Dfree(s) \subseteq Batch) /\ (s = << >> <=> Batch = {})
  BY <1>1, SortedBatch
<1>5. /\ Chain(dn) \in Seq(Batch) /\ Batch = ToSet(Chain(dn)) BY BatchIs DEF Batch
<1>6. ShownIn(out') = ShownIn(out) \cup Fullnames(heap, Batch)
  <2>1. CASE s = << >>
    <3>1. out' = out BY <2>1 DEF EndDir
    <3>2. Fullnames(heap, Batch) = {} BY <1>4, <2>1 DEF Fullnames
    <3> QED BY <3>1, <3>2
  <2>2. CASE s # << >>
    <3>1. out' = Append(out, Listing(s)) BY <2>2 DEF EndDir
    <3> QED BY <1>5, <3>1, ShownListing
  <2> QED BY <2>1, <2>2
<1>7. /\ f \in FrameType /\ f.i = 1 /\ f.sub = << >> /\ ToSet(f.dn) = ToSet(s) \cap Subdirs
      /\ f.dn = << >> <=> subdirs = << >>
  BY <1>4, FrameIs
<1>8. CASE s = << >>
  <2>1. stack' = NextDir(stack) /\ heap' = heap BY <1>8 DEF EndDir
  <2>2. Fewer(heap, heap') /\ \A k \in 1..n : Kept(heap, heap', Level(heap, k))
    BY <2>1 DEF Fewer, Kept, Level
  <2>3. Finished(heap, heap', stack, stack') BY <2>1, <2>2 DEF Finished
  <2> QED BY <1>1, <1>4, <1>6, <1>8, <2>3
<1>9. CASE s # << >> /\ "RECURSIVE" \in c.disp /\ subdirs # << >>
  <2>1. stack' = Append([stack EXCEPT ![n].sub = s], f) /\ heap' = heap BY <1>9 DEF EndDir
  <2> HIDE DEF f, s
  <2>2. \A id \in ToSet(f.dn) : heap[id].dstat.type = "dir" BY <1>7 DEF Subdirs, Dirs
  <2>3. StackOk(heap, stack) /\ stack # << >> /\ stack[Len(stack)].i <= Len(stack[Len(stack)].dn)
    BY <1>2, <1>3
  <2>4. /\ s \in Seq(Nat) /\ s # << >> /\ Closed(heap, ToSet(s))
        /\ ToSet(s) \subseteq Level(heap, Len(stack) + 1)
    BY <1>4, <1>9
  <2>5. /\ f \in FrameType /\ ToSet(f.dn) \subseteq ToSet(s) /\ f.i = 1
        /\ \A id \in ToSet(f.dn) : heap[id].dstat.type = "dir"
    BY <1>7, <2>2
  <2>6. Pushable(heap, stack, s, f) BY ONLY <2>3, <2>4, <2>5 DEF Pushable
  <2>7. stack' = Push(stack, s, f) BY <2>1 DEF Push
  <2>8. ToSet(f.dn) = Batch \cap Subdirs BY <1>4, <1>7
  <2>9. Descended(heap, heap', stack, stack', Batch \cap Subdirs)
    <3>1. heap' = heap /\ Pushable(heap, stack, s, f) /\ stack' = Push(stack, s, f)
          /\ ToSet(f.dn) = Batch \cap Subdirs
      BY <2>1, <2>6, <2>7, <2>8
    <3> QED BY ONLY <3>1 DEF Descended
  <2> QED BY <1>1, <1>6, <1>9, <2>9
<1>10. CASE s # << >> /\ ~("RECURSIVE" \in c.disp /\ subdirs # << >>)
  <2>1. stack' = NextDir(stack) /\ heap' = Without(s) BY <1>10 DEF EndDir
  <2>2. Dfree(s) \subseteq Level(heap, n + 1) BY <1>4, <1>10
  <2>3. heap' = [k \in DOMAIN heap \ Dfree(s) |-> heap[k]]
    <3> HIDE DEF s
    <3> QED BY ONLY <2>1, ZenonT(40) DEF Without
  <2> HIDE DEF s, n
  <2>4. Fewer(heap, heap') BY <2>3 DEF Fewer
  <2>5. ASSUME NEW k \in 1..n PROVE Kept(heap, heap', Level(heap, k))
    <3>1. k # n + 1 BY <1>3
    <3> QED BY <2>2, <2>3, <3>1 DEF Kept, Level
  <2>6. Finished(heap, heap', stack, stack') BY <2>1, <2>4, <2>5 DEF Finished, n
  <2>7. "RECURSIVE" \in c.disp => Batch \cap Subdirs = {}
    <3>1. SUFFICES ASSUME "RECURSIVE" \in c.disp PROVE Batch \cap Subdirs = {} OBVIOUS
    <3>2. f.dn = << >> BY <1>7, <1>10, <3>1
    <3>3. ToSet(f.dn) = {} BY <3>2 DEF ToSet
    <3> QED BY <1>4, <1>7, <3>3
  <2> QED BY <1>1, <1>6, <2>6, <2>7
<1> QED BY <1>8, <1>9, <1>10

\* the return of showdirs,
LEMMA ReturnDoes ==
  ASSUME NodesInv, Return
  PROVE  /\ pc = "showdirs" /\ UNCHANGED <<cmd, c, args, dn, entries, faults, dir, errors, out>>
         /\ stack[Len(stack)].i > Len(stack[Len(stack)].dn) /\ stack # << >>
         /\ \/ Len(stack) = 1 /\ stack' = << >> /\ pc' = "done" /\ heap' = heap
            \/ /\ Len(stack) > 1 /\ stack' = NextDir(Front(stack)) /\ pc' = "showdirs"
               /\ Fewer(heap, heap')
               /\ \A k \in 1..(Len(stack) - 1) : Kept(heap, heap', Level(heap, k))
<1> DEFINE n == Len(stack)
           sub == stack[n - 1].sub
<1>1. /\ pc = "showdirs" /\ UNCHANGED <<cmd, c, args, dn, entries, faults, dir, errors, out>>
      /\ Top.i > Len(Top.dn)
  BY DEF Return, settings, fs, report
<1>2. StackOk(heap, stack) /\ stack # << >> /\ Older(heap, made) BY <1>1 DEF NodesInv, HeapOk
<1>3. n \in Nat \ {0} BY <1>2, EmptySeq DEF StackOk
<1>4. Top = stack[n] BY DEF Top, Last
<1>5. CASE n = 1
  <2>1. pc' = "done" /\ stack' = << >> /\ heap' = heap BY <1>5 DEF Return
  <2> QED BY <1>1, <1>2, <1>4, <1>5, <2>1
<1>6. CASE n # 1
  <2>1. heap' = Without(sub) /\ stack' = NextDir(Front(stack)) /\ pc' = "showdirs"
    <3>1. /\ heap' = Without(stack[Len(stack) - 1].sub)
          /\ stack' = NextDir(Front(stack))
          /\ UNCHANGED pc
      BY <1>6, Zenon DEF Return
    <3> QED BY <1>1, <3>1
  <2>2. n > 1 /\ n - 1 \in 1..(n - 1) /\ (n - 1) + 1 = n /\ n - 1 \in 1..n
    <3> HIDE DEF n
    <3> QED BY ONLY <1>3, <1>6
  <2>3. Waiting(heap, stack[n - 1], stack[n], n - 1) /\ stack[n - 1] \in FrameType
    BY <1>2, <2>2 DEF StackOk
  <2>4. /\ sub \in Seq(Nat) /\ sub # << >>
        /\ Closed(heap, ToSet(sub)) /\ ToSet(sub) \subseteq Level(heap, n)
    BY <2>2, <2>3 DEF Waiting, FrameType
  <2> HIDE DEF sub
  <2>5. Dfree(sub) \subseteq Level(heap, n)
    <3> DEFINE T == ToSet(sub)
    <3> HIDE DEF T
    <3>1. Dfree(sub) \subseteq T BY <1>2, <2>4, DfreeWithin DEF T
    <3> QED BY <2>4, <3>1 DEF T
  <2>6. heap' = [k \in DOMAIN heap \ Dfree(sub) |-> heap[k]]
    BY ONLY <2>1, ZenonT(40) DEF Without
  <2> HIDE DEF n
  <2>7. Fewer(heap, heap') BY <2>6 DEF Fewer
  <2>8. ASSUME NEW k \in 1..(n - 1) PROVE Kept(heap, heap', Level(heap, k))
    <3>1. k # n BY <1>3
    <3> QED BY <2>5, <2>6, <3>1 DEF Kept, Level
  <2> QED BY <1>1, <1>2, <1>4, <2>1, <2>2, <2>7, <2>8 DEF n
<1> QED BY <1>5, <1>6

\* the next directory,
LEMMA ShowDirDoes ==
  ASSUME NodesInv, OutInv, ShowDir
  PROVE  /\ pc = "showdirs" /\ stack # << >> /\ Top.i <= Len(Top.dn)
         /\ UNCHANGED <<cmd, c, args, heap, made, entries, faults>>
         /\ ShownIn(out') = ShownIn(out)
         /\ \/ /\ Opendir(Path) = None /\ errors' = errors \cup {Path}
               /\ stack' = NextDir(stack) /\ pc' = "showdirs"
            \/ /\ Opendir(Path) # None /\ errors' = errors /\ stack' = stack /\ pc' = "readdir"
               /\ dn' = 0
               /\ dir' = [ino |-> Opendir(Path), left |-> DOMAIN entries[Opendir(Path)]]
<1>1. /\ pc = "showdirs" /\ Top.i <= Len(Top.dn)
      /\ UNCHANGED <<cmd, c, args, heap, made, entries, faults>>
  BY DEF ShowDir, settings, fs
<1>2. stack # << >> BY <1>1 DEF NodesInv
<1>3. ShownIn(out') = ShownIn(out)
  <2>1. out' = out \/ out' = Append(out, Heading(Path)) BY DEF ShowDir
  <2> DEFINE T == [head : Paths, files : Seq(TrueDnode)]
             l == Heading(Path)
  <2>2. out \in Seq(T) BY DEF OutInv
  <2>3. l.files = << >> BY DEF Heading
  <2>4. ToSet(l.files) = {} BY <2>3 DEF ToSet
  <2> HIDE DEF T, l
  <2>6. ShownIn(Append(out, l)) = ShownIn(out) \cup {d.fullname : d \in ToSet(l.files)}
    BY ONLY <2>2, ShownAppend
  <2>5. ShownIn(Append(out, l)) = ShownIn(out) BY ONLY <2>4, <2>6
  <2> QED BY <2>1, <2>5 DEF l
<1>4. CASE Opendir(Path) = None
  <2>1. errors' = errors \cup {Path} /\ stack' = NextDir(stack) /\ pc' = pc
    BY <1>4 DEF ShowDir, PerrorMsg
  <2> QED BY <1>1, <1>2, <1>3, <1>4, <2>1
<1>5. CASE Opendir(Path) # None
  <2>1. /\ errors' = errors /\ stack' = stack /\ pc' = "readdir" /\ dn' = 0
        /\ dir' = [ino |-> Opendir(Path), left |-> DOMAIN entries[Opendir(Path)]]
    BY <1>5 DEF ShowDir, report
  <2> QED BY <1>1, <1>2, <1>3, <1>5, <2>1
<1> QED BY <1>4, <1>5

\* and the end of the arguments.
LEMMA ArgumentsDoes ==
  ASSUME NodesInv, OutInv, Sensible(c), ArgumentsDone
  PROVE  /\ pc = "args" /\ args = << >> /\ pc' \in {"done", "showdirs"} /\ stack = << >>
         /\ UNCHANGED <<cmd, c, args, heap, made, dn, entries, faults, errors>>
         /\ ShownIn(out') = ShownIn(out)
              \cup Fullnames(heap, IF "NOLIST" \in c.disp THEN Batch ELSE Batch \ Dirs)
         /\ \/ stack' = << >> /\ ("NOLIST" \notin c.disp => Batch \cap Dirs = {})
            \/ /\ "NOLIST" \notin c.disp
               /\ \E f \in FrameType : stack' = <<f>> /\ f.i = 1 /\ ToSet(f.dn) = Batch \cap Dirs
<1> DEFINE files == IF "NOLIST" \in c.disp THEN Chain(dn) ELSE Keep(Chain(dn), DOMAIN heap \ Dirs)
           dirs == Keep(Chain(dn), Dirs)
           f == Frame(dirs)
<1>1. /\ pc = "args" /\ args = << >>
      /\ UNCHANGED <<cmd, c, args, heap, made, dn, entries, faults, errors>>
  BY DEF ArgumentsDone, settings, nodes, fs, report
<1>2. stack = << >> BY <1>1 DEF NodesInv
<1>3. /\ files \in Seq(Batch)
      /\ ToSet(files) = IF "NOLIST" \in c.disp THEN Batch ELSE Batch \ Dirs
      /\ out' = IF files = << >> THEN out ELSE Append(out, Listing(Sorted(files)))
  BY ArgumentsShow
<1>4. ShownIn(out') = ShownIn(out)
              \cup Fullnames(heap, IF "NOLIST" \in c.disp THEN Batch ELSE Batch \ Dirs)
  <2> HIDE DEF files
  <2>1. ShownIn(Append(out, Listing(Sorted(files)))) = ShownIn(out) \cup Fullnames(heap, ToSet(files))
    BY <1>3, ShownListing
  <2>2. files = << >> => Fullnames(heap, ToSet(files)) = {} BY <1>3, ShownListing
  <2> QED BY <1>3, <2>1, <2>2
<1>5. /\ f \in FrameType /\ f.i = 1 /\ ToSet(f.dn) = Batch \cap Dirs
      /\ f.dn = << >> <=> dirs = << >>
  <2>1. Chain(dn) \in Seq(Batch) /\ ToSet(Chain(dn)) = Batch BY BatchIs DEF Batch
  <2>2. Batch \subseteq Nat
    <3>1. Batch \subseteq DOMAIN heap BY BatchTrue
    <3>2. DOMAIN heap \subseteq Nat BY DEF NodesInv, HeapOk, Older
    <3> QED BY <3>1, <3>2
  <2> QED BY <2>1, <2>2, FrameIs
<1>6. CASE "NOLIST" \in c.disp
  <2>1. pc' = "done" /\ stack' = stack BY <1>6 DEF ArgumentsDone
  <2> QED BY <1>1, <1>2, <1>4, <1>6, <2>1
<1>7. CASE "NOLIST" \notin c.disp /\ dirs = << >>
  <2>1. pc' = "done" /\ stack' = stack BY <1>7 DEF ArgumentsDone
  <2>2. ToSet(f.dn) = {} BY <1>5, <1>7 DEF ToSet
  <2> QED BY <1>1, <1>2, <1>4, <1>5, <1>7, <2>1, <2>2
<1>8. CASE "NOLIST" \notin c.disp /\ dirs # << >>
  <2>1. pc' = "showdirs" /\ stack' = <<f>> BY <1>8 DEF ArgumentsDone
  <2> HIDE DEF f
  <2> QED BY <1>1, <1>2, <1>4, <1>5, <1>8, <2>1
<1> QED BY <1>6, <1>7, <1>8

\* What examining a path leaves.
Tried(path) ==
  \/ ~Exists(path) /\ errors' = errors \cup {path} /\ heap' = heap /\ Batch' = Batch
  \/ /\ Exists(path) /\ errors' = errors
     /\ Added(path, heap, heap', made, dn, Info(path)) /\ Batch' = Batch \cup {made + 1}

\* That is what AddDnode does,
LEMMA TriedIs ==
  ASSUME NodesInv, Remains(entries), NEW path \in Paths, path # << >>, AddDnode(path),
         UNCHANGED <<stack, pc>>, Len(path) = BatchLevel,
         pc \in {"options", "args", "usage"} => BatchLevel = 1
  PROVE  Tried(path)
<1>1. /\ NodesInv'
      /\ \/ ~Exists(path) /\ errors' = errors \cup {path} /\ UNCHANGED nodes
         \/ /\ Exists(path) /\ errors' = errors
            /\ made' = made + 1 /\ dn' = made + 1
            /\ Added(path, heap, heap', made, dn, Info(path))
            /\ BatchOf(heap', made', dn') = BatchOf(heap, made, dn) \cup {made + 1}
  BY NodesAdded
<1>2. Batch = BatchOf(heap, made, dn) BY BatchIs
<1>3. Batch' = BatchOf(heap', made', dn') BY DEF Batch, BatchOf, Chain, ChainIn, ChainBody
<1>4. UNCHANGED nodes => heap' = heap /\ Batch' = Batch BY <1>2, <1>3 DEF nodes
<1> QED BY <1>1, <1>2, <1>3, <1>4 DEF Tried

\* to an argument,
LEMMA ArgumentDoes ==
  ASSUME NodesInv, FilesInv, Argument
  PROVE  /\ pc = "args" /\ args # << >> /\ args' = Tail(args)
         /\ UNCHANGED <<cmd, c, entries, faults, stack, out, pc>>
         /\ <<Head(args)>> \in Paths /\ Tried(<<Head(args)>>)
<1>1. pc = "args" /\ args # << >> /\ args' = Tail(args)
      /\ UNCHANGED <<cmd, c, entries, faults, stack, out, pc>>
  BY DEF Argument, settings, fs
<1> DEFINE path == <<Head(args)>>
<1>2. /\ path \in Paths /\ path # << >> /\ Len(path) = BatchLevel /\ BatchLevel = 1
      /\ AddDnode(path) /\ UNCHANGED <<stack, pc>>
  BY ArgumentAdds
<1>3. Remains(entries) BY DEF FilesInv
<1> HIDE DEF path
<1>4. Tried(path) BY <1>2, <1>3, TriedIs
<1> QED BY <1>1, <1>2, <1>4 DEF path

\* and to an entry of a directory.
LEMMA EntryDoes ==
  ASSUME NodesInv, FilesInv, NEW n, n \in dir.left, ReadEntry(n)
  PROVE  /\ pc = "readdir" /\ stack # << >> /\ Top.i <= Len(Top.dn)
         /\ dir' = [ino |-> dir.ino, left |-> dir.left \ {n}]
         /\ UNCHANGED <<cmd, c, args, entries, faults, stack, out, pc>>
         /\ IF Skipped(n) THEN UNCHANGED <<nodes, report>>
            ELSE Append(Path, n) \in Paths /\ Tried(Append(Path, n))
<1>1. dir' = [ino |-> dir.ino, left |-> dir.left \ {n}]
      /\ UNCHANGED <<cmd, c, args, entries, faults, stack, out, pc>>
  <2>1. dir' = [dir EXCEPT !.left = @ \ {n}] BY DEF ReadEntry
  <2>2. dir \in [ino : DOMAIN Entries \cup {None}, left : SUBSET DOMAIN NameLen] BY DEF FilesInv
  <2> QED BY <2>1, <2>2 DEF ReadEntry, settings, fs
<1> DEFINE path == Append(Path, n)
<1>2. pc = "readdir" /\ stack # << >> /\ Top.i <= Len(Top.dn) BY EntryAdds
<1>3. CASE Skipped(n) BY <1>1, <1>2, <1>3, EntryAdds
<1>4. CASE ~Skipped(n)
  <2>1. /\ path \in Paths /\ path # << >> /\ Len(path) = BatchLevel
        /\ AddDnode(path) /\ UNCHANGED <<stack, pc>>
    BY <1>4, EntryAdds
  <2>2. Remains(entries) BY DEF FilesInv
  <2> HIDE DEF path
  <2>3. Tried(path) BY <1>2, <2>1, <2>2, TriedIs
  <2> QED BY <1>1, <1>2, <1>4, <2>1, <2>3 DEF path
<1> QED BY <1>3, <1>4

\* What a step does to the dnodes.
SoundInv == OptionsInv /\ FilesInv /\ NodesInv /\ OutInv
HeapStep ==
  \/ pc = "options" /\ UNCHANGED <<heap, stack>>
  \/ pc # "options" /\ UNCHANGED <<cmd, c>> /\ Fewer(heap, heap')
  \/ /\ pc # "options" /\ UNCHANGED <<cmd, c, entries, faults, stack>>
     /\ \E path \in Paths : Exists(path) /\ Added(path, heap, heap', made, dn, Info(path))

\* No step does more.
LEMMA HeapSteps ==
  ASSUME SoundInv, [LsNext]_lsvars
  PROVE  HeapStep
<1> USE DEF SoundInv
<1>1. heap' = heap => Fewer(heap, heap') BY DEF Fewer
<1>2. ASSUME NEW path \in Paths, Tried(path), pc # "options",
             UNCHANGED <<cmd, c, entries, faults, stack>>
      PROVE  HeapStep
  BY <1>1, <1>2 DEF Tried, HeapStep
<1>3. CASE Option \/ Usage \/ OptionsDone
  BY <1>3 DEF Option, Usage, OptionsDone, nodes, HeapStep
<1>4. CASE Argument BY <1>2, <1>4, ArgumentDoes
<1>5. CASE ArgumentsDone BY <1>1, <1>5 DEF ArgumentsDone, settings, nodes, HeapStep
<1>6. CASE ShowDir BY <1>1, <1>6 DEF ShowDir, settings, HeapStep
<1>7. CASE EndDir
  <2>1. Sensible(c) BY DEF OptionsInv
  <2>2. Fewer(heap, heap')
    <3>1. \A B : Descended(heap, heap', stack, stack', B) => heap' = heap BY DEF Descended
    <3>2. Finished(heap, heap', stack, stack') => Fewer(heap, heap') BY DEF Finished
    <3> QED BY <1>1, <1>7, <2>1, <3>1, <3>2, EndDirDoes
  <2>3. pc = "readdir" /\ UNCHANGED <<cmd, c>> BY <1>7, <2>1, EndDirDoes
  <2> QED BY <2>2, <2>3 DEF HeapStep
<1>8. CASE Return
  <2>1. pc = "showdirs" /\ UNCHANGED <<cmd, c>> BY <1>8, ReturnDoes
  <2>2. Fewer(heap, heap') BY <1>1, <1>8, ReturnDoes
  <2> QED BY <2>1, <2>2 DEF HeapStep
<1>9. ASSUME NEW n \in dir.left, ReadEntry(n) PROVE HeapStep
  <2>1. pc = "readdir" /\ UNCHANGED <<cmd, c, entries, faults, stack>> BY <1>9, EntryDoes
  <2>2. CASE Skipped(n)
    <3>1. UNCHANGED nodes BY <1>9, <2>2 DEF ReadEntry
    <3> QED BY <1>1, <2>1, <3>1 DEF nodes, HeapStep
  <2>3. CASE ~Skipped(n)
    <3>1. Append(Path, n) \in Paths /\ Tried(Append(Path, n)) BY <1>9, <2>3, EntryDoes
    <3> QED BY <1>2, <2>1, <3>1
  <2> QED BY <2>2, <2>3
<1>10. ASSUME NEW n, MissEntry(n) PROVE HeapStep
  BY <1>1, <1>10 DEF MissEntry, settings, nodes, HeapStep
<1>11. ASSUME NEW d, NEW n, Unlink(d, n) PROVE HeapStep
  BY <1>1, <1>11 DEF Unlink, settings, nodes, HeapStep
<1>12. CASE UNCHANGED lsvars BY <1>1, <1>12 DEF lsvars, settings, nodes, HeapStep
<1> QED BY <1>3, <1>4, <1>5, <1>6, <1>7, <1>8, <1>9, <1>10, <1>11, <1>12 DEF LsNext, LsMain

KnownInv ==
  /\ pc \in {"options", "usage"} => DOMAIN heap = {} /\ errors = {}
  /\ pc = "options" => args = cmd.args
  /\ TrueInfoIn(entries, c, heap, faults = 0)
  /\ FirstIn(c, heap)

\* The dnodes know the truth: at first,
LEMMA KnownFirst == Init => KnownInv
BY DEF Init, KnownInv, TrueInfoIn, FirstIn, Level

\* and after every step.
LEMMA KnownNext ==
  ASSUME SoundInv, SoundInv', KnownInv, [LsNext]_lsvars
  PROVE  KnownInv'
<1> DEFINE q == faults = 0
           q2 == faults' = 0
<1>1. FewerDirs(entries, entries') /\ (q2 => q /\ entries' = entries)
  BY QuietSteps DEF SoundInv
<1>2. \A id \in DOMAIN heap : heap[id] \in TrueDnode BY DEF SoundInv, NodesInv, HeapOk
<1>3. TrueInfoIn(entries, c, heap, q) /\ FirstIn(c, heap) BY DEF KnownInv
<1> HIDE DEF q, q2
<1>4. TrueInfoIn(entries', c', heap', q2) /\ FirstIn(c', heap')
  <2>1. CASE pc = "options" /\ UNCHANGED <<heap, stack>>
    <3>1. DOMAIN heap' = {} BY <2>1 DEF KnownInv
    <3> QED BY <3>1 DEF TrueInfoIn, FirstIn, Level
  <2>2. CASE pc # "options" /\ UNCHANGED <<cmd, c>> /\ Fewer(heap, heap')
    <3>1. c' = c BY <2>2
    <3>2. FirstIn(c', heap') BY <1>3, <2>2, <3>1, FirstKept
    <3>3. TrueInfoIn(entries', c', heap', q2) BY <1>1, <1>2, <1>3, <2>2, <3>1, TrueInfoKept
    <3> QED BY <3>2, <3>3
  <2>3. CASE /\ pc # "options" /\ UNCHANGED <<cmd, c, entries, faults, stack>>
             /\ \E path \in Paths : Exists(path) /\ Added(path, heap, heap', made, dn, Info(path))
    <3>1. PICK path \in Paths : Exists(path) /\ Added(path, heap, heap', made, dn, Info(path))
      BY <2>3
    <3>2. Remains(entries) BY <1>1 DEF FewerDirs
    <3>3. Info(path) = InfoIn(entries, c, path) BY <3>2, KernelIs
    <3>4. Info(path) # Nothing BY <3>1 DEF Exists
    <3>5. TrueInfoIn(entries, c, heap', q) BY <1>3, <3>1, <3>3, TrueInfoGrows
    <3>6. FirstIn(c, heap') BY <1>3, <3>1, <3>2, <3>3, <3>4, FirstGrows
    <3>7. q2 <=> q BY <2>3 DEF q, q2
    <3> QED BY <2>3, <3>5, <3>6, <3>7 DEF TrueInfoIn
  <2> QED BY <2>1, <2>2, <2>3, HeapSteps DEF HeapStep
<1>5. pc' \in {"options", "usage"} => DOMAIN heap' = {} /\ errors' = {}
  <2>1. CASE UNCHANGED lsvars BY <2>1 DEF lsvars, settings, nodes, report, KnownInv
  <2>2. CASE Option \/ Usage \/ OptionsDone BY <2>2 DEF Option, Usage, OptionsDone, nodes, report, KnownInv
  <2>3. CASE Later BY <2>3 DEF Later
  <2> QED BY <2>1, <2>2, <2>3, LaterSteps DEF SoundInv, OptionsInv
<1>6. pc' = "options" => args' = cmd'.args
  <2>1. CASE UNCHANGED lsvars BY <2>1 DEF lsvars, settings, KnownInv
  <2>2. CASE Option \/ Usage \/ OptionsDone BY <2>2 DEF Option, Usage, OptionsDone, KnownInv
  <2>3. CASE Later BY <2>3 DEF Later
  <2> QED BY <2>1, <2>2, <2>3, LaterSteps DEF SoundInv, OptionsInv
<1> QED BY <1>4, <1>5, <1>6 DEF KnownInv, q2

\* The calls of showdirs, and the nodes they go through, stay as they are.
SameCalls == UNCHANGED <<c, stack>> /\ Kept(heap, heap', DOMAIN heap)

\* my_stat leaves the other dnodes alone.
LEMMA TriedKeeps ==
  ASSUME NEW path, Tried(path)
  PROVE  Kept(heap, heap', DOMAIN heap)
BY DEF Tried, Added, Kept

\* Only four steps change the calls.
LEMMA CallSteps ==
  ASSUME SoundInv, [LsNext]_lsvars
  PROVE  \/ SameCalls \/ (stack = << >> /\ stack' = << >>)
         \/ ArgumentsDone \/ ShowDir \/ EndDir \/ Return
<1> USE DEF SoundInv
<1>1. heap' = heap => Kept(heap, heap', DOMAIN heap) BY DEF Kept
<1>2. CASE Option \/ Usage \/ OptionsDone
  BY <1>2 DEF Option, Usage, OptionsDone, NodesInv
<1>3. CASE Argument BY <1>3, ArgumentDoes, TriedKeeps DEF SameCalls
<1>4. ASSUME NEW n \in dir.left, ReadEntry(n) PROVE SameCalls
  <2>1. UNCHANGED <<c, stack>> BY <1>4, EntryDoes
  <2>2. CASE Skipped(n)
    <3>1. UNCHANGED nodes BY <1>4, <2>2 DEF ReadEntry
    <3> QED BY <1>1, <2>1, <3>1 DEF nodes, SameCalls
  <2>3. CASE ~Skipped(n) BY <1>4, <2>1, <2>3, EntryDoes, TriedKeeps DEF SameCalls
  <2> QED BY <2>2, <2>3
<1>5. ASSUME NEW n, MissEntry(n) PROVE SameCalls
  BY <1>1, <1>5 DEF MissEntry, settings, nodes, SameCalls
<1>6. ASSUME NEW d, NEW n, Unlink(d, n) PROVE SameCalls
  BY <1>1, <1>6 DEF Unlink, settings, nodes, SameCalls
<1>7. CASE UNCHANGED lsvars BY <1>1, <1>7 DEF lsvars, settings, nodes, SameCalls
<1> QED BY <1>2, <1>3, <1>4, <1>5, <1>6, <1>7 DEF LsNext, LsMain

\* The frames of the calls that stay, by what they go through.
LEMMA NextDirFrames ==
  ASSUME NEW st \in Seq(FrameType), st # << >>
  PROVE  Len(NextDir(st)) = Len(st) /\ \A k \in 1..Len(st) : NextDir(st)[k].dn = st[k].dn
<1> DEFINE n == Len(st)
           s == NextDir(st)
<1>1. /\ n \in Nat \ {0} /\ Len(s) = n /\ \A k \in 1..(n - 1) : s[k] = st[k]
      /\ s[n].dn = st[n].dn
  BY NextDirIs
<1> HIDE DEF s, n
<1>2. ASSUME NEW k \in 1..n PROVE s[k].dn = st[k].dn
  <2>1. k = n \/ k \in 1..(n - 1) BY <1>1
  <2> QED BY <1>1, <2>1
<1> QED BY <1>1, <1>2 DEF s, n

EnteredInv == EnteredIn(c, heap, stack, Len(stack))

\* The reasons of the calls, when one goes on,
LEMMA EnteredNextDir ==
  ASSUME NEW s, NEW h, NEW h2, NEW st, StackOk(h, st), st # << >>,
         EnteredIn(s, h, st, Len(st)),
         \A k \in 1..Len(st) : Kept(h, h2, Level(h, k))
  PROVE  EnteredIn(s, h2, NextDir(st), Len(NextDir(st)))
<1> DEFINE t == NextDir(st)
           m == Len(st)
<1>1. st \in Seq(FrameType) /\ Len(st) \in Nat BY DEF StackOk
<1>2. Len(t) = m /\ \A k \in 1..m : t[k].dn = st[k].dn BY <1>1, NextDirFrames
<1>3. m \in 0..Len(st) BY <1>1
<1> HIDE DEF t, m
<1>4. \A k \in 1..m : t[k].dn = st[k].dn /\ Kept(h, h2, Level(h, k)) BY <1>2 DEF m
<1>5. EnteredIn(s, h2, t, m) BY <1>3, <1>4, EnteredKept
<1> QED BY <1>2, <1>5 DEF t

\* when one returns,
LEMMA EnteredPop ==
  ASSUME NEW s, NEW h, NEW h2, NEW st, StackOk(h, st), Len(st) > 1,
         EnteredIn(s, h, st, Len(st)),
         \A k \in 1..(Len(st) - 1) : Kept(h, h2, Level(h, k))
  PROVE  EnteredIn(s, h2, NextDir(Front(st)), Len(NextDir(Front(st))))
<1> DEFINE t == Front(st)
           u == NextDir(t)
           m == Len(st) - 1
<1>1. StackOk(h, t) /\ Len(t) = m /\ t # << >> /\ \A k \in 1..m : t[k] = st[k]
  BY PopOk
<1>2. t \in Seq(FrameType) /\ Len(st) \in Nat BY <1>1 DEF StackOk
<1>3. m \in 0..Len(st) BY <1>2
<1> HIDE DEF t, m
<1>4. Len(u) = m /\ \A k \in 1..m : u[k].dn = t[k].dn BY <1>1, <1>2, NextDirFrames
<1> HIDE DEF u
<1>5. \A k \in 1..m : u[k].dn = st[k].dn /\ Kept(h, h2, Level(h, k)) BY <1>1, <1>4 DEF m
<1>6. EnteredIn(s, h2, u, m) BY <1>3, <1>5, EnteredKept
<1> QED BY <1>4, <1>6 DEF t, u

\* and when one calls itself.
LEMMA EnteredPush ==
  ASSUME NEW s, NEW h, NEW st, EnteredIn(s, h, st, Len(st)), "RECURSIVE" \in s.disp,
         NEW sub, NEW g, Pushable(h, st, sub, g),
         \A id \in ToSet(g.dn) : h[id].name \notin {Dot, DotDot}
  PROVE  EnteredIn(s, h, Push(st, sub, g), Len(Push(st, sub, g)))
<1> DEFINE t == Push(st, sub, g)
           m == Len(st)
<1>1. StackOk(h, st) /\ st # << >> BY DEF Pushable
<1>2. PushedAs(st, sub, g, t) BY PushIs
<1> HIDE DEF t
<1>3. Len(t) = m + 1 /\ t[m + 1] = g /\ \A k \in 1..m : t[k].dn = st[k].dn BY <1>2 DEF PushedAs
<1>4. m \in Nat \ {0} BY <1>1, EmptySeq DEF StackOk
<1>5. ASSUME NEW k \in 1..(m + 1), NEW id \in ToSet(t[k].dn) PROVE Reason(s, h, k, id)
  <2>1. CASE k = m + 1
    <3>1. id \in ToSet(g.dn) /\ k # 1 BY <1>3, <1>4, <1>5, <2>1
    <3> QED BY <3>1 DEF Reason
  <2>2. CASE k # m + 1
    <3>1. k \in 1..m BY <1>4, <2>2
    <3>2. id \in ToSet(st[k].dn) BY <1>3, <1>5, <3>1
    <3> QED BY <3>1, <3>2 DEF EnteredIn
  <2> QED BY <2>1, <2>2
<1>6. EnteredIn(s, h, t, m + 1) BY <1>5 DEF EnteredIn
<1> QED BY <1>3, <1>6 DEF t

\* No call is there for no reason: at first,
LEMMA EnteredFirst == Init => EnteredInv
BY DEF Init, EnteredInv, EnteredIn

\* and after every step.
LEMMA EnteredNext ==
  ASSUME SoundInv, EnteredInv, [LsNext]_lsvars
  PROVE  EnteredInv'
<1> DEFINE n == Len(stack)
<1>1. StackOk(heap, stack) /\ EnteredIn(c, heap, stack, n) /\ NodesInv /\ OutInv
  BY DEF SoundInv, NodesInv, EnteredInv
<1>2. Sensible(c) BY DEF SoundInv, OptionsInv
<1>3. CASE SameCalls
  <2>1. c' = c /\ stack' = stack BY <1>3 DEF SameCalls
  <2>2. n \in 0..n BY <1>1 DEF StackOk
  <2>3. \A k \in 1..n : stack[k].dn = stack[k].dn /\ Kept(heap, heap', Level(heap, k))
    BY <1>3 DEF SameCalls, Kept, Level
  <2> HIDE DEF n
  <2>4. EnteredIn(c, heap', stack, n) BY <1>1, <2>2, <2>3, EnteredKept DEF n
  <2> QED BY <2>1, <2>4 DEF EnteredInv, n
<1>4. CASE stack = << >> /\ stack' = << >>
  BY <1>4 DEF EnteredInv, EnteredIn
<1>5. CASE ArgumentsDone
  <2>1. /\ c' = c
        /\ \/ stack' = << >>
           \/ /\ "NOLIST" \notin c.disp
              /\ \E f \in FrameType : stack' = <<f>> /\ f.i = 1 /\ ToSet(f.dn) = Batch \cap Dirs
    BY <1>1, <1>2, <1>5, ArgumentsDoes
  <2>2. CASE stack' = << >> BY <2>2 DEF EnteredInv, EnteredIn
  <2>3. CASE stack' # << >>
    <3>1. PICK f \in FrameType : stack' = <<f>> BY <2>1, <2>3
    <3>2. Len(stack') = 1 BY <3>1
    <3>3. \A k \in 1..1 : k = 1 OBVIOUS
    <3> QED BY <2>1, <2>3, <3>2, <3>3 DEF EnteredInv, EnteredIn, Reason
  <2> QED BY <2>2, <2>3
<1>6. CASE ShowDir
  <2>1. /\ stack # << >> /\ UNCHANGED <<c, heap>>
        /\ stack' = stack \/ stack' = NextDir(stack)
    BY <1>1, <1>6, ShowDirDoes
  <2>2. \A k \in 1..n : Kept(heap, heap', Level(heap, k)) BY <2>1 DEF Kept, Level
  <2>3. EnteredIn(c, heap', NextDir(stack), Len(NextDir(stack)))
    <3> HIDE DEF EnteredIn
    <3> QED BY <1>1, <2>1, <2>2, EnteredNextDir
  <2> QED BY <1>1, <2>1, <2>3 DEF EnteredInv
<1>7. CASE EndDir
  <2>1. /\ pc = "readdir" /\ c' = c
        /\ \/ Finished(heap, heap', stack, stack')
           \/ /\ Descended(heap, heap', stack, stack', Batch \cap Subdirs)
              /\ "RECURSIVE" \in c.disp
    BY <1>1, <1>2, <1>7, EndDirDoes
  <2>2. CASE Finished(heap, heap', stack, stack')
    <3>1. stack' = NextDir(stack) /\ \A k \in 1..n : Kept(heap, heap', Level(heap, k))
      BY <2>2 DEF Finished
    <3>2. stack # << >> BY <2>1 DEF SoundInv, NodesInv
    <3>3. EnteredIn(c, heap', NextDir(stack), Len(NextDir(stack)))
      BY <1>1, <3>1, <3>2, EnteredNextDir
    <3> QED BY <2>1, <3>1, <3>3 DEF EnteredInv
  <2>3. CASE Descended(heap, heap', stack, stack', Batch \cap Subdirs) /\ "RECURSIVE" \in c.disp
    <3>1. PICK sub, g : Pushable(heap, stack, sub, g) /\ stack' = Push(stack, sub, g)
                        /\ ToSet(g.dn) = Batch \cap Subdirs
      BY <2>3 DEF Descended
    <3>2. heap' = heap BY <2>3 DEF Descended
    <3>3. \A id \in ToSet(g.dn) : heap[id].name \notin {Dot, DotDot} BY <3>1 DEF Subdirs
    <3>4. EnteredIn(c, heap, Push(stack, sub, g), Len(Push(stack, sub, g)))
      BY <1>1, <2>3, <3>1, <3>3, EnteredPush
    <3> QED BY <2>1, <3>1, <3>2, <3>4 DEF EnteredInv
  <2> QED BY <2>1, <2>2, <2>3
<1>8. CASE Return
  <2>1. /\ c' = c
        /\ \/ stack' = << >>
           \/ /\ Len(stack) > 1 /\ stack' = NextDir(Front(stack))
              /\ \A k \in 1..(Len(stack) - 1) : Kept(heap, heap', Level(heap, k))
    BY <1>1, <1>8, ReturnDoes
  <2>2. CASE stack' = << >> BY <2>2 DEF EnteredInv, EnteredIn
  <2>3. CASE stack' # << >>
    <3>1. EnteredIn(c, heap', NextDir(Front(stack)), Len(NextDir(Front(stack))))
      BY <1>1, <2>1, <2>3, EnteredPop
    <3> QED BY <2>1, <2>3, <3>1 DEF EnteredInv
  <2> QED BY <2>2, <2>3
<1> QED BY <1>3, <1>4, <1>5, <1>6, <1>7, <1>8, CallSteps

(* What ls is to examine: the arguments, and layer by layer what is within. *)

DeeperIn(e, s) ==
  [paths \in SUBSET Paths |->
     UNION {WithinIn(e, s, p) : p \in {q \in paths : EntersIn(e, s, q)}}]
LayerIn(e, s, A, n) == Repeat(DeeperIn(e, s), n, A)
WantedIn(e, s, A) == UNION {LayerIn(e, s, A, n) : n \in 0..MaxPath}
TroubleIn(e, s, A) ==
  {p \in WantedIn(e, s, A) :
     InfoIn(e, s, p) = Nothing \/ (EntersIn(e, s, p) /\ OpenIn(e, p) = None)}

\* Arguments are paths.
LEMMA ArgumentsTyped ==
  ASSUME OptionsInv
  PROVE  Arguments \subseteq Paths
<1>1. cmd.args \in Seq(DOMAIN NameLen) BY CommandLineConstants DEF OptionsInv
<1>2. Dot \in DOMAIN NameLen BY InodeConstants
<1>3. \A n \in DOMAIN NameLen : <<n>> \in Paths BY DEF Paths
<1>4. \A k \in DOMAIN cmd.args : cmd.args[k] \in DOMAIN NameLen BY <1>1
<1> QED BY <1>2, <1>3, <1>4 DEF Arguments

\* Wanted and Trouble, in the directories and with the settings as they are.
LEMMA WantedIs ==
  ASSUME Remains(entries), OptionsInv
  PROVE  /\ Wanted = WantedIn(entries, c, Arguments) /\ Wanted \subseteq Paths
         /\ Trouble = TroubleIn(entries, c, Arguments)
<1> DEFINE D == DeeperIn(entries, c)
<1>1. Deeper = D
  <2>1. ASSUME NEW paths \in SUBSET Paths PROVE Deeper[paths] = D[paths]
    <3>1. \A p \in paths : Within(p) = WithinIn(entries, c, p) /\ (Enters(p) <=> EntersIn(entries, c, p))
      BY KernelIs
    <3> QED BY <3>1 DEF Deeper, DeeperIn
  <2>2. DOMAIN Deeper = SUBSET Paths /\ DOMAIN D = SUBSET Paths BY DEF Deeper, DeeperIn
  <2>3. Deeper = [paths \in SUBSET Paths |-> Deeper[paths]] BY DEF Deeper
  <2>4. D = [paths \in SUBSET Paths |-> D[paths]] BY DEF DeeperIn
  <2> HIDE DEF D
  <2> QED BY <2>1, <2>3, <2>4
<1>2. Wanted = WantedIn(entries, c, Arguments) BY <1>1 DEF Wanted, WantedIn, LayerIn
<1>3. \A n \in Nat : LayerIn(entries, c, Arguments, n) \in SUBSET Paths
  <2> DEFINE P == SUBSET Paths
             A == Arguments
  <2>1. A \in P BY ArgumentsTyped
  <2>2. ASSUME NEW v \in P PROVE D[v] \in P
    <3>1. D[v] = UNION {WithinIn(entries, c, p) : p \in {q \in v : EntersIn(entries, c, q)}}
      BY DEF DeeperIn
    <3>2. \A p \in v : WithinIn(entries, c, p) \subseteq Paths BY KernelTyped
    <3> QED BY <3>1, <3>2
  <2> HIDE DEF D, P, A
  <2>3. \A n \in Nat : Repeat(D, n, A) \in P BY <2>1, <2>2, RepeatKeeps
  <2> QED BY <2>3 DEF LayerIn, D, P, A
<1>4. Wanted \subseteq Paths
  <2>1. MaxPath \in Nat BY LsConstants
  <2>2. \A n \in 0..MaxPath : LayerIn(entries, c, Arguments, n) \subseteq Paths BY <1>3, <2>1
  <2> QED BY <1>2, <2>2 DEF WantedIn
<1>5. ASSUME NEW p \in Wanted
      PROVE  (~Exists(p) \/ (Enters(p) /\ Opendir(p) = None))
               <=> (InfoIn(entries, c, p) = Nothing
                    \/ (EntersIn(entries, c, p) /\ OpenIn(entries, p) = None))
  <2>1. p \in Paths BY <1>4
  <2> QED BY <2>1, KernelIs
<1> QED BY <1>2, <1>4, <1>5 DEF Trouble, TroubleIn

\* A layer consists of paths.
LEMMA LayerTyped ==
  ASSUME NEW e, Remains(e), NEW s, NEW A \in SUBSET Paths, NEW n \in Nat
  PROVE  LayerIn(e, s, A, n) \in SUBSET Paths
<1> DEFINE P == SUBSET Paths
           D == DeeperIn(e, s)
<1>1. ASSUME NEW v \in P PROVE D[v] \in P
  <2>1. D[v] = UNION {WithinIn(e, s, p) : p \in {q \in v : EntersIn(e, s, q)}} BY DEF DeeperIn
  <2>2. \A p \in v : WithinIn(e, s, p) \subseteq Paths BY KernelTyped
  <2> QED BY <2>1, <2>2
<1>2. A \in P OBVIOUS
<1> HIDE DEF P, D
<1>3. \A k \in Nat : Repeat(D, k, A) \in P BY <1>1, <1>2, RepeatKeeps
<1> QED BY <1>3 DEF LayerIn, P, D

\* The first layer, and the next one.
LEMMA LayerNext ==
  ASSUME NEW e, Remains(e), NEW s, NEW A \in SUBSET Paths, NEW n \in Nat
  PROVE  /\ LayerIn(e, s, A, 0) = A
         /\ \A p : p \in LayerIn(e, s, A, n + 1) <=>
              \E q \in LayerIn(e, s, A, n) : EntersIn(e, s, q) /\ p \in WithinIn(e, s, q)
<1> DEFINE D == DeeperIn(e, s)
           L == LayerIn(e, s, A, n)
<1>1. LayerIn(e, s, A, 0) = A BY RepeatZero DEF LayerIn
<1>2. LayerIn(e, s, A, n + 1) = D[L] BY RepeatStep DEF LayerIn
<1>3. L \in SUBSET Paths BY LayerTyped
<1>4. D[L] = UNION {WithinIn(e, s, p) : p \in {q \in L : EntersIn(e, s, q)}}
  BY <1>3 DEF DeeperIn
<1> HIDE DEF L, D
<1> QED BY <1>1, <1>2, <1>4 DEF L

\* No path of more than PATH_MAX names is found.
LEMMA FoundShort ==
  ASSUME NEW e, Remains(e), NEW s, NEW path \in Paths,
         InfoIn(e, s, path) # Nothing \/ OpenIn(e, path) # None
  PROVE  Len(path) <= MaxPath
<1>1. Len(path) \in Nat /\ MaxPath \in Nat BY LsConstants DEF Paths
<1>2. SUFFICES ASSUME Len(path) > MaxPath PROVE FALSE BY <1>1
<1>3. WalkIn(e, path) = Lost BY <1>2 DEF WalkIn
<1>4. Follow(WalkIn(e, path)) = Lost /\ Lost.ino = None BY <1>3, FollowLost DEF Lost
<1>5. InfoIn(e, s, path) = Nothing BY <1>3, <1>4 DEF InfoIn
<1>6. OpenIn(e, path) = None
  <2>1. None \notin DOMAIN e BY InodeConstants DEF Remains
  <2> QED BY <1>4, <2>1 DEF OpenIn
<1> QED BY <1>5, <1>6

\* Trouble anywhere in the layers counts.
LEMMA TroubleAt ==
  ASSUME NEW e, Remains(e), NEW s, NEW A \in SUBSET Paths, NEW n \in Nat, n <= MaxPath,
         NEW p \in LayerIn(e, s, A, n),
         InfoIn(e, s, p) = Nothing \/ (EntersIn(e, s, p) /\ OpenIn(e, p) = None)
  PROVE  p \in TroubleIn(e, s, A)
<1>1. n \in 0..MaxPath BY LsConstants
<1>2. p \in WantedIn(e, s, A) BY <1>1 DEF WantedIn
<1> QED BY <1>2 DEF TroubleIn

(* The directory that is being read.                                       *)

\* The paths without a message; and those of which it tells that there is a file.
Fine == Paths \ errors
Ok == IF faults = 0 THEN Fine ELSE {}

\* A failure is not forgotten.
LEMMA FailureStays ==
  ASSUME SoundInv, [LsNext]_lsvars
  PROVE  Fine' \subseteq Fine /\ \A p \in Ok' : p \in Ok /\ entries' = entries
<1> USE DEF SoundInv
<1>1. faults' = 0 => faults = 0 /\ entries' = entries BY QuietSteps
<1>2. errors \subseteq errors'
  <2>1. Option \/ Usage \/ OptionsDone \/ ArgumentsDone => errors' = errors
    BY DEF Option, Usage, OptionsDone, ArgumentsDone, report
  <2>2. ShowDir \/ EndDir \/ Return => errors \subseteq errors'
    BY DEF ShowDir, EndDir, Return, report, PerrorMsg
  <2>3. \A path : Tried(path) => errors \subseteq errors' BY DEF Tried
  <2>4. Argument => errors \subseteq errors' BY <2>3, ArgumentDoes
  <2>5. ASSUME NEW n \in dir.left, ReadEntry(n) PROVE errors \subseteq errors'
    BY <2>3, <2>5, EntryDoes DEF report
  <2>6. \A n : MissEntry(n) => errors' = errors BY DEF MissEntry, report
  <2>7. \A d, n : Unlink(d, n) => errors' = errors BY DEF Unlink, report
  <2>8. UNCHANGED lsvars => errors' = errors BY DEF lsvars, report
  <2> QED BY <2>1, <2>2, <2>4, <2>5, <2>6, <2>7, <2>8 DEF LsNext, LsMain
<1> QED BY <1>1, <1>2 DEF Ok, Fine

\* list_dir skips what is not to be listed.
LEMMA SkippedIs ==
  ASSUME Sensible(c), NEW n
  PROVE  Skipped(n) <=> ~ListedBy(c, n)
<1>1. {Dot, DotDot} \subseteq Hidden BY LsConstants
<1>2. "DOT" \in c.disp => "HIDDEN" \in c.disp BY DEF Sensible
<1> QED BY <1>1, <1>2 DEF Skipped, ListedBy

\* A path of which there is a dnode, among those of paths F, or no file.
FoundIn(e, s, F, p, ok) ==
  /\ InfoIn(e, s, p) # Nothing => p \in F
  /\ p \in ok => InfoIn(e, s, p) # Nothing

\* All names in the directory q are found or still to come.
ReadingIn(e, s, F, q, d, quiet, ok) ==
  /\ OpenIn(e, q) \in {d.ino, None}
  /\ quiet => OpenIn(e, q) = d.ino /\ d.left \subseteq DOMAIN e[d.ino]
  /\ \A n \in DOMAIN e[d.ino] :
       ~ListedBy(s, n) \/ n \in d.left \/ FoundIn(e, s, F, Append(q, n), ok)

\* A name remains found when others vanish.
LEMMA FoundLess ==
  ASSUME NEW e, NEW f, FewerDirs(e, f), NEW s, NEW F, NEW F2, F \subseteq F2, NEW p \in Paths,
         NEW ok, NEW ok2, \A x \in ok2 : x \in ok /\ f = e, FoundIn(e, s, F, p, ok)
  PROVE  FoundIn(f, s, F2, p, ok2)
<1>1. InfoIn(f, s, p) \in {InfoIn(e, s, p), Nothing} BY KernelLess DEF FewerDirs
<1> QED BY <1>1 DEF FoundIn

\* So it is for the directory that is being read, with names found meanwhile.
LEMMA ReadingLess ==
  ASSUME NEW e, NEW f, FewerDirs(e, f), NEW s, NEW F, NEW F2, F \subseteq F2, NEW q \in Paths,
         NEW d, d.ino \in DOMAIN Entries, NEW d2, d2.ino = d.ino, d2.left \subseteq d.left,
         NEW quiet, NEW quiet2, quiet2 => quiet /\ f = e,
         NEW ok, NEW ok2, \A x \in ok2 : x \in ok /\ f = e,
         ReadingIn(e, s, F, q, d, quiet, ok),
         \A n \in d.left \ d2.left :
           n \notin DOMAIN f[d.ino] \/ ~ListedBy(s, n) \/ FoundIn(f, s, F2, Append(q, n), ok2)
  PROVE  ReadingIn(f, s, F2, q, d2, quiet2, ok2)
<1>1. Remains(e) /\ Remains(f) /\ Shrunk(e, f) BY DEF FewerDirs
<1>2. OpenIn(f, q) \in {d2.ino, None}
  <2>1. OpenIn(f, q) \in {OpenIn(e, q), None} BY <1>1, KernelLess
  <2> QED BY <2>1 DEF ReadingIn
<1>3. quiet2 => OpenIn(f, q) = d2.ino /\ d2.left \subseteq DOMAIN f[d2.ino]
  BY DEF ReadingIn
<1>4. ASSUME NEW n \in DOMAIN f[d2.ino]
      PROVE  ~ListedBy(s, n) \/ n \in d2.left \/ FoundIn(f, s, F2, Append(q, n), ok2)
  <2>1. n \in DOMAIN e[d.ino] BY <1>1 DEF Shrunk
  <2>2. CASE n \in d.left BY <2>2
  <2>3. CASE n \notin d.left /\ ListedBy(s, n)
    <3>1. FoundIn(e, s, F, Append(q, n), ok) BY <2>1, <2>3 DEF ReadingIn
    <3>2. n \in DOMAIN NameLen BY <1>1, <2>1, InodeConstants DEF Remains
    <3>3. Append(q, n) \in Paths BY <3>2 DEF Paths
    <3> QED BY <3>1, <3>3, FoundLess
  <2> QED BY <2>2, <2>3
<1> QED BY <1>2, <1>3, <1>4 DEF ReadingIn

ReadingInv ==
  pc = "readdir" => ReadingIn(entries, c, Fullnames(heap, Batch), Path, dir, faults = 0, Ok)

\* More dnodes, more names.
LEMMA FullnamesKept ==
  ASSUME NEW h, NEW h2, Kept(h, h2, DOMAIN h), NEW B, B \subseteq DOMAIN h,
         NEW B2, B \subseteq B2
  PROVE  Fullnames(h, B) \subseteq Fullnames(h2, B2)
BY DEF Fullnames, Kept

\* Names are read, or vanish.
LEMMA ReadingGoesOn ==
  ASSUME SoundInv, ReadingInv, [LsNext]_lsvars, pc = "readdir", UNCHANGED <<c, stack>>,
         Kept(heap, heap', DOMAIN heap), Batch \subseteq Batch',
         dir'.ino = dir.ino, dir'.left \subseteq dir.left,
         \A n \in dir.left \ dir'.left :
           \/ n \notin DOMAIN entries'[dir.ino] \/ ~ListedBy(c, n)
           \/ FoundIn(entries', c, Fullnames(heap', Batch'), Append(Path, n), Ok')
  PROVE  ReadingInv'
<1> USE DEF SoundInv
<1> DEFINE quiet == faults = 0
           quiet2 == faults' = 0
           F == Fullnames(heap, Batch)
           F2 == Fullnames(heap', Batch')
           ok == Ok
           ok2 == Ok'
           q == Path
<1>1. FewerDirs(entries, entries') /\ (quiet2 => quiet /\ entries' = entries) BY QuietSteps
<1>2. \A x \in ok2 : x \in ok /\ entries' = entries BY FailureStays
<1>3. F \subseteq F2 BY BatchTrue, FullnamesKept
<1>4. stack # << >> /\ Top.i <= Len(Top.dn) BY DEF NodesInv
<1>5. Path \in Paths /\ Top.dn[Top.i] \in DOMAIN heap BY <1>4, AtDirectory
<1>6. Path' = Path
  <2>1. heap'[Top.dn[Top.i]] = heap[Top.dn[Top.i]] BY <1>5 DEF Kept
  <2>2. Top' = Top BY DEF Top
  <2> QED BY <2>1, <2>2 DEF Path
<1>7. dir.ino \in DOMAIN Entries BY DEF FilesInv
<1>8. ReadingIn(entries, c, F, q, dir, quiet, ok) BY DEF ReadingInv
<1>9. \A n \in dir.left \ dir'.left :
        n \notin DOMAIN entries'[dir.ino] \/ ~ListedBy(c, n) \/ FoundIn(entries', c, F2, Append(q, n), ok2)
  OBVIOUS
<1>10. q \in Paths BY <1>5
<1> HIDE DEF quiet, quiet2, F, F2, ok, ok2, q
<1>11. ReadingIn(entries', c, F2, q, dir', quiet2, ok2)
  BY <1>1, <1>2, <1>3, <1>7, <1>8, <1>9, <1>10, ReadingLess
<1>12. ReadingIn(entries', c', F2, Path', dir', quiet2, ok2) BY <1>6, <1>11 DEF q
<1> QED BY <1>12 DEF ReadingInv, quiet2, F2, ok2

\* The directory that is being read: at first,
LEMMA ReadingFirst == Init => ReadingInv
BY DEF Init, ReadingInv

\* and after every step.
LEMMA ReadingNext ==
  ASSUME SoundInv, ReadingInv, [LsNext]_lsvars
  PROVE  ReadingInv'
<1> USE DEF SoundInv
<1> DEFINE Goes == /\ pc = "readdir" /\ UNCHANGED <<c, stack>>
                   /\ Kept(heap, heap', DOMAIN heap) /\ Batch \subseteq Batch'
                   /\ dir'.ino = dir.ino /\ dir'.left \subseteq dir.left
           Read2(n) == \/ n \notin DOMAIN entries'[dir.ino] \/ ~ListedBy(c, n)
                       \/ FoundIn(entries', c, Fullnames(heap', Batch'), Append(Path, n), Ok')
<1>1. ASSUME Goes, \A n \in dir.left \ dir'.left : Read2(n) PROVE ReadingInv'
  BY <1>1, ReadingGoesOn
<1>2. UNCHANGED nodes => Kept(heap, heap', DOMAIN heap) /\ Batch' = Batch /\ heap' = heap
  BY DEF Kept, nodes, Batch, Chain
<1>3. Sensible(c) BY DEF OptionsInv
<1>4. dir \in [ino : DOMAIN Entries \cup {None}, left : SUBSET DOMAIN NameLen] BY DEF FilesInv
<1>5. ASSUME NEW n \in dir.left, ReadEntry(n) PROVE ReadingInv'
  <2>1. /\ pc = "readdir" /\ UNCHANGED <<c, entries, faults, stack>>
        /\ dir' = [ino |-> dir.ino, left |-> dir.left \ {n}]
    BY <1>5, EntryDoes
  <2>2. dir'.ino = dir.ino /\ dir'.left \subseteq dir.left /\ \A m \in dir.left \ dir'.left : m = n
    BY <2>1
  <2>3. CASE Skipped(n)
    <3>1. UNCHANGED nodes BY <1>5, <2>3 DEF ReadEntry
    <3>2. Read2(n) BY <1>3, <2>3, SkippedIs
    <3>3. Goes BY <1>2, <2>1, <2>2, <3>1
    <3> QED BY <1>1, <2>2, <3>2, <3>3
  <2>4. CASE ~Skipped(n)
    <3> DEFINE path == Append(Path, n)
    <3>1. path \in Paths /\ Tried(path) BY <1>5, <2>4, EntryDoes
    <3> HIDE DEF path
    <3>2. Kept(heap, heap', DOMAIN heap) BY <3>1, TriedKeeps
    <3>3. Exists(path) <=> InfoIn(entries, c, path) # Nothing BY <3>1, KernelIs DEF FilesInv
    <3>4. CASE ~Exists(path) /\ errors' = errors \cup {path} /\ Batch' = Batch
      <4>1. FoundIn(entries', c, Fullnames(heap', Batch'), path, Ok')
        <5>1. path \notin Ok' BY <3>4 DEF Ok, Fine
        <5> QED BY <2>1, <3>3, <3>4, <5>1 DEF FoundIn
      <4>2. Read2(n) BY <4>1 DEF path
      <4>3. Goes BY <2>1, <2>2, <3>2, <3>4
      <4> QED BY <1>1, <2>2, <4>2, <4>3
    <3>5. CASE /\ Exists(path) /\ Added(path, heap, heap', made, dn, Info(path))
               /\ Batch' = Batch \cup {made + 1}
      <4>1. path \in Fullnames(heap', Batch') BY <3>5 DEF Added, Fullnames
      <4>2. FoundIn(entries', c, Fullnames(heap', Batch'), path, Ok')
        BY <2>1, <3>3, <3>5, <4>1 DEF FoundIn
      <4>3. Read2(n) BY <4>2 DEF path
      <4>4. Goes BY <2>1, <2>2, <3>2, <3>5
      <4> QED BY <1>1, <2>2, <4>3, <4>4
    <3> QED BY <3>1, <3>4, <3>5 DEF Tried
  <2> QED BY <2>3, <2>4
<1>6. ASSUME NEW n, MissEntry(n) PROVE ReadingInv'
  <2>1. /\ pc = "readdir" /\ UNCHANGED <<c, entries, stack>> /\ UNCHANGED nodes
        /\ n \notin DOMAIN entries[dir.ino] /\ dir' = [dir EXCEPT !.left = @ \ {n}]
    BY <1>6 DEF MissEntry, settings, fs
  <2>2. dir'.ino = dir.ino /\ dir'.left \subseteq dir.left /\ \A m \in dir.left \ dir'.left : m = n
    BY <1>4, <2>1
  <2>3. Goes BY <1>2, <2>1, <2>2
  <2>4. Read2(n) BY <2>1
  <2> QED BY <1>1, <2>2, <2>3, <2>4
<1>7. CASE ShowDir
  <2>1. \/ pc' = "showdirs"
        \/ /\ Opendir(Path) # None /\ pc' = "readdir"
           /\ UNCHANGED <<c, stack, heap, entries, faults>>
           /\ dir' = [ino |-> Opendir(Path), left |-> DOMAIN entries[Opendir(Path)]]
    BY <1>7, ShowDirDoes
  <2>2. CASE pc' = "showdirs" BY <2>2 DEF ReadingInv
  <2>3. CASE pc' = "readdir"
    <3>1. Top.i <= Len(Top.dn) /\ stack # << >> BY <1>7, ShowDirDoes
    <3>2. Path \in Paths BY <3>1, AtDirectory
    <3>3. Opendir(Path) = OpenIn(entries, Path) BY <3>2, KernelIs DEF FilesInv
    <3>4. Path' = Path
      <4>1. heap' = heap /\ stack' = stack BY <2>1, <2>3
      <4> QED BY <4>1 DEF Path, Top
    <3>5. dir'.ino = OpenIn(entries, Path) /\ dir'.left = DOMAIN entries[dir'.ino]
      BY <2>1, <2>3, <3>3
    <3>6. ReadingIn(entries, c, Fullnames(heap', Batch'), Path, dir', faults' = 0, Ok')
      BY <3>5 DEF ReadingIn
    <3> QED BY <2>1, <2>3, <3>4, <3>6 DEF ReadingInv
  <2> QED BY <2>1, <2>2, <2>3
<1>8. ASSUME UNCHANGED <<c, stack, pc, dir>>, UNCHANGED nodes PROVE ReadingInv'
  <2>1. CASE pc = "readdir"
    <3>1. Goes BY <1>2, <1>8, <2>1
    <3> QED BY <1>1, <1>8, <3>1
  <2>2. CASE pc # "readdir" BY <1>8, <2>2 DEF ReadingInv
  <2> QED BY <2>1, <2>2
<1>9. ASSUME NEW d, NEW n, Unlink(d, n) PROVE ReadingInv'
  BY <1>8, <1>9 DEF Unlink, settings
<1>10. CASE UNCHANGED lsvars BY <1>8, <1>10 DEF lsvars, settings
<1>11. CASE Option \/ Usage \/ OptionsDone
  BY <1>11 DEF Option, Usage, OptionsDone, ReadingInv
<1>12. CASE Argument BY <1>12, ArgumentDoes DEF ReadingInv
<1>13. CASE ArgumentsDone BY <1>3, <1>13, ArgumentsDoes DEF ReadingInv
<1>14. CASE EndDir BY <1>3, <1>14, EndDirDoes DEF ReadingInv
<1>15. CASE Return BY <1>15, ReturnDoes DEF ReadingInv
<1> QED BY <1>5, <1>6, <1>7, <1>9, <1>10, <1>11, <1>12, <1>13, <1>14, <1>15 DEF LsNext, LsMain

(* The arguments.                                                          *)

NoDir(p) == p[1] \in DOMAIN Entries[Cwd] => Entries[Cwd][p[1]] \notin DOMAIN Entries

\* An argument that has been examined; and when the files among them are shown.
ExaminedIn(e, s, F, p, ok, fine) ==
  /\ InfoIn(e, s, p) # Nothing \/ p \in fine => p \in F
  /\ p \in ok => InfoIn(e, s, p) # Nothing
SettledIn(e, s, S, p, ok, fine) ==
  /\ InfoIn(e, s, p) # Nothing /\ ~EntersIn(e, s, p) => p \in S
  /\ p \in ok => InfoIn(e, s, p) # Nothing
  /\ ~s.follow /\ p \in fine /\ NoDir(p) => p \in S

ArgsInv ==
  /\ pc = "args" =>
       /\ \A k \in DOMAIN args : <<args[k]>> \in Arguments
       /\ \A p \in Arguments :
            p[1] \in ToSet(args) \/ ExaminedIn(entries, c, Fullnames(heap, Batch), p, Ok, Fine)
  /\ pc \in {"showdirs", "readdir", "done"} =>
       \A p \in Arguments : SettledIn(entries, c, ShownIn(out), p, Ok, Fine)

\* What has been said of an argument remains true,
LEMMA ExaminedLess ==
  ASSUME NEW e, NEW f, FewerDirs(e, f), NEW s, NEW F, NEW F2, F \subseteq F2, NEW p \in Paths,
         NEW ok, NEW ok2, \A x \in ok2 : x \in ok /\ f = e,
         NEW fine, NEW fine2, fine2 \subseteq fine,
         ExaminedIn(e, s, F, p, ok, fine)
  PROVE  ExaminedIn(f, s, F2, p, ok2, fine2)
<1>1. InfoIn(f, s, p) \in {InfoIn(e, s, p), Nothing} BY KernelLess DEF FewerDirs
<1> QED BY <1>1 DEF ExaminedIn

\* also after all have been examined.
LEMMA SettledLess ==
  ASSUME NEW e, NEW f, FewerDirs(e, f), NEW s, NEW S, NEW S2, S \subseteq S2, NEW p \in Paths,
         NEW ok, NEW ok2, \A x \in ok2 : x \in ok /\ f = e,
         NEW fine, NEW fine2, fine2 \subseteq fine,
         SettledIn(e, s, S, p, ok, fine)
  PROVE  SettledIn(f, s, S2, p, ok2, fine2)
<1>1. InfoIn(f, s, p) \in {InfoIn(e, s, p), Nothing} BY KernelLess DEF FewerDirs
<1>2. InfoIn(f, s, p) # Nothing => (EntersIn(f, s, p) <=> EntersIn(e, s, p)) BY <1>1 DEF EntersIn
<1> QED BY <1>1, <1>2 DEF SettledIn

\* Nothing that has been printed is taken back.
LEMMA ShownGrows ==
  ASSUME SoundInv, [LsNext]_lsvars
  PROVE  ShownIn(out) \subseteq ShownIn(out')
<1> USE DEF SoundInv
<1>1. Sensible(c) BY DEF OptionsInv
<1>2. CASE ArgumentsDone BY <1>1, <1>2, ArgumentsDoes
<1>3. CASE ShowDir BY <1>1, <1>3, ShowDirDoes
<1>4. CASE EndDir BY <1>1, <1>4, EndDirDoes
<1>5. ArgumentsDone \/ ShowDir \/ EndDir \/ out' = out
  <2>1. Option \/ Usage \/ OptionsDone => out' = out BY DEF Option, Usage, OptionsDone
  <2>2. Argument \/ Return => out' = out BY DEF Argument, Return
  <2>3. \A n : ReadEntry(n) \/ MissEntry(n) => out' = out BY DEF ReadEntry, MissEntry
  <2>4. \A d, n : Unlink(d, n) => out' = out BY DEF Unlink
  <2>5. UNCHANGED lsvars => out' = out BY DEF lsvars
  <2> QED BY <2>1, <2>2, <2>3, <2>4, <2>5 DEF LsNext, LsMain
<1> QED BY <1>2, <1>3, <1>4, <1>5

\* An argument is a path of one name.
LEMMA ArgumentIs ==
  ASSUME OptionsInv, NEW p \in Arguments
  PROVE  p \in Paths /\ Len(p) = 1 /\ p = <<p[1]>>
<1>1. \E n : p = <<n>> BY DEF Arguments
<1> QED BY <1>1, ArgumentsTyped

\* The arguments: at first,
LEMMA ArgsFirst == Init => ArgsInv
BY DEF Init, ArgsInv

\* The arguments are examined,
LEMMA ArgsArgument ==
  ASSUME SoundInv, ArgsInv, Argument
  PROVE  ArgsInv'
<1> USE DEF SoundInv
<1> DEFINE path == <<Head(args)>>
<1>1. /\ pc = "args" /\ args # << >> /\ args' = Tail(args)
      /\ UNCHANGED <<cmd, c, entries, faults, stack, out, pc>>
      /\ path \in Paths /\ Tried(path)
  BY ArgumentDoes
<1>2. args \in Seq(DOMAIN NameLen) BY DEF FilesInv
<1>3. ToSet(args) = {Head(args)} \cup ToSet(args')
  <2>1. \A k \in DOMAIN args : k = 1 \/ (k - 1 \in DOMAIN args' /\ args'[k - 1] = args[k]) BY <1>1, <1>2
  <2>2. \A k \in DOMAIN args' : k + 1 \in DOMAIN args /\ args'[k] = args[k + 1] BY <1>1, <1>2
  <2>3. 1 \in DOMAIN args /\ args[1] = Head(args) BY <1>1, <1>2
  <2>4. ASSUME NEW x \in ToSet(args) PROVE x = Head(args) \/ x \in ToSet(args')
    <3>1. PICK k \in DOMAIN args : x = args[k] BY DEF ToSet
    <3> QED BY <2>1, <2>3, <3>1 DEF ToSet
  <2>5. ASSUME NEW x \in ToSet(args') PROVE x \in ToSet(args)
    <3>1. PICK k \in DOMAIN args' : x = args'[k] BY DEF ToSet
    <3> QED BY <2>2, <3>1 DEF ToSet
  <2>6. Head(args) \in ToSet(args) BY <2>3 DEF ToSet
  <2> QED BY <2>4, <2>5, <2>6
<1>4. Arguments' = Arguments BY <1>1 DEF Arguments
<1>5. \A k \in DOMAIN args' : <<args'[k]>> \in Arguments
  <2>1. \A k \in DOMAIN args' : k + 1 \in DOMAIN args /\ args'[k] = args[k + 1] BY <1>1, <1>2
  <2> QED BY <1>1, <2>1 DEF ArgsInv
<1>6. Exists(path) <=> InfoIn(entries, c, path) # Nothing BY <1>1, KernelIs DEF FilesInv
<1> HIDE DEF path
<1> DEFINE F == Fullnames(heap, Batch)
           F2 == Fullnames(heap', Batch')
           ok == Ok
           ok2 == Ok'
           fine == Fine
           fine2 == Fine'
<1>7. F \subseteq F2 /\ ok2 \subseteq ok /\ fine2 \subseteq fine
  <2>1. Kept(heap, heap', DOMAIN heap) /\ Batch \subseteq Batch' BY <1>1, TriedKeeps DEF Tried
  <2>2. F \subseteq F2 BY <2>1, BatchTrue, FullnamesKept
  <2>3. errors \subseteq errors' BY <1>1 DEF Tried
  <2> QED BY <1>1, <2>2, <2>3 DEF Ok, Fine
<1>8. ExaminedIn(entries, c, F2, path, ok2, fine2)
  <2>1. CASE ~Exists(path) /\ errors' = errors \cup {path}
    <3>1. path \notin ok2 /\ path \notin fine2 BY <2>1 DEF Ok, Fine
    <3> QED BY <1>6, <2>1, <3>1 DEF ExaminedIn
  <2>2. CASE /\ Exists(path) /\ Added(path, heap, heap', made, dn, Info(path))
             /\ Batch' = Batch \cup {made + 1}
    <3>1. path \in F2 BY <2>2 DEF Added, Fullnames
    <3> QED BY <1>6, <2>2, <3>1 DEF ExaminedIn
  <2> QED BY <1>1, <2>1, <2>2 DEF Tried
<1>9. \A p \in Arguments : p[1] \in ToSet(args) \/ ExaminedIn(entries, c, F, p, ok, fine)
  BY <1>1 DEF ArgsInv
<1>10. FewerDirs(entries, entries) BY DEF FilesInv, FewerDirs, Shrunk
<1> HIDE DEF F, F2, ok, ok2, fine, fine2
<1>11. ASSUME NEW p \in Arguments
       PROVE  p[1] \in ToSet(args') \/ ExaminedIn(entries, c, F2, p, ok2, fine2)
  <2>1. p \in Paths /\ p = <<p[1]>> BY ArgumentIs
  <2>2. CASE p[1] = Head(args) BY <1>8, <2>1, <2>2 DEF path
  <2>3. CASE p[1] # Head(args) /\ p[1] \in ToSet(args) BY <1>3, <2>3
  <2>4. CASE ExaminedIn(entries, c, F, p, ok, fine) BY <1>7, <1>10, <2>1, <2>4, ExaminedLess
  <2> QED BY <1>9, <2>2, <2>3, <2>4
<1> QED BY <1>1, <1>4, <1>5, <1>11 DEF ArgsInv, F2, ok2, fine2

\* the files among them shown.
LEMMA ArgsArgumentsDone ==
  ASSUME SoundInv, KnownInv, ArgsInv, ArgumentsDone
  PROVE  ArgsInv'
<1> USE DEF SoundInv
<1> DEFINE B == IF "NOLIST" \in c.disp THEN Batch ELSE Batch \ Dirs
<1>1. Sensible(c) BY DEF OptionsInv
<1>2. /\ pc = "args" /\ args = << >> /\ pc' \in {"done", "showdirs"}
      /\ UNCHANGED <<cmd, c, args, heap, made, dn, entries, faults, errors>>
      /\ ShownIn(out') = ShownIn(out) \cup Fullnames(heap, B)
  BY <1>1, ArgumentsDoes
<1>3. Arguments' = Arguments /\ Ok' = Ok /\ Fine' = Fine BY <1>2 DEF Arguments, Ok, Fine
<1>4. Remains(entries) BY DEF FilesInv
<1>5. Batch \subseteq Level(heap, 1)
  <2>1. BatchLevel = 1 BY <1>2 DEF BatchLevel
  <2> QED BY <2>1, BatchIs
<1>6. ASSUME NEW p \in Arguments PROVE SettledIn(entries, c, ShownIn(out'), p, Ok, Fine)
  <2>1. p \in Paths /\ Len(p) = 1 /\ p = <<p[1]>> BY ArgumentIs
  <2>2. ExaminedIn(entries, c, Fullnames(heap, Batch), p, Ok, Fine)
    <3>1. p[1] \notin ToSet(args) BY <1>2 DEF ToSet
    <3> QED BY <1>2, <3>1 DEF ArgsInv
  <2>3. p \in Ok => InfoIn(entries, c, p) # Nothing BY <2>2 DEF ExaminedIn
  <2>4. SUFFICES ASSUME p \in Fullnames(heap, Batch), p \notin ShownIn(out')
                 PROVE  /\ InfoIn(entries, c, p) # Nothing => EntersIn(entries, c, p)
                        /\ ~(~c.follow /\ NoDir(p))
    BY <2>2, <2>3 DEF ExaminedIn, SettledIn
  <2>5. PICK id \in Batch : p = heap[id].fullname BY <2>4 DEF Fullnames
  <2>6. "NOLIST" \notin c.disp /\ id \in Dirs
    <3>1. id \notin B BY <1>2, <2>4, <2>5 DEF Fullnames
    <3> QED BY <2>5, <3>1
  <2>7. heap[id].dstat.type = "dir" /\ id \in DOMAIN heap BY <2>6 DEF Dirs
  <2>8. InfoIn(entries, c, p) \in {heap[id].dstat, Nothing} BY <2>5, <2>7 DEF KnownInv, TrueInfoIn
  <2>9. InfoIn(entries, c, p) # Nothing => EntersIn(entries, c, p)
    BY <2>1, <2>6, <2>7, <2>8 DEF EntersIn
  <2>10. ~(~c.follow /\ NoDir(p))
    <3>1. SUFFICES ASSUME ~c.follow PROVE ~NoDir(p) OBVIOUS
    <3>2. OwnName(heap[id]) BY <1>5, <2>5, <3>1 DEF KnownInv, FirstIn
    <3>3. heap[id].name = p[1]
      <4>1. heap[id] \in TrueDnode BY <2>7 DEF NodesInv, HeapOk
      <4>2. heap[id].name = Last(p) BY <2>5, <4>1 DEF TrueDnode
      <4> QED BY <2>1, <4>2 DEF Last
    <3>4. p[1] \in DOMAIN Entries[Cwd] /\ Attr[Entries[Cwd][p[1]]].type = "dir"
      BY <2>7, <3>2, <3>3 DEF OwnName
    <3>5. Entries[Cwd][p[1]] \in DOMAIN Attr BY <3>4, InodeConstants
    <3>6. Entries[Cwd][p[1]] \in DOMAIN Entries BY <3>4, <3>5, InodeConstants
    <3> QED BY <3>4, <3>6 DEF NoDir
  <2> QED BY <2>9, <2>10
<1> QED BY <1>2, <1>3, <1>6 DEF ArgsInv

\* At the end of the options none has been examined.
LEMMA ArgsOptionsDone ==
  ASSUME SoundInv, KnownInv, OptionsDone
  PROVE  ArgsInv'
<1>1. /\ pc = "options" /\ pc' = "args" /\ cmd' = cmd
      /\ args' = IF args = << >> THEN <<Dot>> ELSE args
  BY DEF OptionsDone
<1>2. args = cmd.args BY <1>1 DEF KnownInv
<1>3. Arguments' = Arguments BY <1>1 DEF Arguments
<1>4. Arguments = {<<args'[k]>> : k \in DOMAIN args'}
  <2>1. CASE args = << >>
    <3>1. args' = <<Dot>> /\ DOMAIN args' = {1} /\ args'[1] = Dot BY <1>1, <2>1
    <3> QED BY <1>2, <2>1, <3>1 DEF Arguments
  <2>2. CASE args # << >> BY <1>1, <1>2, <2>2 DEF Arguments
  <2> QED BY <2>1, <2>2
<1>5. ASSUME NEW p \in Arguments PROVE p[1] \in ToSet(args')
  <2>1. PICK k \in DOMAIN args' : p = <<args'[k]>> BY <1>4
  <2> QED BY <2>1 DEF ToSet
<1> QED BY <1>1, <1>3, <1>4, <1>5 DEF ArgsInv

\* A file vanishes while they are examined, or nothing happens.
LEMMA ArgsAlone ==
  ASSUME SoundInv, ArgsInv, [LsNext]_lsvars, pc = "args", UNCHANGED <<pc, cmd, c, args>>, UNCHANGED nodes
  PROVE  ArgsInv'
<1> USE DEF SoundInv
<1> DEFINE F == Fullnames(heap, Batch)
           ok == Ok
           ok2 == Ok'
           fine == Fine
           fine2 == Fine'
<1>1. FewerDirs(entries, entries') BY QuietSteps
<1>2. \A x \in ok2 : x \in ok /\ entries' = entries BY FailureStays
<1>3. fine2 \subseteq fine BY FailureStays
<1>4. Fullnames(heap', Batch') = F BY DEF nodes, Batch, Chain
<1>5. Arguments' = Arguments BY DEF Arguments
<1>6. \A p \in Arguments : p[1] \in ToSet(args) \/ ExaminedIn(entries, c, F, p, ok, fine)
  BY DEF ArgsInv
<1> HIDE DEF F, ok, ok2, fine, fine2
<1>7. \A p \in Arguments : p[1] \in ToSet(args) \/ ExaminedIn(entries', c, F, p, ok2, fine2)
  BY <1>1, <1>2, <1>3, <1>6, ArgumentIs, ExaminedLess
<1>8. pc' = "args" /\ \A k \in DOMAIN args' : <<args'[k]>> \in Arguments BY DEF ArgsInv
<1> QED BY <1>4, <1>5, <1>7, <1>8 DEF ArgsInv, ok2, fine2

\* Then they are settled.
LEMMA ArgsSettled ==
  ASSUME SoundInv, ArgsInv, [LsNext]_lsvars, UNCHANGED <<cmd, c>>,
         pc \in {"showdirs", "readdir", "done"}, pc' \in {"showdirs", "readdir", "done"}
  PROVE  ArgsInv'
<1> USE DEF SoundInv
<1> DEFINE S == ShownIn(out)
           S2 == ShownIn(out')
           ok == Ok
           ok2 == Ok'
           fine == Fine
           fine2 == Fine'
<1>1. FewerDirs(entries, entries') BY QuietSteps
<1>2. \A x \in ok2 : x \in ok /\ entries' = entries BY FailureStays
<1>3. fine2 \subseteq fine BY FailureStays
<1>4. S \subseteq S2 BY ShownGrows
<1>5. Arguments' = Arguments BY DEF Arguments
<1>6. \A p \in Arguments : SettledIn(entries, c, S, p, ok, fine) BY DEF ArgsInv
<1> HIDE DEF S, S2, ok, ok2, fine, fine2
<1>7. \A p \in Arguments : SettledIn(entries', c, S2, p, ok2, fine2)
  BY <1>1, <1>2, <1>3, <1>4, <1>6, ArgumentIs, SettledLess
<1> QED BY <1>5, <1>7 DEF ArgsInv, S2, ok2, fine2

\* The arguments are accounted for after every step.
LEMMA ArgsNext ==
  ASSUME SoundInv, SoundInv', KnownInv, ArgsInv, [LsNext]_lsvars
  PROVE  ArgsInv'
<1>1. CASE Option \/ Usage
  <2>1. pc' \in {"options", "usage"} BY <1>1 DEF Option, Usage
  <2> QED BY <2>1 DEF ArgsInv
<1>2. CASE OptionsDone BY <1>2, ArgsOptionsDone
<1>3. CASE Argument BY <1>3, ArgsArgument
<1>4. CASE ArgumentsDone BY <1>4, ArgsArgumentsDone
<1>5. CASE UNCHANGED lsvars \/ \E d, n : Unlink(d, n)
  <2>1. UNCHANGED <<pc, cmd, c, args>> /\ UNCHANGED nodes
    <3>1. UNCHANGED lsvars => UNCHANGED <<pc, cmd, c, args>> /\ UNCHANGED nodes
      BY DEF lsvars, settings
    <3>2. \A d, n : Unlink(d, n) => UNCHANGED <<pc, cmd, c, args>> /\ UNCHANGED nodes
      BY DEF Unlink, settings
    <3> QED BY <1>5, <3>1, <3>2
  <2>2. CASE pc \in {"options", "usage"} BY <2>1, <2>2 DEF ArgsInv
  <2>3. CASE pc = "args" BY <2>1, <2>3, ArgsAlone
  <2>4. CASE pc \in {"showdirs", "readdir", "done"} BY <2>1, <2>4, ArgsSettled
  <2>5. pc \in PcValues BY DEF SoundInv, OptionsInv
  <2> QED BY <2>2, <2>3, <2>4, <2>5 DEF PcValues
<1>6. CASE ShowDir \/ EndDir \/ Return \/ \E n \in dir.left : ReadEntry(n) \/ MissEntry(n)
  <2>1. pc \in {"showdirs", "readdir"} /\ UNCHANGED <<cmd, c>>
        /\ pc' \in {"showdirs", "readdir", "done"}
    <3>1. ShowDir => /\ pc \in {"showdirs", "readdir"} /\ UNCHANGED <<cmd, c>>
                     /\ pc' \in {"showdirs", "readdir", "done"}
      BY DEF ShowDir, settings
    <3>2. EndDir \/ Return => /\ pc \in {"showdirs", "readdir"} /\ UNCHANGED <<cmd, c>>
                              /\ pc' \in {"showdirs", "readdir", "done"}
      BY DEF EndDir, Return, settings
    <3>3. \A n : ReadEntry(n) => /\ pc \in {"showdirs", "readdir"} /\ UNCHANGED <<cmd, c>>
                                 /\ pc' \in {"showdirs", "readdir", "done"}
      BY DEF ReadEntry, settings
    <3>4. \A n : MissEntry(n) => /\ pc \in {"showdirs", "readdir"} /\ UNCHANGED <<cmd, c>>
                                 /\ pc' \in {"showdirs", "readdir", "done"}
      BY DEF MissEntry, settings
    <3> QED BY <1>6, <3>1, <3>2, <3>3, <3>4
  <2> QED BY <2>1, ArgsSettled
<1> QED BY <1>1, <1>2, <1>3, <1>4, <1>5, <1>6 DEF LsNext, LsMain

-----------------------------------------------------------------------------
(* Failures.                                                               *)

ReachedIn(e, s, h, A) ==
  \A id \in DOMAIN h : h[id].fullname \in LayerIn(e, s, A, Len(h[id].fullname) - 1)
FailInv ==
  faults = 0 =>
    /\ ReachedIn(entries, c, heap, Arguments)
    /\ errors \subseteq TroubleIn(entries, c, Arguments)

\* Dnodes are of files that ls was to reach: those that remain,
LEMMA ReachedKept ==
  ASSUME NEW e, NEW s, NEW h, NEW h2, NEW A, Fewer(h, h2), ReachedIn(e, s, h, A)
  PROVE  ReachedIn(e, s, h2, A)
BY DEF ReachedIn, Fewer

\* and a new one.
LEMMA ReachedGrows ==
  ASSUME NEW e, NEW s, NEW h, NEW h2, NEW A, ReachedIn(e, s, h, A),
         NEW path, NEW m, NEW d, NEW info, Added(path, h, h2, m, d, info),
         path \in LayerIn(e, s, A, Len(path) - 1)
  PROVE  ReachedIn(e, s, h2, A)
BY DEF ReachedIn, Added

\* A failure has a reason: at first,
LEMMA FailFirst == Init => FailInv
BY DEF Init, FailInv, ReachedIn

\* The directory that showdirs is at has been reached, and is to be entered.
LEMMA PathReached ==
  ASSUME SoundInv, KnownInv, EnteredInv, FailInv, faults = 0, stack # << >>, Top.i <= Len(Top.dn)
  PROVE  /\ Path \in Paths /\ Len(Path) = Len(stack) /\ Len(Path) \in Nat \ {0}
         /\ Path \in LayerIn(entries, c, Arguments, Len(Path) - 1)
         /\ EntersIn(entries, c, Path) /\ InfoIn(entries, c, Path) # Nothing
<1> USE DEF SoundInv
<1> DEFINE id == Top.dn[Top.i]
<1>1. /\ Len(stack) \in Nat \ {0} /\ Top = stack[Len(stack)]
      /\ Top.i \in DOMAIN Top.dn /\ id \in DOMAIN heap
      /\ heap[id] \in TrueDnode /\ heap[id].dstat.type = "dir"
      /\ Path \in Paths /\ Len(Path) = Len(stack)
  BY AtDirectory
<1>2. Path = heap[id].fullname BY DEF Path
<1>3. InfoIn(entries, c, Path) = heap[id].dstat BY <1>1, <1>2 DEF KnownInv, TrueInfoIn
<1>4. Reason(c, heap, Len(stack), id)
  <2>1. id \in ToSet(stack[Len(stack)].dn) BY <1>1 DEF ToSet
  <2>2. Len(stack) \in 1..Len(stack) BY <1>1
  <2> QED BY <2>1, <2>2 DEF EnteredInv, EnteredIn
<1>5. heap[id].name = Last(Path) BY <1>1, <1>2 DEF TrueDnode
<1>6. EntersIn(entries, c, Path) BY <1>1, <1>3, <1>4, <1>5 DEF EntersIn, Reason
<1>7. Path \in LayerIn(entries, c, Arguments, Len(Path) - 1) BY <1>1, <1>2 DEF FailInv, ReachedIn
<1>8. Remains(entries) BY DEF FilesInv
<1> QED BY <1>1, <1>6, <1>7, <1>8, KernelTyped

\* What has been tried is reached, or a reason to fail.
LEMMA FailTried ==
  ASSUME SoundInv, FailInv,
         NEW path \in Paths, Tried(path), UNCHANGED <<cmd, c, entries, faults>>,
         faults = 0 => /\ Len(path) \in Nat \ {0} /\ Len(path) - 1 <= MaxPath
                       /\ path \in LayerIn(entries, c, Arguments, Len(path) - 1)
  PROVE  FailInv'
<1> USE DEF SoundInv
<1> DEFINE A == Arguments
<1>1. SUFFICES ASSUME faults = 0
               PROVE  ReachedIn(entries, c, heap', A) /\ errors' \subseteq TroubleIn(entries, c, A)
  <2>1. Arguments' = Arguments BY DEF Arguments
  <2> QED BY <2>1 DEF FailInv
<1>2. /\ Len(path) \in Nat \ {0} /\ Len(path) - 1 <= MaxPath /\ Len(path) - 1 \in Nat
      /\ path \in LayerIn(entries, c, A, Len(path) - 1)
  BY <1>1
<1>3. Remains(entries) /\ A \in SUBSET Paths BY ArgumentsTyped DEF FilesInv
<1>4. Exists(path) <=> InfoIn(entries, c, path) # Nothing BY <1>3, KernelIs
<1>5. ReachedIn(entries, c, heap, A) /\ errors \subseteq TroubleIn(entries, c, A) BY <1>1 DEF FailInv
<1> HIDE DEF A
<1>6. CASE ~Exists(path) /\ errors' = errors \cup {path} /\ heap' = heap
  <2>1. path \in TroubleIn(entries, c, A) BY <1>2, <1>3, <1>4, <1>6, TroubleAt
  <2> QED BY <1>5, <1>6, <2>1
<1>7. CASE errors' = errors /\ Added(path, heap, heap', made, dn, Info(path))
  <2>1. ReachedIn(entries, c, heap', A) BY <1>2, <1>5, <1>7, ReachedGrows
  <2> QED BY <1>5, <1>7, <2>1
<1> QED BY <1>6, <1>7 DEF Tried

\* when little changes,
LEMMA FailKept ==
  ASSUME FailInv, UNCHANGED <<cmd, c, entries, faults, errors>>, Fewer(heap, heap')
  PROVE  FailInv'
<1> DEFINE A == Arguments
<1>1. Arguments' = A BY DEF Arguments
<1>2. faults = 0 => ReachedIn(entries, c, heap', A) BY ReachedKept DEF FailInv
<1> HIDE DEF A
<1> QED BY <1>1, <1>2 DEF FailInv, A

\* and after every step.
LEMMA FailNext ==
  ASSUME SoundInv, KnownInv, EnteredInv, ReadingInv, ArgsInv, FailInv, [LsNext]_lsvars
  PROVE  FailInv'
<1> USE DEF SoundInv
<1> SUFFICES ASSUME faults' = 0 PROVE FailInv' BY DEF FailInv
<1>1. faults = 0 /\ entries' = entries BY QuietSteps
<1>2. Remains(entries) /\ Arguments \in SUBSET Paths BY ArgumentsTyped DEF FilesInv
<1>3. Sensible(c) BY DEF OptionsInv
<1>4. heap' = heap => Fewer(heap, heap') BY DEF Fewer
<1>5. CASE Option \/ Usage \/ OptionsDone
  <2>1. pc = "options" /\ heap' = heap /\ errors' = errors
    BY <1>5 DEF Option, Usage, OptionsDone, nodes, report
  <2>2. DOMAIN heap' = {} /\ errors' = {} BY <2>1 DEF KnownInv
  <2> QED BY <2>2 DEF FailInv, ReachedIn
<1>6. CASE Argument
  <2> DEFINE path == <<Head(args)>>
  <2>1. /\ pc = "args" /\ args # << >>
        /\ UNCHANGED <<cmd, c, entries, faults, stack, out, pc>>
        /\ path \in Paths /\ Tried(path)
    BY <1>6, ArgumentDoes
  <2>2. path \in Arguments
    <3>1. args \in Seq(DOMAIN NameLen) BY DEF FilesInv
    <3>2. 1 \in DOMAIN args /\ Head(args) = args[1] BY <2>1, <3>1
    <3> QED BY <2>1, <3>2 DEF ArgsInv
  <2>3. Len(path) = 1 /\ Len(path) - 1 = 0 /\ 0 <= MaxPath BY LsConstants
  <2> HIDE DEF path
  <2>4. path \in LayerIn(entries, c, Arguments, 0) BY <1>2, <2>2, LayerNext
  <2>5. /\ Len(path) \in Nat \ {0} /\ Len(path) - 1 <= MaxPath
        /\ path \in LayerIn(entries, c, Arguments, Len(path) - 1)
    BY <2>3, <2>4
  <2> QED BY <2>1, <2>5, FailTried
<1>7. ASSUME NEW n \in dir.left, ReadEntry(n) PROVE FailInv'
  <2> DEFINE path == Append(Path, n)
             A == Arguments
  <2>1. /\ pc = "readdir" /\ stack # << >> /\ Top.i <= Len(Top.dn)
        /\ UNCHANGED <<cmd, c, entries, faults, stack, out, pc>>
        /\ IF Skipped(n) THEN UNCHANGED <<nodes, report>> ELSE path \in Paths /\ Tried(path)
    BY <1>7, EntryDoes
  <2>2. CASE Skipped(n) BY <1>4, <2>1, <2>2, FailKept DEF nodes, report
  <2>3. CASE ~Skipped(n)
    <3>1. /\ Path \in Paths /\ Len(Path) \in Nat \ {0}
          /\ Path \in LayerIn(entries, c, A, Len(Path) - 1)
          /\ EntersIn(entries, c, Path) /\ InfoIn(entries, c, Path) # Nothing
      BY <1>1, <2>1, PathReached
    <3>2. OpenIn(entries, Path) = dir.ino /\ dir.left \subseteq DOMAIN entries[dir.ino]
      BY <1>1, <2>1 DEF ReadingInv, ReadingIn
    <3>3. dir.ino # None
      <4>1. dir.ino \in DOMAIN Entries BY <2>1 DEF FilesInv
      <4> QED BY <4>1, InodeConstants
    <3>4. path \in WithinIn(entries, c, Path)
      BY <1>3, <2>3, <3>2, <3>3, SkippedIs DEF WithinIn, NamesOf
    <3>5. Len(Path) <= MaxPath BY <1>2, <3>1, FoundShort
    <3>6. Len(path) = Len(Path) + 1 BY <3>1 DEF Paths
    <3>7. path \in LayerIn(entries, c, A, (Len(Path) - 1) + 1)
      <4> DEFINE k == Len(Path) - 1
      <4>1. k \in Nat /\ Path \in LayerIn(entries, c, A, k) BY <3>1
      <4> HIDE DEF k, path
      <4>2. path \in LayerIn(entries, c, A, k + 1) BY <1>2, <3>1, <3>4, <4>1, LayerNext
      <4> QED BY <4>2 DEF k
    <3> DEFINE l == Len(Path)
    <3>8. l \in Nat \ {0} /\ l <= MaxPath /\ Len(path) = l + 1
          /\ path \in LayerIn(entries, c, A, (l - 1) + 1)
      BY <3>1, <3>5, <3>6, <3>7
    <3>9. path \in Paths /\ Tried(path) BY <2>1, <2>3
    <3> HIDE DEF l, path
    <3>10. (l - 1) + 1 = Len(path) - 1 /\ Len(path) \in Nat \ {0} /\ Len(path) - 1 <= MaxPath
      BY ONLY <3>8
    <3> QED BY <2>1, <3>8, <3>9, <3>10, FailTried
  <2> QED BY <2>2, <2>3
<1>8. CASE ShowDir
  <2>1. /\ pc = "showdirs" /\ stack # << >> /\ Top.i <= Len(Top.dn)
        /\ UNCHANGED <<cmd, c, args, heap, made, entries, faults>>
        /\ errors' = errors \/ (Opendir(Path) = None /\ errors' = errors \cup {Path})
    BY <1>8, ShowDirDoes
  <2>2. CASE errors' = errors BY <1>4, <2>1, <2>2, FailKept
  <2>3. CASE Opendir(Path) = None /\ errors' = errors \cup {Path}
    <3> DEFINE A == Arguments
               k == Len(Path) - 1
    <3>1. /\ Path \in Paths /\ Len(Path) \in Nat \ {0}
          /\ Path \in LayerIn(entries, c, A, k)
          /\ EntersIn(entries, c, Path) /\ InfoIn(entries, c, Path) # Nothing
      BY <1>1, <2>1, PathReached
    <3>2. OpenIn(entries, Path) = None BY <1>2, <2>3, <3>1, KernelIs
    <3>3. Len(Path) <= MaxPath BY <1>2, <3>1, FoundShort
    <3>4. k \in Nat /\ k <= MaxPath BY <3>1, <3>3, LsConstants
    <3>5. Arguments' = A BY <2>1 DEF Arguments
    <3> HIDE DEF A, k
    <3>6. Path \in TroubleIn(entries, c, A) BY <1>2, <3>1, <3>2, <3>4, TroubleAt DEF A
    <3>7. ReachedIn(entries, c, heap, A) /\ errors \subseteq TroubleIn(entries, c, A)
      BY <1>1 DEF FailInv, A
    <3> QED BY <2>1, <2>3, <3>5, <3>6, <3>7 DEF FailInv
  <2> QED BY <2>1, <2>2, <2>3
<1>9. CASE EndDir
  <2>1. Fewer(heap, heap')
    <3>1. \A B : Descended(heap, heap', stack, stack', B) => heap' = heap BY DEF Descended
    <3>2. Finished(heap, heap', stack, stack') => Fewer(heap, heap') BY DEF Finished
    <3> QED BY <1>3, <1>4, <1>9, <3>1, <3>2, EndDirDoes
  <2>2. UNCHANGED <<cmd, c, entries, faults, errors>> BY <1>3, <1>9, EndDirDoes
  <2> QED BY <2>1, <2>2, FailKept
<1>10. CASE Return
  <2>1. UNCHANGED <<cmd, c, entries, faults, errors>> BY <1>10, ReturnDoes
  <2>2. Fewer(heap, heap') BY <1>4, <1>10, ReturnDoes
  <2> QED BY <2>1, <2>2, FailKept
<1>11. CASE ArgumentsDone BY <1>3, <1>4, <1>11, ArgumentsDoes, FailKept
<1>12. ASSUME NEW n, MissEntry(n) PROVE FailInv'
  BY <1>4, <1>12, FailKept DEF MissEntry, settings, nodes, fs, report
<1>13. ASSUME NEW d, NEW n, Unlink(d, n) PROVE FailInv'
  <2>1. faults' = faults + 1 BY <1>13 DEF Unlink
  <2> QED BY <1>1, <2>1
<1>14. CASE UNCHANGED lsvars BY <1>4, <1>14, FailKept DEF lsvars, settings, nodes, fs, report
<1> QED BY <1>5, <1>6, <1>7, <1>8, <1>9, <1>10, <1>11, <1>12, <1>13, <1>14 DEF LsNext, LsMain

(* No directory is passed over.                                            *)

CoverInv ==
  /\ pc = "args" => out = << >>
  /\ pc \in {"showdirs", "readdir", "done"} =>
       CoverIn(entries, c, ShownIn(out), Ok, heap, stack, Arguments)

\* What has been shown is paths.
LEMMA ShownTyped ==
  ASSUME OutInv PROVE ShownIn(out) \subseteq Paths
<1>1. ASSUME NEW k \in DOMAIN out PROVE \A d \in ToSet(out[k].files) : d.fullname \in Paths
  <2>1. out[k].files \in Seq(TrueDnode)
    <3> DEFINE T == [head : Paths, files : Seq(TrueDnode)]
    <3>1. out \in Seq(T) BY DEF OutInv
    <3> HIDE DEF T
    <3>2. out[k] \in T BY <3>1
    <3> QED BY <3>2 DEF T
  <2>2. \A d \in ToSet(out[k].files) : d \in TrueDnode BY <2>1 DEF ToSet
  <2> QED BY <2>2 DEF TrueDnode, DnodeType
<1> QED BY <1>1 DEF ShownIn

\* What a step has to leave and to add.
LEMMA CoverStep ==
  ASSUME NEW e, NEW f, FewerDirs(e, f), NEW s, NEW A, A \subseteq Paths,
         NEW S, NEW S2, S2 \subseteq Paths, S \subseteq S2,
         NEW ok, NEW ok2, \A x \in ok2 : x \in ok /\ f = e,
         NEW h, NEW st, NEW h2, NEW st2, CoverIn(e, s, S, ok, h, st, A),
         \A p \in Paths : AwaitedIn(h, st, p) =>
           AwaitedIn(h2, st2, p) \/ CoveredIn(f, s, S2, ok2, p),
         \A p \in S2 \ S : EntersIn(f, s, p) => AwaitedIn(h2, st2, p)
  PROVE  CoverIn(f, s, S2, ok2, h2, st2, A)
<1>1. Remains(e) /\ Remains(f) /\ Shrunk(e, f) BY DEF FewerDirs
<1>2. SUFFICES ASSUME NEW p \in A \cup S2, EntersIn(f, s, p)
               PROVE  AwaitedIn(h2, st2, p) \/ CoveredIn(f, s, S2, ok2, p)
  BY DEF CoverIn
<1>3. p \in Paths OBVIOUS
<1>4. CASE p \in S2 \ S BY <1>2, <1>4
<1>5. CASE p \in A \cup S
  <2>1. EntersIn(e, s, p) BY <1>1, <1>2, <1>3, KernelLess
  <2>2. AwaitedIn(h, st, p) \/ CoveredIn(e, s, S, ok, p) BY <1>5, <2>1 DEF CoverIn
  <2>3. CoveredIn(e, s, S, ok, p) => CoveredIn(f, s, S2, ok2, p) BY <1>1, <1>3, CoveredLess
  <2> QED BY <1>3, <2>2, <2>3
<1> QED BY <1>4, <1>5

\* A directory among some dnodes.
LEMMA EnteredNode ==
  ASSUME SoundInv, KnownInv, NEW id \in DOMAIN heap, EntersIn(entries, c, heap[id].fullname)
  PROVE  /\ id \in Dirs
         /\ Len(heap[id].fullname) = 1 => "NOLIST" \notin c.disp
         /\ Len(heap[id].fullname) # 1 => "RECURSIVE" \in c.disp /\ id \in Subdirs
<1> DEFINE p == heap[id].fullname
<1>1. InfoIn(entries, c, p) \in {heap[id].dstat, Nothing} BY DEF KnownInv, TrueInfoIn
<1>2. InfoIn(entries, c, p).type = "dir" BY DEF EntersIn
<1>3. id \in Dirs BY <1>1, <1>2 DEF Nothing, Dirs
<1>4. heap[id].name = Last(p)
  <2>1. heap[id] \in TrueDnode BY DEF SoundInv, NodesInv, HeapOk
  <2> QED BY <2>1 DEF TrueDnode
<1> QED BY <1>3, <1>4 DEF EntersIn, Subdirs

\* No directory is passed over: at first,
LEMMA CoverFirst == Init => CoverInv
BY DEF Init, CoverInv

\* Steps that leave the calls alone await what was awaited.
LEMMA SameAwaited ==
  ASSUME SoundInv, SameCalls
  PROVE  \A p : AwaitedIn(heap, stack, p) => AwaitedIn(heap', stack, p)
<1>1. StackOk(heap, stack) BY DEF SoundInv, NodesInv
<1>2. \A k \in 1..Len(stack) : Kept(heap, heap', Level(heap, k)) BY DEF SameCalls, Kept, Level
<1> QED BY <1>1, <1>2, AwaitedKept

\* The steps that leave calls and output alone.
LEMMA CoverSame ==
  ASSUME SoundInv, SoundInv', CoverInv, [LsNext]_lsvars, SameCalls, UNCHANGED cmd,
         ShownIn(out') = ShownIn(out), pc' # "args", pc \in {"showdirs", "readdir", "done"}
  PROVE  CoverInv'
<1> USE DEF SoundInv
<1> DEFINE S == ShownIn(out)
           ok == Ok
           ok2 == Ok'
           A == Arguments
<1>1. FewerDirs(entries, entries') /\ \A x \in ok2 : x \in ok /\ entries' = entries
  BY QuietSteps, FailureStays
<1>2. A \subseteq Paths /\ S \subseteq Paths BY ArgumentsTyped, ShownTyped
<1>3. CoverIn(entries, c, S, ok, heap, stack, A) BY DEF CoverInv
<1>4. Arguments' = A BY DEF Arguments
<1> HIDE DEF S, ok, ok2, A
<1>5. \A p : AwaitedIn(heap, stack, p) => AwaitedIn(heap', stack, p) BY SameAwaited
<1>6. CoverIn(entries', c, S, ok2, heap', stack, A)
  <2>1. \A p \in S \ S : EntersIn(entries', c, p) => AwaitedIn(heap', stack, p) OBVIOUS
  <2>2. S \subseteq S OBVIOUS
  <2>3. \A p \in Paths : AwaitedIn(heap, stack, p) =>
          AwaitedIn(heap', stack, p) \/ CoveredIn(entries', c, S, ok2, p)
    BY <1>5
  <2> QED BY <1>1, <1>2, <1>3, <2>1, <2>2, <2>3, CoverStep
<1> QED BY <1>4, <1>6 DEF CoverInv, SameCalls, S, ok2

\* The arguments: every directory among them is awaited.
LEMMA ArgumentsAwaited ==
  ASSUME SoundInv, KnownInv, ArgsInv, CoverInv, ArgumentsDone
  PROVE  \A p \in Arguments \cup ShownIn(out') :
           EntersIn(entries, c, p) => AwaitedIn(heap, stack', p)
<1> USE DEF SoundInv
<1> DEFINE B == IF "NOLIST" \in c.disp THEN Batch ELSE Batch \ Dirs
<1>1. Sensible(c) BY DEF OptionsInv
<1>2. /\ pc = "args" /\ args = << >> /\ pc' \in {"done", "showdirs"}
      /\ UNCHANGED <<cmd, c, args, heap, made, dn, entries, faults, errors>>
      /\ ShownIn(out') = ShownIn(out) \cup Fullnames(heap, B)
      /\ \/ stack' = << >> /\ ("NOLIST" \notin c.disp => Batch \cap Dirs = {})
         \/ /\ "NOLIST" \notin c.disp
            /\ \E f \in FrameType : stack' = <<f>> /\ f.i = 1 /\ ToSet(f.dn) = Batch \cap Dirs
  BY <1>1, ArgumentsDoes
<1>3. ShownIn(out') = Fullnames(heap, B)
  <2>1. out = << >> BY <1>2 DEF CoverInv
  <2>2. ShownIn(<< >>) = {} BY DEF ShownIn
  <2> QED BY <1>2, <2>1, <2>2
<1>4. Batch \subseteq Level(heap, 1) /\ Batch \subseteq DOMAIN heap
  <2>1. BatchLevel = 1 BY <1>2 DEF BatchLevel
  <2> QED BY <2>1, BatchIs, BatchTrue
<1>5. ASSUME NEW p \in Arguments \cup ShownIn(out'), EntersIn(entries, c, p)
      PROVE  AwaitedIn(heap, stack', p)
  <2>1. p \in Fullnames(heap, Batch)
    <3>1. CASE p \in ShownIn(out') BY <1>3, <3>1 DEF Fullnames
    <3>2. CASE p \in Arguments
      <4>1. p[1] \notin ToSet(args) BY <1>2 DEF ToSet
      <4>2. ExaminedIn(entries, c, Fullnames(heap, Batch), p, Ok, Fine)
        BY <1>2, <3>2, <4>1 DEF ArgsInv
      <4>3. InfoIn(entries, c, p) # Nothing
        BY <1>5, <3>2, ArgumentIs, KernelTyped DEF FilesInv
      <4> QED BY <4>2, <4>3 DEF ExaminedIn
    <3> QED BY <3>1, <3>2
  <2>2. PICK id \in Batch : p = heap[id].fullname BY <2>1 DEF Fullnames
  <2>3. id \in Dirs /\ "NOLIST" \notin c.disp BY <1>4, <1>5, <2>2, EnteredNode DEF Level
  <2>4. PICK f \in FrameType : stack' = <<f>> /\ f.i = 1 /\ ToSet(f.dn) = Batch \cap Dirs
    BY <1>2, <2>2, <2>3
  <2>5. PICK j \in DOMAIN f.dn : f.dn[j] = id BY <2>2, <2>3, <2>4 DEF ToSet
  <2>6. f.dn \in Seq(Nat) BY DEF FrameType
  <2>7. j >= f.i BY <2>4, <2>6
  <2> DEFINE s == <<f>>
  <2>8. Len(s) = 1 /\ s[1] = f /\ 1 \in 1..Len(s) /\ ~(1 < Len(s)) OBVIOUS
  <2> HIDE DEF s
  <2>9. AwaitedIn(heap, s, heap[s[1].dn[j]].fullname) BY <2>5, <2>7, <2>8, AwaitedAt
  <2> QED BY <2>2, <2>4, <2>5, <2>8, <2>9 DEF s
<1> QED BY <1>5

\* No directory among the arguments is passed over.
LEMMA CoverArgumentsDone ==
  ASSUME SoundInv, KnownInv, ArgsInv, CoverInv, ArgumentsDone
  PROVE  CoverInv'
<1>1. pc' \in {"done", "showdirs"} /\ UNCHANGED <<cmd, c, heap, entries>>
  BY ArgumentsDoes DEF SoundInv, OptionsInv
<1>2. Arguments' = Arguments BY <1>1 DEF Arguments
<1> QED BY <1>1, <1>2, ArgumentsAwaited DEF CoverInv, CoverIn

\* The directory that the innermost call is at, and the calls after it.
LEMMA AwaitedAfter ==
  ASSUME NodesInv, stack # << >>, Top.i <= Len(Top.dn), NEW p, AwaitedIn(heap, stack, p)
  PROVE  /\ AwaitedIn(heap, NextDir(stack), p) \/ p = Path
         /\ \A sub, g : Pushable(heap, stack, sub, g) =>
              AwaitedIn(heap, Push(stack, sub, g), p) \/ p = Path
<1>1. Top = stack[Len(stack)] BY AtDirectory
<1>2. Path = AtTop(heap, stack) BY <1>1 DEF Path, AtTop
<1>3. stack \in Seq(FrameType) BY DEF NodesInv, StackOk
<1>4. AwaitedIn(heap, NextDir(stack), p) \/ p = AtTop(heap, stack) BY <1>3, AwaitedNextDir
<1>5. ASSUME NEW sub, NEW g, Pushable(heap, stack, sub, g)
      PROVE  AwaitedIn(heap, Push(stack, sub, g), p) \/ p = AtTop(heap, stack)
  <2> DEFINE s == Push(stack, sub, g)
  <2>1. PushedAs(stack, sub, g, s) BY <1>5, PushIs
  <2> HIDE DEF s
  <2>2. AwaitedIn(heap, s, p) \/ p = AtTop(heap, stack) BY <1>3, <2>1, AwaitedPush
  <2> QED BY <2>2 DEF s
<1> QED BY <1>2, <1>4, <1>5

\* A directory is opened, or found to be closed.
LEMMA CoverShowDir ==
  ASSUME SoundInv, SoundInv', CoverInv, ShowDir
  PROVE  CoverInv'
<1> USE DEF SoundInv
<1>1. /\ pc = "showdirs" /\ stack # << >> /\ Top.i <= Len(Top.dn)
      /\ UNCHANGED <<cmd, c, args, heap, made, entries, faults>>
      /\ ShownIn(out') = ShownIn(out)
      /\ \/ /\ Opendir(Path) = None /\ errors' = errors \cup {Path} /\ stack' = NextDir(stack)
            /\ pc' = "showdirs"
         \/ /\ Opendir(Path) # None /\ errors' = errors /\ stack' = stack /\ pc' = "readdir"
  BY ShowDirDoes
<1>2. LsNext BY DEF LsNext, LsMain
<1>3. CASE stack' = stack /\ pc' = "readdir"
  <2>1. SameCalls BY <1>1, <1>3 DEF SameCalls, Kept
  <2> QED BY <1>1, <1>2, <1>3, <2>1, CoverSame
<1>4. CASE /\ Opendir(Path) = None /\ errors' = errors \cup {Path} /\ stack' = NextDir(stack)
           /\ pc' = "showdirs"
  <2> DEFINE S == ShownIn(out)
             ok == Ok
             ok2 == Ok'
             A == Arguments
             st == NextDir(stack)
  <2>1. A \subseteq Paths /\ S \subseteq Paths BY ArgumentsTyped, ShownTyped
  <2>2. CoverIn(entries, c, S, ok, heap, stack, A) BY <1>1 DEF CoverInv
  <2>3. Path \notin ok2 /\ ok2 \subseteq ok BY <1>1, <1>4 DEF Ok, Fine
  <2>4. CoveredIn(entries, c, S, ok2, Path)
    <3>1. Path \in Paths BY <1>1, AtDirectory
    <3>2. Opendir(Path) = OpenIn(entries, Path) BY <3>1, KernelIs DEF FilesInv
    <3>3. WithinIn(entries, c, Path) = {} BY <1>4, <3>2 DEF WithinIn, NamesOf
    <3> QED BY <2>3, <3>3 DEF CoveredIn
  <2>5. \A p \in Paths : AwaitedIn(heap, stack, p) =>
          AwaitedIn(heap, st, p) \/ CoveredIn(entries, c, S, ok2, p)
    BY <1>1, <2>4, AwaitedAfter
  <2>6. FewerDirs(entries, entries) BY DEF FilesInv, FewerDirs, Shrunk
  <2>7. Arguments' = A BY <1>1 DEF Arguments
  <2> HIDE DEF S, ok, ok2, A, st
  <2>8. CoverIn(entries, c, S, ok2, heap, st, A)
    <3>1. \A p \in S \ S : EntersIn(entries, c, p) => AwaitedIn(heap, st, p) OBVIOUS
    <3>2. S \subseteq S /\ (\A x \in ok2 : x \in ok /\ entries = entries) BY <2>3
    <3> QED BY <2>1, <2>2, <2>5, <2>6, <3>1, <3>2, CoverStep
  <2> QED BY <1>1, <1>4, <2>7, <2>8 DEF CoverInv, S, ok2, st
<1> QED BY <1>1, <1>3, <1>4

\* When a call returns nothing that was awaited is forgotten,
LEMMA ReturnAwaited ==
  ASSUME SoundInv, Return
  PROVE  \A p : AwaitedIn(heap, stack, p) => AwaitedIn(heap', stack', p)
<1> USE DEF SoundInv
<1>1. /\ stack[Len(stack)].i > Len(stack[Len(stack)].dn) /\ stack # << >>
      /\ \/ Len(stack) = 1 /\ stack' = << >> /\ pc' = "done" /\ heap' = heap
         \/ /\ Len(stack) > 1 /\ stack' = NextDir(Front(stack)) /\ pc' = "showdirs"
            /\ Fewer(heap, heap')
            /\ \A k \in 1..(Len(stack) - 1) : Kept(heap, heap', Level(heap, k))
  BY ReturnDoes
<1>2. StackOk(heap, stack) /\ stack \in Seq(FrameType) /\ Len(stack) \in Nat
  BY DEF NodesInv, StackOk
<1> DEFINE h2 == heap'
           st2 == stack'
<1>3. \A p : AwaitedIn(heap, stack, p) => AwaitedIn(h2, st2, p)
  <2>1. CASE Len(stack) = 1
    <3>1. stack[1].i > Len(stack[1].dn) BY <1>1, <2>1
    <3> QED BY <1>2, <2>1, <3>1, NoneAwaited
  <2>2. CASE Len(stack) # 1
    <3> DEFINE t == Front(stack)
               m == Len(stack) - 1
               u == NextDir(t)
    <3>1. /\ Len(stack) > 1 /\ stack' = u
          /\ \A k \in 1..m : Kept(heap, heap', Level(heap, k))
      BY <1>1, <2>2
    <3>2. StackOk(heap, t) /\ Len(t) = m /\ t # << >> /\ t[m].i <= Len(t[m].dn)
      BY <1>2, <3>1, PopOk
    <3>3. \A p : AwaitedIn(heap, stack, p) => AwaitedIn(heap, u, p)
      BY <1>1, <1>2, <3>1, AwaitedPop
    <3> HIDE DEF t, m
    <3>4. StackOk(heap, u) BY <3>2, NextDirOk
    <3>5. Len(u) = m BY <3>2, NextDirFrames DEF StackOk
    <3> HIDE DEF u
    <3>6. \A p : AwaitedIn(heap, u, p) => AwaitedIn(h2, u, p) BY <3>1, <3>4, <3>5, AwaitedKept
    <3> QED BY <3>1, <3>3, <3>6
  <2> QED BY <2>1, <2>2
<1> QED BY <1>3

\* Its caller goes on.
LEMMA CoverReturn ==
  ASSUME SoundInv, CoverInv, Return
  PROVE  CoverInv'
<1> USE DEF SoundInv
<1>1. /\ pc = "showdirs" /\ UNCHANGED <<cmd, c, args, dn, entries, faults, dir, errors, out>>
      /\ stack[Len(stack)].i > Len(stack[Len(stack)].dn) /\ stack # << >>
      /\ \/ Len(stack) = 1 /\ stack' = << >> /\ pc' = "done" /\ heap' = heap
         \/ /\ Len(stack) > 1 /\ stack' = NextDir(Front(stack)) /\ pc' = "showdirs"
            /\ Fewer(heap, heap')
            /\ \A k \in 1..(Len(stack) - 1) : Kept(heap, heap', Level(heap, k))
  BY ReturnDoes
<1>2. StackOk(heap, stack) /\ stack \in Seq(FrameType) /\ Len(stack) \in Nat
  BY DEF NodesInv, StackOk
<1> DEFINE S == ShownIn(out)
           ok == Ok
           A == Arguments
           h2 == heap'
           st2 == stack'
<1>3. A \subseteq Paths /\ S \subseteq Paths BY ArgumentsTyped, ShownTyped
<1>4. CoverIn(entries, c, S, ok, heap, stack, A) BY <1>1 DEF CoverInv
<1>5. \A p : AwaitedIn(heap, stack, p) => AwaitedIn(h2, st2, p) BY ReturnAwaited
<1>6. FewerDirs(entries, entries) BY DEF FilesInv, FewerDirs, Shrunk
<1>7. Arguments' = A /\ Ok' = ok /\ ShownIn(out') = S BY <1>1 DEF Arguments, Ok, Fine
<1> HIDE DEF S, ok, A, h2, st2
<1>8. CoverIn(entries, c, S, ok, h2, st2, A)
  <2>1. \A p \in S \ S : EntersIn(entries, c, p) => AwaitedIn(h2, st2, p) OBVIOUS
  <2>2. S \subseteq S /\ (\A x \in ok : x \in ok /\ entries = entries) OBVIOUS
  <2>3. \A p \in Paths : AwaitedIn(heap, stack, p) =>
          AwaitedIn(h2, st2, p) \/ CoveredIn(entries, c, S, ok, p)
    BY <1>5
  <2> QED BY <1>3, <1>4, <1>6, <2>1, <2>2, <2>3, CoverStep
<1> QED BY <1>1, <1>7, <1>8 DEF CoverInv, h2, st2

\* nor when a directory has been read, whose subdirectories are awaited now.
LEMMA EndDirAwaited ==
  ASSUME SoundInv, KnownInv, EndDir
  PROVE  /\ \A p \in Paths : AwaitedIn(heap, stack, p) => AwaitedIn(heap', stack', p) \/ p = Path
         /\ \A p \in Fullnames(heap, Batch) :
              EntersIn(entries, c, p) => AwaitedIn(heap', stack', p)
<1> USE DEF SoundInv
<1>1. Sensible(c) BY DEF OptionsInv
<1>2. /\ pc = "readdir" /\ pc' = "showdirs" /\ dir.left = {}
      /\ UNCHANGED <<cmd, c, args, entries, faults, errors>>
      /\ ShownIn(out') = ShownIn(out) \cup Fullnames(heap, Batch)
      /\ \/ /\ Finished(heap, heap', stack, stack')
            /\ "RECURSIVE" \in c.disp => Batch \cap Subdirs = {}
         \/ /\ Descended(heap, heap', stack, stack', Batch \cap Subdirs)
            /\ "RECURSIVE" \in c.disp
  BY <1>1, EndDirDoes
<1>3. stack # << >> /\ Top.i <= Len(Top.dn) BY <1>2 DEF NodesInv
<1>4. Path \in Paths /\ Top = stack[Len(stack)] BY <1>3, AtDirectory
<1>5. StackOk(heap, stack) /\ stack \in Seq(FrameType) BY DEF NodesInv, StackOk
<1> DEFINE F == Fullnames(heap, Batch)
           h2 == heap'
           st2 == stack'
           q == Path
<1>6. ASSUME NEW p \in F, EntersIn(entries, c, p)
      PROVE  "RECURSIVE" \in c.disp /\ \E id \in Batch \cap Subdirs : p = heap[id].fullname
  <2>1. PICK id \in Batch : p = heap[id].fullname BY DEF Fullnames
  <2>2. id \in DOMAIN heap BY BatchTrue
  <2>3. Len(p) # 1
    <3>1. BatchLevel = Len(stack) + 1 BY <1>2 DEF BatchLevel
    <3>2. Len(p) = BatchLevel BY <2>1, BatchIs DEF Level
    <3>3. Len(stack) \in Nat \ {0} BY <1>3, AtDirectory
    <3> QED BY <3>1, <3>2, <3>3
  <2> QED BY <1>6, <2>1, <2>2, <2>3, EnteredNode
<1>7. /\ \A p \in Paths : AwaitedIn(heap, stack, p) => AwaitedIn(h2, st2, p) \/ p = q
      /\ \A p \in F : EntersIn(entries, c, p) => AwaitedIn(h2, st2, p)
  <2>1. CASE Finished(heap, heap', stack, stack') /\ ("RECURSIVE" \in c.disp => Batch \cap Subdirs = {})
    <3> DEFINE t == NextDir(stack)
               n == Len(stack)
    <3>1. stack' = t /\ \A k \in 1..n : Kept(heap, heap', Level(heap, k)) BY <2>1 DEF Finished
    <3>2. StackOk(heap, t) BY <1>3, <1>4, <1>5, NextDirOk
    <3>3. Len(t) = n BY <1>3, <1>5, NextDirFrames
    <3>4. \A p : AwaitedIn(heap, stack, p) => AwaitedIn(heap, t, p) \/ p = q
      BY <1>3, AwaitedAfter
    <3> HIDE DEF t, n, F, q
    <3>5. \A p : AwaitedIn(heap, t, p) => AwaitedIn(h2, t, p) BY <3>1, <3>2, <3>3, AwaitedKept
    <3>6. \A p \in F : ~EntersIn(entries, c, p) BY <1>6, <2>1
    <3> QED BY <3>1, <3>4, <3>5, <3>6
  <2>2. CASE Descended(heap, heap', stack, stack', Batch \cap Subdirs)
    <3>1. PICK sub, g : Pushable(heap, stack, sub, g) /\ stack' = Push(stack, sub, g)
                        /\ ToSet(g.dn) = Batch \cap Subdirs
      BY <2>2 DEF Descended
    <3>2. heap' = heap BY <2>2 DEF Descended
    <3>3. \A p : AwaitedIn(heap, stack, p) => AwaitedIn(heap, Push(stack, sub, g), p) \/ p = q
      BY <1>3, <3>1, AwaitedAfter
    <3> DEFINE s == Push(stack, sub, g)
    <3>4. PushedAs(stack, sub, g, s) BY <3>1, PushIs
    <3>5. g \in FrameType /\ g.i = 1 BY <3>1 DEF Pushable
    <3> HIDE DEF s
    <3>6. \A id \in ToSet(g.dn) : AwaitedIn(heap, s, heap[id].fullname)
      BY <1>5, <3>4, <3>5, AwaitedPushed
    <3> HIDE DEF F
    <3>7. \A p \in F : EntersIn(entries, c, p) => AwaitedIn(heap, s, p) BY <1>6, <3>1, <3>6
    <3> QED BY <3>1, <3>2, <3>3, <3>7 DEF s
  <2> QED BY <1>2, <2>1, <2>2
<1> QED BY <1>7

\* It is covered.
LEMMA CoverEndDir ==
  ASSUME SoundInv, SoundInv', KnownInv, ReadingInv, CoverInv, EndDir
  PROVE  CoverInv'
<1> USE DEF SoundInv
<1>1. Sensible(c) BY DEF OptionsInv
<1>2. /\ pc = "readdir" /\ pc' = "showdirs" /\ dir.left = {}
      /\ UNCHANGED <<cmd, c, args, entries, faults, errors>>
      /\ ShownIn(out') = ShownIn(out) \cup Fullnames(heap, Batch)
      /\ \/ /\ Finished(heap, heap', stack, stack')
            /\ "RECURSIVE" \in c.disp => Batch \cap Subdirs = {}
         \/ /\ Descended(heap, heap', stack, stack', Batch \cap Subdirs)
            /\ "RECURSIVE" \in c.disp
  BY <1>1, EndDirDoes
<1>3. stack # << >> /\ Top.i <= Len(Top.dn) BY <1>2 DEF NodesInv
<1>4. Path \in Paths /\ Top = stack[Len(stack)] BY <1>3, AtDirectory
<1>5. StackOk(heap, stack) /\ stack \in Seq(FrameType) BY DEF NodesInv, StackOk
<1> DEFINE S == ShownIn(out)
           F == Fullnames(heap, Batch)
           S2 == S \cup F
           ok == Ok
           A == Arguments
           h2 == heap'
           st2 == stack'
           q == Path
           quiet == faults = 0
<1>6. A \subseteq Paths /\ S2 \subseteq Paths
  <2>1. Arguments \subseteq Paths /\ ShownIn(out) \subseteq Paths BY ArgumentsTyped, ShownTyped
  <2>2. Fullnames(heap, Batch) \subseteq Paths
    BY BatchTrue DEF Fullnames, TrueDnode, DnodeType
  <2> QED BY <2>1, <2>2
<1>7. CoverIn(entries, c, S, ok, heap, stack, A) BY <1>2 DEF CoverInv
<1>8. CoveredIn(entries, c, S2, ok, q)
  <2>1. ReadingIn(entries, c, F, q, dir, quiet, ok) BY <1>2 DEF ReadingInv
  <2>2. dir.ino \in DOMAIN Entries BY <1>2 DEF FilesInv
  <2>3. dir.ino # None BY <2>2, InodeConstants
  <2>4. \A x \in ok : quiet BY DEF Ok
  <2> HIDE DEF F, S, ok, q, quiet
  <2>5. q \in ok => OpenIn(entries, q) # None BY <2>1, <2>3, <2>4 DEF ReadingIn
  <2>6. ASSUME NEW p \in WithinIn(entries, c, q) PROVE FoundIn(entries, c, F, p, ok)
    <3>1. PICK n \in NamesOf(entries, q) : ListedBy(c, n) /\ p = Append(q, n) BY DEF WithinIn
    <3>2. n \in DOMAIN entries[dir.ino] BY <2>1, <3>1 DEF NamesOf, ReadingIn
    <3> QED BY <1>2, <2>1, <3>1, <3>2 DEF ReadingIn
  <2> QED BY <2>5, <2>6 DEF CoveredIn, FoundIn
<1>10. /\ \A p \in Paths : AwaitedIn(heap, stack, p) => AwaitedIn(h2, st2, p) \/ p = q
       /\ \A p \in F : EntersIn(entries, c, p) => AwaitedIn(h2, st2, p)
  BY EndDirAwaited
<1>11. FewerDirs(entries, entries) BY DEF FilesInv, FewerDirs, Shrunk
<1>12. Arguments' = A /\ Ok' = ok /\ ShownIn(out') = S2 BY <1>2 DEF Arguments, Ok, Fine
<1> HIDE DEF S, ok, A, h2, st2, q, F
<1>13. CoverIn(entries, c, S2, ok, h2, st2, A)
  <2> DEFINE T == S2
  <2>1. \A p \in T \ S : EntersIn(entries, c, p) => AwaitedIn(h2, st2, p) BY <1>10
  <2>2. S \subseteq T /\ (\A x \in ok : x \in ok /\ entries = entries) OBVIOUS
  <2>3. \A p \in Paths : AwaitedIn(heap, stack, p) =>
          AwaitedIn(h2, st2, p) \/ CoveredIn(entries, c, T, ok, p)
    BY <1>8, <1>10
  <2>4. T \subseteq Paths BY <1>6
  <2> HIDE DEF T
  <2>5. CoverIn(entries, c, T, ok, h2, st2, A)
    BY <1>6, <1>7, <1>11, <2>1, <2>2, <2>3, <2>4, CoverStep
  <2> QED BY <2>5 DEF T
<1> QED BY <1>2, <1>12, <1>13 DEF CoverInv, h2, st2

\* No step passes over a directory.
LEMMA CoverNext ==
  ASSUME SoundInv, SoundInv', KnownInv, ReadingInv, ArgsInv, CoverInv, [LsNext]_lsvars
  PROVE  CoverInv'
<1> USE DEF SoundInv
<1>1. pc \in PcValues BY DEF OptionsInv
<1>2. CASE Option \/ Usage \/ OptionsDone
  <2>1. pc = "options" /\ pc' \in {"options", "usage", "args"} /\ out' = out
    BY <1>2 DEF Option, Usage, OptionsDone
  <2> QED BY <2>1 DEF OutInv, CoverInv
<1>3. CASE Argument
  <2>1. pc = "args" /\ pc' = pc /\ out' = out BY <1>3, ArgumentDoes
  <2> QED BY <2>1 DEF CoverInv
<1>4. ASSUME pc \in {"showdirs", "readdir", "done"}, pc' = pc, UNCHANGED <<c, stack, cmd, out>>,
             Kept(heap, heap', DOMAIN heap)
      PROVE  CoverInv'
  <2>1. SameCalls /\ UNCHANGED cmd /\ pc' # "args" /\ ShownIn(out') = ShownIn(out)
    BY <1>4 DEF SameCalls
  <2> QED BY <1>4, <2>1, CoverSame
<1>5. heap' = heap => Kept(heap, heap', DOMAIN heap) BY DEF Kept
<1>6. ASSUME NEW n \in dir.left, ReadEntry(n) PROVE CoverInv'
  <2>1. pc = "readdir" /\ pc' = pc /\ UNCHANGED <<c, stack, cmd, out>> BY <1>6, EntryDoes
  <2>2. Kept(heap, heap', DOMAIN heap)
    <3>1. CASE Skipped(n) BY <1>5, <1>6, <3>1 DEF ReadEntry, nodes
    <3>2. CASE ~Skipped(n) BY <1>6, <3>2, EntryDoes, TriedKeeps
    <3> QED BY <3>1, <3>2
  <2> QED BY <1>4, <2>1, <2>2
<1>7. ASSUME UNCHANGED <<pc, c, stack, cmd, out, heap>> PROVE CoverInv'
  <2>1. CASE pc \in {"options", "usage", "args"} BY <1>7, <2>1 DEF CoverInv
  <2>2. CASE pc \in {"showdirs", "readdir", "done"} BY <1>4, <1>5, <1>7, <2>2
  <2> QED BY <1>1, <2>1, <2>2 DEF PcValues
<1>8. ASSUME NEW n, MissEntry(n) PROVE CoverInv'
  BY <1>7, <1>8 DEF MissEntry, settings, nodes
<1>9. ASSUME NEW d, NEW n, Unlink(d, n) PROVE CoverInv'
  BY <1>7, <1>9 DEF Unlink, settings, nodes
<1>10. CASE UNCHANGED lsvars BY <1>7, <1>10 DEF lsvars, settings, nodes
<1>11. CASE ArgumentsDone BY <1>11, CoverArgumentsDone
<1>12. CASE ShowDir BY <1>12, CoverShowDir
<1>13. CASE EndDir BY <1>13, CoverEndDir
<1>14. CASE Return BY <1>14, CoverReturn
<1> QED BY <1>2, <1>3, <1>6, <1>8, <1>9, <1>10, <1>11, <1>12, <1>13, <1>14 DEF LsNext, LsMain

-----------------------------------------------------------------------------
(* What has been shown when ls ends.                                       *)

\* ls_main is to return failure if and only if there is a message.
StatusInv == status = "FAILURE" <=> errors # {}
Reported == \E path : status' = "FAILURE" /\ PerrorMsg(path)

\* At first there is none,
LEMMA StatusFirst == Init => StatusInv
BY DEF Init, StatusInv

\* and no step brings one without the other.
LEMMA StatusNext ==
  ASSUME StatusInv, [LsNext]_lsvars
  PROVE  StatusInv'
<1>1. ASSUME UNCHANGED report PROVE StatusInv' BY <1>1 DEF report, StatusInv
<1>2. ASSUME Reported PROVE StatusInv' BY <1>2 DEF Reported, PerrorMsg, StatusInv
<1>3. \A path : AddDnode(path) => UNCHANGED report \/ Reported BY DEF AddDnode, Reported
<1>4. CASE Option \/ Usage \/ OptionsDone BY <1>1, <1>4 DEF Option, Usage, OptionsDone
<1>5. CASE Argument BY <1>1, <1>2, <1>3, <1>5 DEF Argument
<1>6. CASE ArgumentsDone \/ EndDir \/ Return BY <1>1, <1>6 DEF ArgumentsDone, EndDir, Return
<1>7. CASE ShowDir BY <1>1, <1>2, <1>7 DEF ShowDir, Reported
<1>8. ASSUME NEW n, ReadEntry(n) PROVE StatusInv' BY <1>1, <1>2, <1>3, <1>8 DEF ReadEntry
<1>9. ASSUME NEW n, MissEntry(n) PROVE StatusInv' BY <1>1, <1>9 DEF MissEntry
<1>10. ASSUME NEW d, NEW n, Unlink(d, n) PROVE StatusInv' BY <1>1, <1>10 DEF Unlink
<1>11. CASE UNCHANGED lsvars BY <1>1, <1>11 DEF lsvars
<1> QED BY <1>4, <1>5, <1>6, <1>7, <1>8, <1>9, <1>10, <1>11 DEF LsNext, LsMain

LookInv ==
  KnownInv /\ EnteredInv /\ ReadingInv /\ ArgsInv /\ FailInv /\ CoverInv /\ StatusInv

\* The invariants so far.
LEMMA LookAlways == Spec => [](SoundInv /\ LookInv)
<1>1. Init => LookInv
  BY KnownFirst, EnteredFirst, ReadingFirst, ArgsFirst, FailFirst, CoverFirst,
     StatusFirst
  DEF LookInv
<1>2. SoundInv /\ SoundInv' /\ LookInv /\ [LsNext]_lsvars => LookInv'
  <2> SUFFICES ASSUME SoundInv, SoundInv', LookInv, [LsNext]_lsvars PROVE LookInv' OBVIOUS
  <2> USE DEF LookInv
  <2>1. KnownInv' BY KnownNext
  <2>2. EnteredInv' BY EnteredNext
  <2>3. ReadingInv' BY ReadingNext
  <2>4. ArgsInv' BY ArgsNext
  <2>5. FailInv' BY FailNext
  <2>6. CoverInv' BY CoverNext
  <2>7. StatusInv' BY StatusNext
  <2> QED BY <2>1, <2>2, <2>3, <2>4, <2>5, <2>6, <2>7
<1>3. Spec => []SoundInv BY OutAlways DEF SoundInv
<1> QED BY <1>1, <1>2, <1>3, OfLs, PTL DEF Spec

\* The names in a listing are those of its files.
LEMMA NamesAre ==
  ASSUME SoundInv, NEW k \in Listings
  PROVE  Names(k) = {d.fullname : d \in ToSet(out[k].files)}
<1> USE DEF SoundInv
<1> DEFINE files == out[k].files
           lines == Showfiles(files, c)
<1>1. files \in Seq(TrueDnode) /\ Showable(files, c) BY ListingsShowable
<1> HIDE DEF files
<1>2. ASSUME NEW d \in DnodesOf(lines) PROVE d \in ToSet(files)
  <2>1. PICK p \in Positions(lines) : d = FileAt(lines, p) BY DEF DnodesOf
  <2>2. PICK r \in DOMAIN lines : p \in {<<r, n>> : n \in DOMAIN lines[r]}
    BY <2>1 DEF Positions
  <2>3. PICK n \in DOMAIN lines[r] : p = <<r, n>> BY <2>2
  <2>4. d = lines[r][n].dn BY <2>1, <2>3 DEF FileAt
  <2> DEFINE i == PlaceOf(files, c, r, n)
  <2>5. i \in 1..Len(files) /\ lines[r][n].dn = files[i] BY <1>1, CellHas
  <2> HIDE DEF i
  <2>6. i \in DOMAIN files BY <1>1, <2>5
  <2> QED BY <2>4, <2>5, <2>6 DEF ToSet
<1>3. ASSUME NEW d \in ToSet(files) PROVE d \in DnodesOf(lines)
  <2>1. PICK i \in DOMAIN files : d = files[i] BY <1>3 DEF ToSet
  <2>2. PICK r \in DOMAIN lines : \E n \in DOMAIN lines[r] : lines[r][n].dn = files[i]
    BY <1>1, EveryFilePlaced
  <2>3. PICK n \in DOMAIN lines[r] : lines[r][n].dn = files[i] BY <2>2
  <2>4. <<r, n>> \in Positions(lines) BY DEF Positions
  <2>5. FileAt(lines, <<r, n>>) = d BY <2>1, <2>3 DEF FileAt
  <2> QED BY <2>4, <2>5 DEF DnodesOf
<1>4. DnodesOf(lines) = ToSet(files) BY <1>2, <1>3
<1>5. DnodesOf(Lines(k)) = ToSet(out[k].files) BY <1>4 DEF Lines, files
<1> QED BY <1>5 DEF Names

\* The names in the listings are those of their files.
LEMMA ShownIs ==
  ASSUME SoundInv PROVE Shown = ShownIn(out)
<1> USE DEF SoundInv
<1>1. \A k \in Listings : Names(k) = {d.fullname : d \in ToSet(out[k].files)} BY NamesAre
<1>2. \A k \in DOMAIN out : k \notin Listings => ToSet(out[k].files) = {}
  BY DEF Listings, ToSet
<1>3. Listings \subseteq DOMAIN out BY DEF Listings
<1>4. ASSUME NEW p \in Shown PROVE p \in ShownIn(out)
  <2>1. PICK k \in Listings : p \in Names(k) BY DEF Shown
  <2>2. PICK d \in ToSet(out[k].files) : p = d.fullname BY <1>1, <2>1
  <2> QED BY <1>3, <2>2 DEF ShownIn
<1>5. ASSUME NEW p \in ShownIn(out) PROVE p \in Shown
  <2>1. PICK k \in DOMAIN out : \E d \in ToSet(out[k].files) : p = d.fullname
    BY <1>5 DEF ShownIn
  <2>2. k \in Listings BY <1>2, <2>1
  <2>3. p \in Names(k) BY <1>1, <2>1, <2>2
  <2> QED BY <2>2, <2>3 DEF Shown
<1> QED BY <1>4, <1>5

\* Without calls nothing is awaited.
LEMMA NoneAwaitedAtEnd ==
  ASSUME NEW h, NEW p PROVE ~AwaitedIn(h, << >>, p)
BY DEF AwaitedIn

\* All that is to be entered is covered: then every layer is shown,
LEMMA LayersShown ==
  ASSUME NEW e, Remains(e), NEW s, NEW A \in SUBSET Paths, NEW S \in SUBSET Paths, NEW ok,
         \A p \in A \cup S : EntersIn(e, s, p) => CoveredIn(e, s, S, ok, p)
  PROVE  \A n \in Nat : \A p \in LayerIn(e, s, A, n) :
           p \in A \/ (InfoIn(e, s, p) # Nothing => p \in S)
<1> DEFINE Good(p) == p \in A \/ (InfoIn(e, s, p) # Nothing => p \in S)
           N == {n \in Nat : \A p \in LayerIn(e, s, A, n) : Good(p)}
<1>1. 0 \in N BY LayerNext
<1>2. ASSUME NEW n \in N PROVE n + 1 \in N
  <2>1. n \in Nat /\ \A p \in LayerIn(e, s, A, n) : Good(p) OBVIOUS
  <2>2. ASSUME NEW p \in LayerIn(e, s, A, n + 1) PROVE Good(p)
    <3>1. PICK q \in LayerIn(e, s, A, n) : EntersIn(e, s, q) /\ p \in WithinIn(e, s, q)
      BY <2>1, LayerNext
    <3>2. q \in Paths BY <2>1, LayerTyped
    <3>3. InfoIn(e, s, q) # Nothing BY <3>1, <3>2, KernelTyped
    <3>4. q \in A \cup S BY <2>1, <3>3
    <3>5. CoveredIn(e, s, S, ok, q) BY <3>1, <3>4
    <3> QED BY <3>1, <3>5 DEF CoveredIn
  <2>3. n + 1 \in Nat BY <2>1
  <2> HIDE DEF Good
  <2> QED BY <2>2, <2>3
<1> HIDE DEF N, Good
<1>3. N \subseteq Nat BY DEF N
<1>4. N = Nat BY <1>1, <1>2, <1>3, FromMin
<1> QED BY <1>4 DEF N, Good

\* and what is not there, or not open, has its message.
LEMMA LayersFine ==
  ASSUME NEW e, Remains(e), NEW s, NEW A \in SUBSET Paths, NEW S \in SUBSET Paths, NEW ok,
         \A p \in A \cup S : EntersIn(e, s, p) => CoveredIn(e, s, S, ok, p),
         \A p \in A \cap ok : InfoIn(e, s, p) # Nothing
  PROVE  TroubleIn(e, s, A) \cap ok = {}
<1> SUFFICES ASSUME NEW p \in ok, p \in TroubleIn(e, s, A) PROVE FALSE OBVIOUS
<1>1. /\ p \in WantedIn(e, s, A)
      /\ InfoIn(e, s, p) = Nothing \/ (EntersIn(e, s, p) /\ OpenIn(e, p) = None)
  BY DEF TroubleIn
<1>2. PICK n \in 0..MaxPath : p \in LayerIn(e, s, A, n) BY <1>1 DEF WantedIn
<1>3. n \in Nat BY LsConstants
<1>4. p \in Paths BY <1>2, <1>3, LayerTyped
<1>5. \A m \in Nat : \A q \in LayerIn(e, s, A, m) : q \in A \/ (InfoIn(e, s, q) # Nothing => q \in S)
  BY LayersShown
<1>6. InfoIn(e, s, p) # Nothing
  <2>1. CASE n = 0
    <3>1. p \in A BY <1>2, <2>1, LayerNext
    <3> QED BY <3>1
  <2>2. CASE n # 0
    <3> DEFINE m == n - 1
    <3>1. m \in Nat /\ m + 1 = n BY <1>3, <2>2
    <3> HIDE DEF m
    <3>2. PICK q \in LayerIn(e, s, A, m) : EntersIn(e, s, q) /\ p \in WithinIn(e, s, q)
      BY <1>2, <3>1, LayerNext
    <3>3. q \in Paths BY <3>1, <3>2, LayerTyped
    <3>4. InfoIn(e, s, q) # Nothing BY <3>2, <3>3, KernelTyped
    <3>5. q \in A \cup S BY <1>5, <3>1, <3>2, <3>4
    <3> QED BY <3>2, <3>5 DEF CoveredIn
  <2> QED BY <2>1, <2>2
<1>7. EntersIn(e, s, p) /\ OpenIn(e, p) = None BY <1>1, <1>6
<1>8. p \in A \cup S BY <1>2, <1>3, <1>5, <1>6
<1> QED BY <1>7, <1>8 DEF CoveredIn

\* Of the end of ls.
LEMMA AtTheEnd ==
  ASSUME SoundInv, LookInv, pc = "done"
  PROVE  /\ Remains(entries) /\ Arguments \in SUBSET Paths /\ Shown \in SUBSET Paths
         /\ \A p \in Arguments \cup Shown :
              EntersIn(entries, c, p) => CoveredIn(entries, c, Shown, Ok, p)
         /\ \A p \in Arguments : SettledIn(entries, c, Shown, p, Ok, Fine)
<1> USE DEF SoundInv, LookInv
<1>1. Shown = ShownIn(out) BY ShownIs
<1>2. Remains(entries) BY DEF FilesInv
<1>3. Arguments \in SUBSET Paths /\ Shown \in SUBSET Paths BY <1>1, ArgumentsTyped, ShownTyped
<1>4. stack = << >> BY DEF NodesInv
<1>5. CoverIn(entries, c, Shown, Ok, heap, << >>, Arguments) BY <1>1, <1>4 DEF CoverInv
<1>6. \A p \in Arguments \cup Shown :
        EntersIn(entries, c, p) => CoveredIn(entries, c, Shown, Ok, p)
  BY <1>5, NoneAwaitedAtEnd DEF CoverIn
<1>7. \A p \in Arguments : SettledIn(entries, c, Shown, p, Ok, Fine) BY <1>1 DEF ArgsInv
<1> QED BY <1>2, <1>3, <1>6, <1>7

\* They are all that NothingLost asks for,
LEMMA LookNothingLost == SoundInv /\ LookInv => NothingLost
<1> SUFFICES ASSUME SoundInv, LookInv, pc = "done", NEW p \in Wanted, Exists(p),
                    ~(Len(p) = 1 /\ Enters(p))
             PROVE  p \in Shown
  BY DEF NothingLost
<1> DEFINE S == Shown
           A == Arguments
           ok == Ok
           fine == Fine
<1>1. /\ Remains(entries) /\ A \in SUBSET Paths /\ S \in SUBSET Paths
      /\ \A q \in A \cup S : EntersIn(entries, c, q) => CoveredIn(entries, c, S, ok, q)
      /\ \A q \in A : SettledIn(entries, c, S, q, ok, fine)
  BY AtTheEnd
<1>2. p \in WantedIn(entries, c, A) /\ p \in Paths
  BY <1>1, WantedIs DEF SoundInv
<1>3. InfoIn(entries, c, p) # Nothing /\ (Enters(p) <=> EntersIn(entries, c, p))
  BY <1>1, <1>2, KernelIs
<1>4. A = Arguments OBVIOUS
<1> HIDE DEF S, A, ok, fine
<1>5. PICK n \in 0..MaxPath : p \in LayerIn(entries, c, A, n) BY <1>2 DEF WantedIn
<1>6. n \in Nat BY LsConstants
<1>7. p \in A \/ p \in S BY <1>1, <1>3, <1>5, <1>6, LayersShown
<1>8. CASE p \in A
  <2>1. Len(p) = 1 BY <1>4, <1>8, ArgumentIs DEF SoundInv
  <2>2. ~EntersIn(entries, c, p) BY <1>3, <2>1
  <2>3. p \in S BY <1>1, <1>3, <1>8, <2>2 DEF SettledIn
  <2> QED BY <2>3 DEF S
<1> QED BY <1>7, <1>8 DEF S

\* and FailuresReported.
LEMMA LookFailuresReported == SoundInv /\ LookInv => FailuresReported
<1> SUFFICES ASSUME SoundInv, LookInv, pc = "done"
             PROVE  /\ faults = 0 => errors = Trouble
                    /\ ~c.follow => Missing \subseteq errors
                    /\ status = "FAILURE" <=> errors # {}
  BY DEF FailuresReported
<1> DEFINE S == Shown
           A == Arguments
           ok == Ok
           fine == Fine
<1>1. /\ Remains(entries) /\ A \in SUBSET Paths /\ S \in SUBSET Paths
      /\ \A q \in A \cup S : EntersIn(entries, c, q) => CoveredIn(entries, c, S, ok, q)
      /\ \A q \in A : SettledIn(entries, c, S, q, ok, fine)
  BY AtTheEnd
<1>2. Trouble = TroubleIn(entries, c, A) /\ Trouble \subseteq Paths
  <2>1. Trouble = TroubleIn(entries, c, A) /\ Wanted \subseteq Paths BY <1>1, WantedIs DEF SoundInv
  <2> QED BY <2>1 DEF Trouble
<1>3. faults = 0 => errors \subseteq TroubleIn(entries, c, A) BY DEF LookInv, FailInv
<1>4. TroubleIn(entries, c, A) \cap ok = {}
  <2>1. \A q \in A \cap ok : InfoIn(entries, c, q) # Nothing BY <1>1 DEF SettledIn
  <2> HIDE DEF S, A, ok, fine
  <2> QED BY <1>1, <2>1, LayersFine
<1>5. faults = 0 => Trouble \subseteq errors BY <1>2, <1>4 DEF Ok, Fine
<1>6. ASSUME ~c.follow, NEW p \in Missing PROVE p \in errors
  <2>1. p \in A /\ p \notin S /\ NoDir(p) BY DEF Missing, NoDir
  <2>2. SettledIn(entries, c, S, p, ok, fine) BY <1>1, <2>1
  <2>3. p \notin fine BY <1>6, <2>1, <2>2 DEF SettledIn
  <2> QED BY <1>1, <2>1, <2>3 DEF Fine
<1> QED BY <1>2, <1>3, <1>5, <1>6 DEF LookInv, StatusInv

\* Every file that is there when ls ends, among the arguments or below them,
\* has been shown, whatever vanished meanwhile: NothingLost, about showdirs
\* and list_dir, for every file system, depth and order of readdir.
THEOREM NothingIsLost == Spec => []NothingLost
BY LookAlways, LookNothingLost, PTL

\* When ls_main returns, stderr has had a message about each path that could
\* not be examined or opened, and about no other unless files vanished, and
\* failure is its result if there was any: FailuresReported, about my_stat,
\* list_dir, perror_msg and ls_main.  That main drops the result is part of
\* the model; a message too long for perror_msg may end the process first.
THEOREM FailuresAreReported == Spec => []FailuresReported
BY LookAlways, LookFailuresReported, PTL

(* The names of the dnodes.                                                *)

Single(h, B) == \A i, j \in B : h[i].fullname = h[j].fullname => i = j

\* Dnodes of names of the directory q that have been read, one of each.
BatchNamed(s, h, B, q, d) ==
  /\ d.left \subseteq DOMAIN Entries[d.ino] /\ Single(h, B)
  /\ \A id \in B : \E n \in DOMAIN Entries[d.ino] \ d.left :
       ListedBy(s, n) /\ h[id].fullname = Append(q, n)

\* Dnodes of the arguments g, but for those of a that are left; none twice that was
\* not given twice.
Twice(g, p) == \E j, k \in DOMAIN g : j # k /\ g[j] = g[k] /\ p = <<g[j]>>
ArgsNamed(h, B, g, a) ==
  /\ Len(g) - Len(a) \in Nat
  /\ \A j \in DOMAIN a : a[j] = g[(Len(g) - Len(a)) + j]
  /\ \A id \in B : \E k \in 1..(Len(g) - Len(a)) : h[id].fullname = <<g[k]>>
  /\ \A i, j \in B : h[i].fullname = h[j].fullname => i = j \/ Twice(g, h[i].fullname)

AllArgs == IF cmd.args = << >> THEN <<Dot>> ELSE cmd.args

\* When names are passed over, or vanish from those left, it remains true;
LEMMA BatchNamedLess ==
  ASSUME NEW s, NEW h, NEW B, NEW q, NEW d, BatchNamed(s, h, B, q, d),
         NEW d2, d2.ino = d.ino, d2.left \subseteq d.left
  PROVE  BatchNamed(s, h, B, q, d2)
BY DEF BatchNamed

\* and when a dnode of one of them is added.
LEMMA BatchNamedGrows ==
  ASSUME NEW s, NEW h, NEW B, NEW q \in Paths, NEW d, BatchNamed(s, h, B, q, d),
         NEW n \in d.left, ListedBy(s, n), DOMAIN Entries[d.ino] \subseteq DOMAIN NameLen,
         NEW m \in Nat, DOMAIN h \subseteq 1..m, B \subseteq DOMAIN h,
         NEW h2, NEW dd, NEW info, Added(Append(q, n), h, h2, m, dd, info),
         NEW d2, d2.ino = d.ino, d2.left = d.left \ {n}
  PROVE  BatchNamed(s, h2, B \cup {m + 1}, q, d2)
<1>1. d.left \subseteq DOMAIN Entries[d.ino] /\ n \in DOMAIN NameLen BY DEF BatchNamed
<1>2. m + 1 \notin B BY DEF Added
<1>3. \A i \in B : h2[i].fullname = h[i].fullname BY DEF Added
<1>4. h2[m + 1].fullname = Append(q, n) BY DEF Added
<1>5. ASSUME NEW k \in DOMAIN NameLen, Append(q, k) = Append(q, n) PROVE k = n
  <2>1. Append(q, k)[Len(q) + 1] = k /\ Append(q, n)[Len(q) + 1] = n BY <1>1 DEF Paths
  <2> QED BY <1>5, <2>1
<1>6. ASSUME NEW i \in B PROVE h[i].fullname # Append(q, n)
  <2>1. PICK k \in DOMAIN Entries[d.ino] \ d.left : h[i].fullname = Append(q, k)
    BY DEF BatchNamed
  <2> QED BY <1>5, <2>1
<1>7. Single(h2, B \cup {m + 1}) BY <1>2, <1>3, <1>4, <1>6 DEF Single, BatchNamed
<1>8. ASSUME NEW id \in B \cup {m + 1}
      PROVE  \E k \in DOMAIN Entries[d2.ino] \ d2.left :
               ListedBy(s, k) /\ h2[id].fullname = Append(q, k)
  <2>1. CASE id = m + 1
    <3>1. n \in DOMAIN Entries[d2.ino] \ d2.left BY <1>1
    <3> QED BY <1>4, <2>1, <3>1
  <2>2. CASE id \in B
    <3>1. PICK k \in DOMAIN Entries[d.ino] \ d.left : ListedBy(s, k) /\ h[id].fullname = Append(q, k)
      BY <2>2 DEF BatchNamed
    <3> QED BY <1>3, <2>2, <3>1
  <2> QED BY <2>1, <2>2
<1> QED BY <1>1, <1>7, <1>8 DEF BatchNamed

\* The same for the arguments: one is passed over,
LEMMA ArgsNamedNext ==
  ASSUME NEW T, NEW g \in Seq(T), NEW a \in Seq(T), a # << >>,
         NEW h, NEW B, ArgsNamed(h, B, g, a)
  PROVE  LET k == Len(g) - Len(Tail(a))
         IN /\ ArgsNamed(h, B, g, Tail(a))
            /\ k \in DOMAIN g /\ g[k] = Head(a) /\ k - 1 = Len(g) - Len(a)
<1> DEFINE m == Len(g) - Len(a)
           t == Tail(a)
<1>1. m \in Nat /\ Len(t) = Len(a) - 1 /\ Len(g) - Len(t) = m + 1 /\ Len(a) \in Nat \ {0}
  BY DEF ArgsNamed
<1>2. \A j \in DOMAIN t : j + 1 \in DOMAIN a /\ t[j] = a[j + 1] /\ (m + 1) + j = m + (j + 1)
  BY <1>1
<1>3. \A j \in DOMAIN a : a[j] = g[m + j] BY DEF ArgsNamed
<1>4. \A j \in DOMAIN t : t[j] = g[(m + 1) + j] BY <1>2, <1>3
<1>5. 1..m \subseteq 1..(m + 1) BY <1>1
<1>6. m + 1 \in DOMAIN g /\ g[m + 1] = Head(a)
  <2>1. 1 \in DOMAIN a /\ Head(a) = a[1] BY <1>1
  <2>2. Len(g) \in Nat /\ DOMAIN g = 1..Len(g) OBVIOUS
  <2>3. m + 1 \in 1..Len(g)
    <3> HIDE DEF t
    <3> QED BY <1>1, <2>2
  <2> QED BY <1>3, <2>1, <2>2, <2>3
<1>7. /\ \A id \in B : \E k \in 1..(Len(g) - Len(t)) : h[id].fullname = <<g[k]>>
      /\ \A i, j \in B : h[i].fullname = h[j].fullname => i = j \/ Twice(g, h[i].fullname)
  BY <1>1, <1>5 DEF ArgsNamed
<1> HIDE DEF m, t
<1>8. ArgsNamed(h, B, g, t)
  <2>1. /\ Len(g) - Len(t) \in Nat
        /\ \A j \in DOMAIN t : t[j] = g[(Len(g) - Len(t)) + j]
    BY ONLY <1>1, <1>4
  <2> QED BY ONLY <1>7, <2>1 DEF ArgsNamed
<1> QED BY <1>1, <1>6, <1>8 DEF m, t

\* or a dnode of it is added.
LEMMA ArgsNamedGrows ==
  ASSUME NEW T, NEW g \in Seq(T), NEW a \in Seq(T), a # << >>,
         NEW h, NEW B, ArgsNamed(h, B, g, a),
         NEW m \in Nat, DOMAIN h \subseteq 1..m, B \subseteq DOMAIN h,
         NEW h2, NEW dd, NEW info, Added(<<Head(a)>>, h, h2, m, dd, info)
  PROVE  ArgsNamed(h2, B \cup {m + 1}, g, Tail(a))
<1> DEFINE t == Tail(a)
           k == Len(g) - Len(t)
           B2 == B \cup {m + 1}
<1>1. ArgsNamed(h, B, g, t) /\ k \in DOMAIN g /\ g[k] = Head(a) /\ k - 1 = Len(g) - Len(a)
  BY ArgsNamedNext
<1>2. \A i \in B : h2[i].fullname = h[i].fullname BY DEF Added
<1>3. h2[m + 1].fullname = <<g[k]>> BY <1>1 DEF Added
<1>4. k \in Nat /\ k \in 1..k BY <1>1
<1>5. \A id \in B2 : \E j \in 1..k : h2[id].fullname = <<g[j]>>
  BY <1>1, <1>2, <1>3, <1>4 DEF ArgsNamed
<1>6. ASSUME NEW i \in B, h[i].fullname = <<g[k]>> PROVE Twice(g, <<g[k]>>)
  <2>1. PICK j \in 1..(Len(g) - Len(a)) : h[i].fullname = <<g[j]>> BY DEF ArgsNamed
  <2>2. g[j] = g[k] BY <1>6, <2>1
  <2>3. j \in DOMAIN g /\ j # k BY <1>1, <1>4, <2>1
  <2> QED BY <1>1, <2>2, <2>3 DEF Twice
<1>7. ASSUME NEW i \in B2, NEW j \in B2, h2[i].fullname = h2[j].fullname
      PROVE  i = j \/ Twice(g, h2[i].fullname)
  <2>1. CASE i \in B /\ j \in B BY <1>1, <1>2, <1>7, <2>1 DEF ArgsNamed
  <2>2. CASE i = m + 1 /\ j = m + 1 BY <2>2
  <2>3. CASE i = m + 1 /\ j \in B BY <1>2, <1>3, <1>6, <1>7, <2>3
  <2>4. CASE i \in B /\ j = m + 1 BY <1>2, <1>3, <1>6, <1>7, <2>4
  <2> QED BY <2>1, <2>2, <2>3, <2>4
<1>8. k \in Nat /\ \A j \in DOMAIN t : t[j] = g[k + j] BY <1>1, <1>4 DEF ArgsNamed
<1> HIDE DEF t, B2
<1> QED BY <1>5, <1>7, <1>8 DEF ArgsNamed, t, B2

NamesInv ==
  /\ pc = "readdir" => BatchNamed(c, heap, Batch, Path, dir)
  /\ pc = "args" => ArgsNamed(heap, Batch, AllArgs, args)

\* The arguments are names.
LEMMA AllArgsTyped ==
  ASSUME OptionsInv PROVE AllArgs \in Seq(DOMAIN NameLen)
<1>1. cmd.args \in Seq(DOMAIN NameLen) BY CommandLineConstants DEF OptionsInv
<1>2. ASSUME NEW S, Dot \in S PROVE <<Dot>> \in Seq(S) BY <1>2
<1>3. <<Dot>> \in Seq(DOMAIN NameLen) BY <1>2, LsConstants
<1> QED BY <1>1, <1>3, Zenon DEF AllArgs

\* At first there are no dnodes.
LEMMA NamesFirst == Init => NamesInv
BY DEF Init, NamesInv

\* Steps that leave the dnodes alone, and in a directory at most read on.
LEMMA NamesSame ==
  ASSUME NamesInv, UNCHANGED <<c, stack, cmd, args>>, UNCHANGED nodes, pc' = pc,
         dir'.ino = dir.ino, dir'.left \subseteq dir.left
  PROVE  NamesInv'
<1>1. Batch' = Batch /\ heap' = heap BY DEF nodes, Batch, Chain
<1>2. Path' = Path BY <1>1 DEF Path, Top
<1>3. AllArgs' = AllArgs BY DEF AllArgs
<1>4. ASSUME pc = "readdir" PROVE BatchNamed(c, heap, Batch, Path, dir')
  BY <1>4, BatchNamedLess DEF NamesInv
<1>5. ASSUME pc = "args" PROVE ArgsNamed(heap, Batch, AllArgs, args) BY <1>5 DEF NamesInv
<1> QED BY <1>1, <1>2, <1>3, <1>4, <1>5 DEF NamesInv

\* The arguments: at first,
LEMMA NamesOptionsDone ==
  ASSUME SoundInv, KnownInv, OptionsDone
  PROVE  NamesInv'
<1> USE DEF SoundInv
<1>1. /\ pc = "options" /\ pc' = "args" /\ cmd' = cmd /\ UNCHANGED nodes
      /\ args' = IF args = << >> THEN <<Dot>> ELSE args
  BY DEF OptionsDone
<1>2. args = cmd.args /\ DOMAIN heap = {} BY <1>1 DEF KnownInv
<1>3. args' = AllArgs /\ AllArgs' = AllArgs BY <1>1, <1>2 DEF AllArgs
<1>4. Batch' = {}
  <2>1. Batch = {} BY <1>2, BatchTrue
  <2> QED BY <1>1, <2>1 DEF nodes, Batch, Chain
<1> DEFINE g == AllArgs
<1>5. g \in Seq(DOMAIN NameLen) BY AllArgsTyped
<1> HIDE DEF g
<1>6. ArgsNamed(heap', {}, g, g) BY <1>5 DEF ArgsNamed
<1> QED BY <1>1, <1>3, <1>4, <1>6 DEF NamesInv, g

\* and when one is examined;
LEMMA NamesArgument ==
  ASSUME SoundInv, NamesInv, Argument
  PROVE  NamesInv'
<1> USE DEF SoundInv
<1> DEFINE path == <<Head(args)>>
           g == AllArgs
           T == DOMAIN NameLen
<1>1. /\ pc = "args" /\ args # << >> /\ args' = Tail(args)
      /\ UNCHANGED <<cmd, c, entries, faults, stack, out, pc>> /\ Tried(path)
  BY ArgumentDoes
<1>2. args \in Seq(T) BY DEF FilesInv
<1>3. g \in Seq(T) /\ AllArgs' = g BY <1>1, AllArgsTyped DEF AllArgs
<1>4. ArgsNamed(heap, Batch, g, args) BY <1>1 DEF NamesInv
<1>5. made \in Nat /\ DOMAIN heap \subseteq 1..made /\ Batch \subseteq DOMAIN heap
  BY BatchTrue DEF NodesInv, HeapOk, Older
<1> HIDE DEF g
<1>6. ArgsNamed(heap', Batch', g, args')
  <2>1. CASE heap' = heap /\ Batch' = Batch BY <1>1, <1>2, <1>3, <1>4, <2>1, ArgsNamedNext
  <2>2. CASE Added(path, heap, heap', made, dn, Info(path)) /\ Batch' = Batch \cup {made + 1}
    <3> DEFINE h2 == heap'
               info == Info(path)
    <3>1. Added(<<Head(args)>>, heap, h2, made, dn, info) BY <2>2
    <3> HIDE DEF h2, info
    <3>2. ArgsNamed(h2, Batch \cup {made + 1}, g, Tail(args))
      BY <1>1, <1>2, <1>3, <1>4, <1>5, <3>1, ArgsNamedGrows
    <3> QED BY <1>1, <2>2, <3>2 DEF h2
  <2> QED BY <1>1, <2>1, <2>2 DEF Tried
<1> QED BY <1>1, <1>3, <1>6 DEF NamesInv, g

\* or a directory is opened,
LEMMA NamesShowDir ==
  ASSUME SoundInv, ShowDir
  PROVE  NamesInv'
<1> USE DEF SoundInv
<1>1. /\ \/ pc' = "showdirs"
         \/ /\ Opendir(Path) # None /\ pc' = "readdir" /\ stack' = stack /\ dn' = 0
            /\ dir' = [ino |-> Opendir(Path), left |-> DOMAIN entries[Opendir(Path)]]
      /\ stack # << >> /\ Top.i <= Len(Top.dn) /\ UNCHANGED <<c, heap, made>>
  BY ShowDirDoes
<1>2. CASE pc' = "showdirs" BY <1>2 DEF NamesInv
<1>3. CASE pc' = "readdir"
  <2>1. Path \in Paths BY <1>1, AtDirectory
  <2>2. Remains(entries) BY DEF FilesInv
  <2>3. Opendir(Path) \in DOMAIN Entries BY <1>1, <1>3, <2>1, <2>2, WalksTyped
  <2>4. dir'.left \subseteq DOMAIN Entries[dir'.ino]
    BY <1>1, <1>3, <2>2, <2>3 DEF Remains
  <2>5. Batch' = {}
    <3>1. Batch' = BatchOf(heap', made', dn') BY DEF Batch, BatchOf, Chain, ChainIn, ChainBody
    <3>2. BatchOf(heap, made, 0) = {} BY ChainOfNone DEF NodesInv, HeapOk, BatchOf
    <3> QED BY <1>1, <1>3, <3>1, <3>2
  <2>6. BatchNamed(c', heap', {}, Path', dir') BY <2>4 DEF BatchNamed, Single
  <2> QED BY <1>3, <2>5, <2>6 DEF NamesInv
<1> QED BY <1>1, <1>2, <1>3

\* and an entry of it is read.
LEMMA NamesReadEntry ==
  ASSUME SoundInv, NamesInv, NEW n, n \in dir.left, ReadEntry(n)
  PROVE  NamesInv'
<1> USE DEF SoundInv
<1>1. /\ pc = "readdir" /\ stack # << >> /\ Top.i <= Len(Top.dn)
      /\ dir' = [ino |-> dir.ino, left |-> dir.left \ {n}]
      /\ UNCHANGED <<cmd, c, args, entries, faults, stack, out, pc>>
      /\ IF Skipped(n) THEN UNCHANGED <<nodes, report>>
         ELSE Append(Path, n) \in Paths /\ Tried(Append(Path, n))
  BY EntryDoes
<1>2. CASE UNCHANGED nodes BY <1>1, <1>2, NamesSame
<1>3. CASE Tried(Append(Path, n)) /\ ~Skipped(n)
  <2> DEFINE q == Path
             B == Batch
             d == dir
             d2 == dir'
             h2 == heap'
  <2>1. q \in Paths BY <1>1, AtDirectory
  <2>2. BatchNamed(c, heap, B, q, d) BY <1>1 DEF NamesInv
  <2>3. d2.ino = d.ino /\ d2.left = d.left \ {n} BY <1>1
  <2>4. Path' = q
    <3>1. B \subseteq DOMAIN heap BY BatchTrue
    <3>2. Top.dn[Top.i] \in DOMAIN heap BY <1>1, AtDirectory
    <3>3. Kept(heap, heap', DOMAIN heap) BY <1>3, TriedKeeps
    <3> QED BY <1>1, <3>2, <3>3 DEF Kept, Path, Top
  <2>5. BatchNamed(c, h2, Batch', q, d2)
    <3>1. CASE heap' = heap /\ Batch' = Batch
      <4>1. d2.left \subseteq d.left BY <2>3
      <4> HIDE DEF q, d, d2
      <4>2. BatchNamed(c, heap, B, q, d2) BY <2>2, <2>3, <4>1, BatchNamedLess
      <4> QED BY <3>1, <4>2
    <3>2. CASE /\ Added(Append(Path, n), heap, heap', made, dn, Info(Append(Path, n)))
               /\ Batch' = Batch \cup {made + 1}
      <4> DEFINE info == Info(Append(Path, n))
      <4>1. Added(Append(q, n), heap, h2, made, dn, info) BY <3>2
      <4>2. n \in d.left /\ ListedBy(c, n) BY <1>3, SkippedIs DEF OptionsInv
      <4>3. DOMAIN Entries[d.ino] \subseteq DOMAIN NameLen BY <1>1, InodeConstants DEF FilesInv
      <4>4. made \in Nat /\ DOMAIN heap \subseteq 1..made /\ B \subseteq DOMAIN heap
        BY BatchTrue DEF NodesInv, HeapOk, Older
      <4> HIDE DEF q, B, d, d2, h2, info
      <4>5. BatchNamed(c, h2, B \cup {made + 1}, q, d2)
        BY <2>1, <2>2, <2>3, <4>1, <4>2, <4>3, <4>4, BatchNamedGrows
      <4> QED BY <3>2, <4>5 DEF B
    <3> QED BY <1>3, <3>1, <3>2 DEF Tried
  <2> QED BY <1>1, <2>4, <2>5 DEF NamesInv
<1> QED BY <1>1, <1>2, <1>3

\* The names of the dnodes are those that they were made for.
LEMMA NamesNext ==
  ASSUME SoundInv, KnownInv, NamesInv, [LsNext]_lsvars
  PROVE  NamesInv'
<1>1. CASE Option \/ Usage BY <1>1 DEF Option, Usage, NamesInv
<1>2. CASE OptionsDone BY <1>2, NamesOptionsDone
<1>3. CASE Argument BY <1>3, NamesArgument
<1>4. CASE ArgumentsDone BY <1>4 DEF ArgumentsDone, NamesInv
<1>5. CASE ShowDir BY <1>5, NamesShowDir
<1>6. CASE EndDir \/ Return BY <1>6 DEF EndDir, Return, NamesInv
<1>7. ASSUME NEW n \in dir.left, ReadEntry(n) PROVE NamesInv' BY <1>7, NamesReadEntry
<1>8. ASSUME NEW n, MissEntry(n) PROVE NamesInv'
  <2>1. dir \in [ino : DOMAIN Entries \cup {None}, left : SUBSET DOMAIN NameLen]
    BY DEF SoundInv, FilesInv
  <2>2. dir'.ino = dir.ino /\ dir'.left \subseteq dir.left BY <1>8, <2>1 DEF MissEntry
  <2> QED BY <1>8, <2>2, NamesSame DEF MissEntry, settings
<1>9. ASSUME NEW d, NEW n, Unlink(d, n) PROVE NamesInv' BY <1>9, NamesSame DEF Unlink, settings
<1>10. CASE UNCHANGED lsvars BY <1>10, NamesSame DEF lsvars, settings
<1> QED BY <1>1, <1>2, <1>3, <1>4, <1>5, <1>6, <1>7, <1>8, <1>9, <1>10 DEF LsNext, LsMain

(* What an item of the output is about.                                    *)

InsideIn(e, s, A, q) ==
  {p \in (IF q = << >> THEN A ELSE WithinIn(e, s, q)) : InfoIn(e, s, p) # Nothing}
ContentIn(e, s, A, q) == {p \in InsideIn(e, s, A, q) : q = << >> => ~EntersIn(e, s, p)}
DirectoriesIn(e, s, A) == {p \in WantedIn(e, s, A) : EntersIn(e, s, p)}
HeadedBy(s) == s.disp \cap {"DIRNAME", "RECURSIVE"} # {}

FilesOf(o) == {d.fullname : d \in ToSet(o.files)}
AboutItem(o) == IF o.files # << >> THEN Front(o.files[1].fullname) ELSE o.head
ItemTrue(e, s, A, o) ==
  IF o.files = << >> THEN HeadedBy(s) /\ o.head \in DirectoriesIn(e, s, A)
  ELSE /\ AboutItem(o) \in DirectoriesIn(e, s, A) \cup {<< >>}
       /\ FilesOf(o) = ContentIn(e, s, A, AboutItem(o))

ItemsInv == faults = 0 => \A k \in DOMAIN out : ItemTrue(entries, c, Arguments, out[k])

\* Files are inside their directory, and arguments inside none.
LEMMA FrontIs ==
  ASSUME NEW q \in Paths, NEW n \in DOMAIN NameLen
  PROVE  Front(Append(q, n)) = q /\ Front(<<n>>) = << >>
<1>1. Append(q, n) \in Paths /\ Len(Append(q, n)) = Len(q) + 1 BY DEF Paths
<1> DEFINE f == Front(Append(q, n))
<1>2. f = SubSeq(Append(q, n), 1, Len(q)) BY <1>1 DEF Front, Paths
<1>3. Len(f) = Len(q) /\ \A i \in 1..Len(q) : f[i] = q[i] BY <1>1, <1>2 DEF Paths
<1>4. f \in Paths BY <1>1, <1>2 DEF Paths
<1> HIDE DEF f
<1>5. f = q BY <1>3, <1>4 DEF Paths
<1>6. Len(<<n>>) = 1 BY DEF Front
<1>7. Front(<<n>>) = << >> BY <1>6 DEF Front
<1> QED BY <1>5, <1>7 DEF f

\* So it is for all that is inside a directory.
LEMMA InsideFront ==
  ASSUME OptionsInv, NEW e, Remains(e), NEW s, NEW q \in Paths,
         NEW p \in InsideIn(e, s, Arguments, q)
  PROVE  p \in Paths /\ Front(p) = q
<1>1. CASE q = << >>
  <2>1. p \in Arguments BY <1>1 DEF InsideIn
  <2>2. p \in Paths /\ Len(p) = 1 /\ p = <<p[1]>> BY <2>1, ArgumentIs
  <2>3. p[1] \in DOMAIN NameLen BY <2>2 DEF Paths
  <2> QED BY <1>1, <2>2, <2>3, FrontIs
<1>2. CASE q # << >>
  <2>1. p \in WithinIn(e, s, q) BY <1>2 DEF InsideIn
  <2>2. PICK n \in NamesOf(e, q) : p = Append(q, n) BY <2>1 DEF WithinIn
  <2>3. n \in DOMAIN NameLen /\ p \in Paths BY <2>1, KernelTyped
  <2> QED BY <2>2, <2>3, FrontIs
<1> QED BY <1>1, <1>2

\* A listing of the content of q is about q.
LEMMA ListingAbout ==
  ASSUME OptionsInv, NEW e, Remains(e), NEW s, NEW q \in Paths,
         q \in DirectoriesIn(e, s, Arguments) \cup {<< >>},
         NEW T, NEW o, o.files \in Seq(T), o.files # << >>,
         FilesOf(o) = ContentIn(e, s, Arguments, q)
  PROVE  ItemTrue(e, s, Arguments, o) /\ AboutItem(o) = q
<1>1. o.files[1] \in ToSet(o.files) BY DEF ToSet
<1>2. o.files[1].fullname \in InsideIn(e, s, Arguments, q) BY <1>1 DEF FilesOf, ContentIn
<1>3. AboutItem(o) = q BY <1>2, InsideFront DEF AboutItem
<1> QED BY <1>3 DEF ItemTrue

\* What the steps print.
PrintedOf(o, B) == /\ o.files \in Seq(TrueDnode) /\ o.files # << >>
                   /\ FilesOf(o) = Fullnames(heap, B)

\* showfiles prints all of a chain, in the order of sort_dnodes,
LEMMA PrintedBatch ==
  ASSUME SoundInv, NEW B, B \subseteq Batch, NEW ids \in Seq(Batch), ids # << >>, ToSet(ids) = B
  PROVE  PrintedOf(Listing(Sorted(ids)), B) /\ B # {}
<1> USE DEF SoundInv
<1> DEFINE o == Listing(Sorted(ids))
<1>1. Batch \subseteq DOMAIN heap /\ \A id \in Batch : heap[id] \in TrueDnode BY BatchTrue
<1>2. Sensible(c) BY DEF OptionsInv
<1>3. OutItem(o, c) /\ ToSet(o.files) = {heap[id] : id \in ToSet(ids)}
  BY <1>1, <1>2, ListingSorted
<1>4. o.files \in Seq(TrueDnode) BY <1>3 DEF OutItem
<1>5. o.files # << >>
  <2>1. ids[1] \in ToSet(ids) BY DEF ToSet
  <2>2. heap[ids[1]] \in ToSet(o.files) BY <1>3, <2>1
  <2> HIDE DEF o
  <2> QED BY <2>2 DEF ToSet
<1>6. FilesOf(o) = Fullnames(heap, B) BY <1>3 DEF FilesOf, Fullnames
<1>7. B # {} BY DEF ToSet
<1> QED BY <1>4, <1>5, <1>6, <1>7 DEF PrintedOf

\* showdirs a heading,
LEMMA ShowDirPrints ==
  ASSUME ShowDir PROVE out' = IF HeadedBy(c) THEN Append(out, Heading(Path)) ELSE out
BY DEF ShowDir, HeadedBy

\* list_dir what it has read,
LEMMA EndDirPrints ==
  ASSUME SoundInv, EndDir
  PROVE  \/ Batch = {} /\ out' = out
         \/ \E o : PrintedOf(o, Batch) /\ out' = Append(out, o)
<1> USE DEF SoundInv
<1> DEFINE ids == Chain(dn)
<1>1. pc = "readdir" BY DEF EndDir
<1>2. ids \in Seq(Batch) /\ ToSet(ids) = Batch BY BatchIs DEF Batch
<1>3. Sorted(ids) = << >> <=> ids = << >> BY <1>2, SortedIs
<1>4. out' = IF Sorted(ids) = << >> THEN out ELSE Append(out, Listing(Sorted(ids)))
  BY DEF EndDir
<1> HIDE DEF ids
<1>5. CASE ids = << >> BY <1>2, <1>3, <1>4, <1>5 DEF ToSet
<1>6. CASE ids # << >>
  <2>1. PrintedOf(Listing(Sorted(ids)), Batch) BY <1>2, <1>6, PrintedBatch
  <2> QED BY <1>3, <1>4, <1>6, <2>1
<1> QED BY <1>5, <1>6

\* ls_main the arguments that are not listed themselves.
LEMMA ArgumentsPrint ==
  ASSUME SoundInv, ArgumentsDone, NEW B, B = IF "NOLIST" \in c.disp THEN Batch ELSE Batch \ Dirs
  PROVE  \/ B = {} /\ out' = out
         \/ \E o : PrintedOf(o, B) /\ out' = Append(out, o)
<1> USE DEF SoundInv
<1> DEFINE ids == IF "NOLIST" \in c.disp THEN Chain(dn) ELSE Keep(Chain(dn), DOMAIN heap \ Dirs)
<1>1. ids \in Seq(Batch) /\ ToSet(ids) = B
      /\ out' = IF ids = << >> THEN out ELSE Append(out, Listing(Sorted(ids)))
  BY ArgumentsShow
<1>2. B \subseteq Batch OBVIOUS
<1> HIDE DEF ids
<1>3. CASE ids = << >> BY <1>1, <1>3 DEF ToSet
<1>4. CASE ids # << >>
  <2>1. PrintedOf(Listing(Sorted(ids)), B) BY <1>1, <1>2, <1>4, PrintedBatch
  <2> QED BY <1>1, <1>4, <2>1
<1> QED BY <1>3, <1>4

\* The dnodes of a directory that has been read are of what is inside,
LEMMA ReadBatch ==
  ASSUME SoundInv, KnownInv, NamesInv, ReadingInv, pc = "readdir", dir.left = {}, faults = 0,
         Path \in Paths, Path # << >>
  PROVE  Fullnames(heap, Batch) = InsideIn(entries, c, Arguments, Path)
<1> USE DEF SoundInv
<1> DEFINE F == Fullnames(heap, Batch)
           q == Path
           quiet == faults = 0
           ok == Ok
<1>1. entries = Entries /\ Remains(entries) BY DEF FilesInv
<1>2. dir.ino \in DOMAIN Entries /\ dir.ino # None BY InodeConstants DEF FilesInv
<1>3. quiet /\ ReadingIn(entries, c, F, q, dir, quiet, ok) BY DEF ReadingInv
<1>4. BatchNamed(c, heap, Batch, q, dir) BY DEF NamesInv
<1>5. \A id \in Batch : id \in DOMAIN heap /\ heap[id] \in TrueDnode BY BatchTrue
<1> HIDE DEF F, quiet, ok
<1>6. OpenIn(entries, q) = dir.ino BY <1>3 DEF ReadingIn
<1>7. NamesOf(entries, q) = DOMAIN Entries[dir.ino] BY <1>1, <1>2, <1>6 DEF NamesOf
<1>8. ASSUME NEW p \in F PROVE p \in InsideIn(entries, c, Arguments, q)
  <2>1. PICK id \in Batch : p = heap[id].fullname BY DEF F, Fullnames
  <2>2. PICK n \in DOMAIN Entries[dir.ino] : ListedBy(c, n) /\ p = Append(q, n)
    BY <1>4, <2>1 DEF BatchNamed
  <2>3. p \in WithinIn(entries, c, q) BY <1>7, <2>2 DEF WithinIn
  <2>4. InfoIn(entries, c, p) = heap[id].dstat BY <1>5, <2>1 DEF KnownInv, TrueInfoIn
  <2>5. heap[id].dstat # Nothing
    <3>1. heap[id].dstat \in {Attr[i] : i \in DOMAIN Attr}
      BY <1>5 DEF TrueDnode, DnodeType
    <3> QED BY <3>1, SomethingThere
  <2> QED BY <2>3, <2>4, <2>5 DEF InsideIn
<1>9. ASSUME NEW p \in InsideIn(entries, c, Arguments, q) PROVE p \in F
  <2>1. p \in WithinIn(entries, c, q) /\ InfoIn(entries, c, p) # Nothing BY DEF InsideIn
  <2>2. PICK n \in DOMAIN Entries[dir.ino] : ListedBy(c, n) /\ p = Append(q, n)
    BY <1>7, <2>1 DEF WithinIn
  <2>3. FoundIn(entries, c, F, p, ok) BY <1>1, <1>3, <2>2 DEF ReadingIn
  <2> QED BY <2>1, <2>3 DEF FoundIn
<1> QED BY <1>8, <1>9 DEF F

\* and those of the arguments of the arguments.
LEMMA ArgsBatch ==
  ASSUME SoundInv, KnownInv, NamesInv, ArgsInv, pc = "args", args = << >>, faults = 0
  PROVE  Fullnames(heap, Batch) = InsideIn(entries, c, Arguments, << >>)
<1> USE DEF SoundInv
<1> DEFINE F == Fullnames(heap, Batch)
           g == AllArgs
           ok == Ok
           fine == Fine
<1>1. \A id \in Batch : id \in DOMAIN heap /\ heap[id] \in TrueDnode BY BatchTrue
<1>2. ArgsNamed(heap, Batch, g, << >>) BY DEF NamesInv
<1>3. ToSet(args) = {} BY DEF ToSet
<1>4. \A p \in Arguments : ExaminedIn(entries, c, F, p, ok, fine) BY <1>3 DEF ArgsInv
<1>5. Arguments = {<<g[k]>> : k \in DOMAIN g} /\ g \in Seq(DOMAIN NameLen)
  <2>1. g \in Seq(DOMAIN NameLen) BY AllArgsTyped
  <2>2. CASE cmd.args = << >>
    <3>1. g = <<Dot>> BY <2>2 DEF AllArgs
    <3>2. DOMAIN <<Dot>> = {1} /\ <<Dot>>[1] = Dot OBVIOUS
    <3> HIDE DEF g
    <3>3. {<<g[k]>> : k \in DOMAIN g} = {<<Dot>>} BY <3>1, <3>2
    <3> QED BY <2>1, <2>2, <3>3 DEF Arguments
  <2>3. CASE cmd.args # << >> BY <2>1, <2>3 DEF AllArgs, Arguments
  <2> QED BY <2>2, <2>3
<1>6. ASSUME NEW p \in F PROVE p \in InsideIn(entries, c, Arguments, << >>)
  <2>1. PICK id \in Batch : p = heap[id].fullname BY DEF Fullnames
  <2>2. PICK k \in 1..(Len(g) - Len(<< >>)) : p = <<g[k]>> BY <1>2, <2>1 DEF ArgsNamed
  <2>3. k \in DOMAIN g BY <1>5
  <2>4. p \in Arguments BY <1>5, <2>2, <2>3
  <2>5. InfoIn(entries, c, p) = heap[id].dstat BY <1>1, <2>1 DEF KnownInv, TrueInfoIn
  <2>6. heap[id].dstat # Nothing
    <3>1. heap[id].dstat \in {Attr[i] : i \in DOMAIN Attr}
      BY <1>1 DEF TrueDnode, DnodeType
    <3> QED BY <3>1, SomethingThere
  <2> QED BY <2>4, <2>5, <2>6 DEF InsideIn
<1> HIDE DEF F, ok, fine
<1>7. ASSUME NEW p \in InsideIn(entries, c, Arguments, << >>) PROVE p \in F
  BY <1>4 DEF InsideIn, ExaminedIn
<1> QED BY <1>6, <1>7 DEF F

\* What is shown of the arguments.
LEMMA ArgsContent ==
  ASSUME SoundInv, KnownInv, NamesInv, ArgsInv, pc = "args", args = << >>, faults = 0,
         NEW B, B = IF "NOLIST" \in c.disp THEN Batch ELSE Batch \ Dirs
  PROVE  Fullnames(heap, B) = ContentIn(entries, c, Arguments, << >>)
<1> USE DEF SoundInv
<1> DEFINE I == InsideIn(entries, c, Arguments, << >>)
<1>1. Fullnames(heap, Batch) = I BY ArgsBatch
<1>2. ASSUME NEW id \in Batch
      PROVE  EntersIn(entries, c, heap[id].fullname) <=> id \in Dirs /\ "NOLIST" \notin c.disp
  <2>1. id \in DOMAIN heap BY BatchTrue
  <2>2. InfoIn(entries, c, heap[id].fullname) = heap[id].dstat
    BY <2>1 DEF KnownInv, TrueInfoIn
  <2>3. Len(heap[id].fullname) = 1
    <3>1. BatchLevel = 1 BY DEF BatchLevel
    <3> QED BY <3>1, BatchIs DEF Level
  <2> QED BY <2>1, <2>2, <2>3 DEF EntersIn, Dirs
<1> HIDE DEF I
<1>3. ASSUME NEW p \in Fullnames(heap, B) PROVE p \in I /\ ~EntersIn(entries, c, p)
  <2>1. PICK id \in B : p = heap[id].fullname BY DEF Fullnames
  <2> QED BY <1>1, <1>2, <2>1 DEF Fullnames
<1>4. ASSUME NEW p \in I, ~EntersIn(entries, c, p) PROVE p \in Fullnames(heap, B)
  <2>1. PICK id \in Batch : p = heap[id].fullname BY <1>1 DEF Fullnames
  <2>2. id \in B BY <1>2, <1>4, <2>1
  <2> QED BY <2>1, <2>2 DEF Fullnames
<1> QED BY <1>3, <1>4 DEF ContentIn, I

\* The directory that showdirs is at is one of those to be listed.
LEMMA PathWanted ==
  ASSUME SoundInv, KnownInv, EnteredInv, FailInv, faults = 0, stack # << >>, Top.i <= Len(Top.dn)
  PROVE  Path \in DirectoriesIn(entries, c, Arguments) /\ Path \in Paths /\ Path # << >>
<1> DEFINE k == Len(Path) - 1
           A == Arguments
<1>1. /\ Path \in Paths /\ Len(Path) \in Nat \ {0}
      /\ Path \in LayerIn(entries, c, A, k)
      /\ EntersIn(entries, c, Path) /\ InfoIn(entries, c, Path) # Nothing
  BY PathReached
<1>2. Len(Path) <= MaxPath BY <1>1, FoundShort DEF SoundInv, FilesInv
<1>3. k \in 0..MaxPath BY <1>1, <1>2, LsConstants
<1>4. Path # << >> BY <1>1
<1> HIDE DEF k, A
<1> QED BY <1>1, <1>3, <1>4 DEF DirectoriesIn, WantedIn, A

\* Items say what is there: at first,
LEMMA ItemsFirst == Init => ItemsInv
BY DEF Init, ItemsInv

\* with one more that does,
LEMMA ItemsGrow ==
  ASSUME SoundInv, ItemsInv, UNCHANGED <<cmd, c, entries, faults>>,
         out' = out \/ \E o : out' = Append(out, o) /\
                              (faults = 0 => ItemTrue(entries, c, Arguments, o))
  PROVE  ItemsInv'
<1> DEFINE A == Arguments
           T == [head : Paths, files : Seq(TrueDnode)]
<1>1. Arguments' = A BY DEF Arguments
<1>2. out \in Seq(T) BY DEF SoundInv, OutInv
<1>3. faults = 0 => \A k \in DOMAIN out : ItemTrue(entries, c, A, out[k]) BY DEF ItemsInv
<1> HIDE DEF A, T
<1>4. CASE out' = out BY <1>1, <1>3, <1>4 DEF ItemsInv
<1>5. ASSUME NEW o, out' = Append(out, o), faults = 0 => ItemTrue(entries, c, A, o)
      PROVE  ItemsInv'
  <2>1. DOMAIN out' = (DOMAIN out) \cup {Len(out) + 1} /\ out'[Len(out) + 1] = o
        /\ \A k \in DOMAIN out : out'[k] = out[k]
    BY <1>2, <1>5
  <2>2. faults = 0 => \A k \in DOMAIN out' : ItemTrue(entries, c, A, out'[k])
    BY <1>3, <1>5, <2>1
  <2> QED BY <1>1, <2>2 DEF ItemsInv
<1> QED BY <1>4, <1>5 DEF A

\* and after every step.
LEMMA ItemsNext ==
  ASSUME SoundInv, KnownInv, EnteredInv, ReadingInv, ArgsInv, FailInv, NamesInv, ItemsInv,
         [LsNext]_lsvars
  PROVE  ItemsInv'
<1> USE DEF SoundInv
<1>1. Remains(entries) /\ << >> \in Paths BY DEF FilesInv, Paths
<1>2. CASE Option \/ Usage \/ OptionsDone
  <2>1. pc = "options" /\ out' = out BY <1>2 DEF Option, Usage, OptionsDone
  <2>2. DOMAIN out' = {} BY <2>1 DEF OutInv
  <2> QED BY <2>2 DEF ItemsInv
<1>3. CASE Argument BY <1>3, ItemsGrow, ArgumentDoes
<1>4. CASE ArgumentsDone
  <2> DEFINE B == IF "NOLIST" \in c.disp THEN Batch ELSE Batch \ Dirs
  <2>1. pc = "args" /\ args = << >> /\ UNCHANGED <<cmd, c, entries, faults>>
    BY <1>4, ArgumentsDoes DEF OptionsInv
  <2>2. faults = 0 => Fullnames(heap, B) = ContentIn(entries, c, Arguments, << >>)
    BY <2>1, ArgsContent
  <2>3. ASSUME NEW o, PrintedOf(o, B), faults = 0 PROVE ItemTrue(entries, c, Arguments, o)
    BY <1>1, <2>2, <2>3, ListingAbout DEF PrintedOf
  <2>4. out' = out \/ \E o : PrintedOf(o, B) /\ out' = Append(out, o) BY <1>4, ArgumentsPrint
  <2> HIDE DEF B
  <2> QED BY <2>1, <2>3, <2>4, ItemsGrow
<1>5. CASE ShowDir
  <2>1. stack # << >> /\ Top.i <= Len(Top.dn) /\ UNCHANGED <<cmd, c, entries, faults>>
    BY <1>5, ShowDirDoes
  <2>2. faults = 0 => Path \in DirectoriesIn(entries, c, Arguments) BY <2>1, PathWanted
  <2>3. out' = IF HeadedBy(c) THEN Append(out, Heading(Path)) ELSE out BY <1>5, ShowDirPrints
  <2>4. faults = 0 /\ HeadedBy(c) => ItemTrue(entries, c, Arguments, Heading(Path))
    BY <2>2 DEF ItemTrue, Heading
  <2> QED BY <2>1, <2>3, <2>4, ItemsGrow
<1>6. CASE EndDir
  <2>1. /\ pc = "readdir" /\ dir.left = {} /\ UNCHANGED <<cmd, c, entries, faults>>
        /\ stack # << >> /\ Top.i <= Len(Top.dn)
    BY <1>6, EndDirDoes DEF OptionsInv, NodesInv
  <2>2. ASSUME faults = 0
        PROVE  /\ Path \in DirectoriesIn(entries, c, Arguments) /\ Path \in Paths
               /\ Fullnames(heap, Batch) = ContentIn(entries, c, Arguments, Path)
    BY <2>1, <2>2, PathWanted, ReadBatch DEF ContentIn
  <2>3. ASSUME NEW o, PrintedOf(o, Batch), faults = 0 PROVE ItemTrue(entries, c, Arguments, o)
    <3> DEFINE q == Path
    <3>1. /\ q \in DirectoriesIn(entries, c, Arguments) /\ q \in Paths
          /\ FilesOf(o) = ContentIn(entries, c, Arguments, q)
          /\ o.files \in Seq(TrueDnode) /\ o.files # << >>
      BY <2>2, <2>3 DEF PrintedOf
    <3> HIDE DEF q
    <3> QED BY <1>1, <3>1, ListingAbout
  <2>4. out' = out \/ \E o : PrintedOf(o, Batch) /\ out' = Append(out, o)
    BY <1>6, EndDirPrints
  <2> QED BY <2>1, <2>3, <2>4, ItemsGrow
<1>7. CASE Return BY <1>7, ReturnDoes, ItemsGrow
<1>8. ASSUME NEW n \in dir.left, ReadEntry(n) PROVE ItemsInv' BY <1>8, EntryDoes, ItemsGrow
<1>9. ASSUME NEW n, MissEntry(n) PROVE ItemsInv'
  BY <1>9, ItemsGrow DEF MissEntry, settings, fs
<1>10. ASSUME NEW d, NEW n, Unlink(d, n) PROVE ItemsInv'
  <2>1. faults' = faults + 1 /\ faults \in Nat BY <1>10 DEF Unlink, FilesInv
  <2> QED BY <2>1 DEF ItemsInv
<1>11. CASE UNCHANGED lsvars BY <1>11, ItemsGrow DEF lsvars, settings, fs
<1> QED BY <1>2, <1>3, <1>4, <1>5, <1>6, <1>7, <1>8, <1>9, <1>10, <1>11 DEF LsNext, LsMain

-----------------------------------------------------------------------------
(* Headings.                                                               *)

HeadsOf(o) == {o[k].head : k \in {j \in DOMAIN o : o[j].files = << >>}}
HeadedIn(e, s, S, h, st, A, H) ==
  \A p \in A \cup S : EntersIn(e, s, p) => AwaitedIn(h, st, p) \/ p \in H
HeadingsInv ==
  faults = 0 /\ HeadedBy(c) =>
    /\ pc \in {"showdirs", "readdir", "done"} =>
         HeadedIn(entries, c, ShownIn(out), heap, stack, Arguments, HeadsOf(out))
    /\ pc = "readdir" => Path \in HeadsOf(out)

\* What a step has to leave, and to add.
LEMMA HeadedStep ==
  ASSUME NEW e, NEW s, NEW S, NEW h, NEW st, NEW A, NEW H, HeadedIn(e, s, S, h, st, A, H),
         A \cup S \subseteq Paths, NEW S2, NEW h2, NEW st2, NEW H2, H \subseteq H2,
         \A p \in Paths : AwaitedIn(h, st, p) => AwaitedIn(h2, st2, p) \/ p \in H2,
         \A p \in S2 \ S : EntersIn(e, s, p) => AwaitedIn(h2, st2, p)
  PROVE  HeadedIn(e, s, S2, h2, st2, A, H2)
BY DEF HeadedIn

\* Headings remain, and a new one is added.
LEMMA HeadsGrow ==
  ASSUME NEW T, NEW o \in Seq(T), NEW x
  PROVE  /\ HeadsOf(o) \subseteq HeadsOf(Append(o, x))
         /\ x.files = << >> => x.head \in HeadsOf(Append(o, x))
<1> DEFINE a == Append(o, x)
<1>1. DOMAIN a = (DOMAIN o) \cup {Len(o) + 1} /\ a[Len(o) + 1] = x
      /\ \A k \in DOMAIN o : a[k] = o[k]
  OBVIOUS
<1> HIDE DEF a
<1>2. ASSUME NEW y \in HeadsOf(o) PROVE y \in HeadsOf(a)
  <2>1. PICK k \in DOMAIN o : o[k].files = << >> /\ y = o[k].head BY DEF HeadsOf
  <2> QED BY <1>1, <2>1 DEF HeadsOf
<1>3. x.files = << >> => x.head \in HeadsOf(a) BY <1>1 DEF HeadsOf
<1> QED BY <1>2, <1>3 DEF a

\* No directory is without its heading: at first,
LEMMA HeadingsFirst == Init => HeadingsInv
BY DEF Init, HeadingsInv

\* Steps that leave calls and output alone.
LEMMA HeadingsSame ==
  ASSUME SoundInv, HeadingsInv, faults = 0, entries' = entries, SameCalls,
         UNCHANGED <<cmd, out, pc>>, pc \in {"showdirs", "readdir", "done"}
  PROVE  HeadingsInv'
<1> SUFFICES ASSUME HeadedBy(c) PROVE HeadingsInv' BY DEF HeadingsInv, SameCalls
<1> DEFINE A == Arguments
           S == ShownIn(out)
           H == HeadsOf(out)
<1>1. A \cup S \subseteq Paths BY ArgumentsTyped, ShownTyped DEF SoundInv
<1>2. HeadedIn(entries, c, S, heap, stack, A, H) BY DEF HeadingsInv
<1>3. \A p : AwaitedIn(heap, stack, p) => AwaitedIn(heap', stack, p) BY SameAwaited
<1>4. Arguments' = A BY DEF Arguments
<1> HIDE DEF A, S, H
<1>5. HeadedIn(entries, c, S, heap', stack, A, H) BY <1>1, <1>2, <1>3, HeadedStep
<1>6. pc = "readdir" => Path' = Path
  <2> SUFFICES ASSUME pc = "readdir" PROVE Path' = Path OBVIOUS
  <2>1. Top.dn[Top.i] \in DOMAIN heap BY AtDirectory DEF SoundInv, NodesInv
  <2> QED BY <2>1 DEF SameCalls, Kept, Path, Top
<1> QED BY <1>4, <1>5, <1>6 DEF HeadingsInv, SameCalls, S, H

\* The arguments are awaited,
LEMMA HeadingsArgumentsDone ==
  ASSUME SoundInv, KnownInv, ArgsInv, CoverInv, ArgumentsDone
  PROVE  HeadingsInv'
<1>1. pc' \in {"done", "showdirs"} /\ UNCHANGED <<cmd, c, heap, entries>>
  BY ArgumentsDoes DEF SoundInv, OptionsInv
<1>2. Arguments' = Arguments BY <1>1 DEF Arguments
<1> QED BY <1>1, <1>2, ArgumentsAwaited DEF HeadingsInv, HeadedIn

\* a directory gets its heading,
LEMMA HeadingsShowDir ==
  ASSUME SoundInv, HeadingsInv, ShowDir
  PROVE  HeadingsInv'
<1> USE DEF SoundInv
<1>1. /\ pc = "showdirs" /\ stack # << >> /\ Top.i <= Len(Top.dn)
      /\ UNCHANGED <<cmd, c, args, heap, made, entries, faults>>
      /\ ShownIn(out') = ShownIn(out)
      /\ \/ stack' = NextDir(stack) /\ pc' = "showdirs"
         \/ stack' = stack /\ pc' = "readdir"
  BY ShowDirDoes
<1> SUFFICES ASSUME faults = 0, HeadedBy(c) PROVE HeadingsInv' BY <1>1 DEF HeadingsInv
<1> DEFINE A == Arguments
           S == ShownIn(out)
           H == HeadsOf(out)
           H2 == HeadsOf(out')
           q == Path
           T == [head : Paths, files : Seq(TrueDnode)]
<1>2. A \cup S \subseteq Paths BY ArgumentsTyped, ShownTyped
<1>3. HeadedIn(entries, c, S, heap, stack, A, H) BY <1>1 DEF HeadingsInv
<1>4. out' = Append(out, Heading(q)) BY ShowDirPrints
<1>5. H \subseteq H2 /\ q \in H2
  <2>1. out \in Seq(T) BY DEF OutInv
  <2>2. Heading(q).files = << >> /\ Heading(q).head = q BY DEF Heading
  <2> HIDE DEF T, q
  <2> QED BY <1>4, <2>1, <2>2, HeadsGrow
<1>6. Arguments' = A BY <1>1 DEF Arguments
<1>7. \A p : AwaitedIn(heap, stack, p) => AwaitedIn(heap, stack', p) \/ p = q
  BY <1>1, AwaitedAfter
<1> HIDE DEF A, S, H, H2, q
<1>8. HeadedIn(entries, c, S, heap, stack', A, H2) BY <1>2, <1>3, <1>5, <1>7, HeadedStep
<1>9. pc' = "readdir" => Path' = Path BY <1>1 DEF Path, Top
<1> QED BY <1>1, <1>5, <1>6, <1>8, <1>9 DEF HeadingsInv, S, H2, q

\* which it has when it has been read,
LEMMA HeadingsEndDir ==
  ASSUME SoundInv, KnownInv, HeadingsInv, EndDir
  PROVE  HeadingsInv'
<1> USE DEF SoundInv
<1>1. /\ pc = "readdir" /\ pc' = "showdirs"
      /\ UNCHANGED <<cmd, c, args, entries, faults, errors>>
      /\ ShownIn(out') = ShownIn(out) \cup Fullnames(heap, Batch)
  BY EndDirDoes DEF OptionsInv
<1> SUFFICES ASSUME faults = 0, HeadedBy(c) PROVE HeadingsInv' BY <1>1 DEF HeadingsInv
<1> DEFINE A == Arguments
           S == ShownIn(out)
           F == Fullnames(heap, Batch)
           S2 == S \cup F
           H == HeadsOf(out)
           H2 == HeadsOf(out')
           q == Path
           h2 == heap'
           st2 == stack'
           T == [head : Paths, files : Seq(TrueDnode)]
<1>2. A \cup S \subseteq Paths BY ArgumentsTyped, ShownTyped
<1>3. HeadedIn(entries, c, S, heap, stack, A, H) /\ q \in H BY <1>1 DEF HeadingsInv
<1>4. H \subseteq H2
  <2>1. out \in Seq(T) BY DEF OutInv
  <2> HIDE DEF T
  <2> QED BY <2>1, EndDirPrints, HeadsGrow
<1>5. Arguments' = A /\ ShownIn(out') = S2 BY <1>1 DEF Arguments
<1>6. /\ \A p \in Paths : AwaitedIn(heap, stack, p) => AwaitedIn(h2, st2, p) \/ p = q
      /\ \A p \in F : EntersIn(entries, c, p) => AwaitedIn(h2, st2, p)
  BY EndDirAwaited
<1> HIDE DEF A, S, F, H, H2, q, h2, st2
<1>7. HeadedIn(entries, c, S2, h2, st2, A, H2)
  <2> DEFINE U == S2
  <2>1. \A p \in U \ S : EntersIn(entries, c, p) => AwaitedIn(h2, st2, p) BY <1>6
  <2>2. \A p \in Paths : AwaitedIn(heap, stack, p) => AwaitedIn(h2, st2, p) \/ p \in H2
    BY <1>3, <1>4, <1>6
  <2> HIDE DEF U
  <2>3. HeadedIn(entries, c, U, h2, st2, A, H2) BY <1>2, <1>3, <1>4, <2>1, <2>2, HeadedStep
  <2> QED BY <2>3 DEF U
<1> QED BY <1>1, <1>5, <1>7 DEF HeadingsInv, H2, h2, st2

\* and later.
LEMMA HeadingsReturn ==
  ASSUME SoundInv, HeadingsInv, Return
  PROVE  HeadingsInv'
<1> USE DEF SoundInv
<1>1. /\ pc = "showdirs" /\ pc' \in {"showdirs", "done"}
      /\ UNCHANGED <<cmd, c, entries, faults, out>>
  BY ReturnDoes
<1> SUFFICES ASSUME faults = 0, HeadedBy(c) PROVE HeadingsInv' BY <1>1 DEF HeadingsInv
<1> DEFINE A == Arguments
           S == ShownIn(out)
           H == HeadsOf(out)
           h2 == heap'
           st2 == stack'
<1>2. A \cup S \subseteq Paths BY ArgumentsTyped, ShownTyped
<1>3. HeadedIn(entries, c, S, heap, stack, A, H) BY <1>1 DEF HeadingsInv
<1>4. \A p : AwaitedIn(heap, stack, p) => AwaitedIn(h2, st2, p) BY ReturnAwaited
<1>5. Arguments' = A BY <1>1 DEF Arguments
<1> HIDE DEF A, S, H, h2, st2
<1>6. HeadedIn(entries, c, S, h2, st2, A, H) BY <1>2, <1>3, <1>4, HeadedStep
<1> QED BY <1>1, <1>5, <1>6 DEF HeadingsInv, S, H, h2, st2

\* Headings are there after every step.
LEMMA HeadingsNext ==
  ASSUME SoundInv, KnownInv, ArgsInv, CoverInv, HeadingsInv, [LsNext]_lsvars
  PROVE  HeadingsInv'
<1> USE DEF SoundInv
<1> SUFFICES ASSUME faults' = 0 PROVE HeadingsInv' BY DEF HeadingsInv
<1>1. faults = 0 /\ entries' = entries BY QuietSteps
<1>2. pc \in PcValues BY DEF OptionsInv
<1>3. pc' \in {"options", "usage", "args"} => HeadingsInv' BY DEF HeadingsInv
<1>4. ASSUME pc' = pc, UNCHANGED <<c, stack, cmd, out>>, Kept(heap, heap', DOMAIN heap)
      PROVE  HeadingsInv'
  <2>1. CASE pc \in {"showdirs", "readdir", "done"}
    BY <1>1, <1>4, <2>1, HeadingsSame DEF SameCalls
  <2> QED BY <1>2, <1>3, <1>4, <2>1 DEF PcValues
<1>5. heap' = heap => Kept(heap, heap', DOMAIN heap) BY DEF Kept
<1>6. CASE Option \/ Usage \/ OptionsDone BY <1>3, <1>6 DEF Option, Usage, OptionsDone
<1>7. CASE Argument BY <1>3, <1>7, ArgumentDoes
<1>8. ASSUME NEW n \in dir.left, ReadEntry(n) PROVE HeadingsInv'
  <2>1. pc = "readdir" /\ pc' = pc /\ UNCHANGED <<c, stack, cmd, out>> BY <1>8, EntryDoes
  <2>2. Kept(heap, heap', DOMAIN heap)
    <3>1. CASE Skipped(n) BY <1>5, <1>8, <3>1 DEF ReadEntry, nodes
    <3>2. CASE ~Skipped(n) BY <1>8, <3>2, EntryDoes, TriedKeeps
    <3> QED BY <3>1, <3>2
  <2> QED BY <1>4, <2>1, <2>2
<1>9. ASSUME NEW n, MissEntry(n) PROVE HeadingsInv'
  BY <1>4, <1>5, <1>9 DEF MissEntry, settings, nodes
<1>10. ASSUME NEW d, NEW n, Unlink(d, n) PROVE HeadingsInv'
  BY <1>4, <1>5, <1>10 DEF Unlink, settings, nodes
<1>11. CASE UNCHANGED lsvars BY <1>4, <1>5, <1>11 DEF lsvars, settings, nodes
<1>12. CASE ArgumentsDone BY <1>12, HeadingsArgumentsDone
<1>13. CASE ShowDir BY <1>13, HeadingsShowDir
<1>14. CASE EndDir BY <1>14, HeadingsEndDir
<1>15. CASE Return BY <1>15, HeadingsReturn
<1> QED BY <1>6, <1>7, <1>8, <1>9, <1>10, <1>11, <1>12, <1>13, <1>14, <1>15 DEF LsNext, LsMain

(* The calls go through their directories in order.                        *)

\* No node is twice in a chain.
LEMMA BatchOnce ==
  ASSUME NodesInv PROVE Once(Chain(dn))
<1>1. Older(heap, made) /\ Closed(heap, Batch) /\ dn \in Batch \cup {0}
  BY BatchIs DEF NodesInv, HeapOk
<1> HIDE DEF Batch
<1>2. Once(ChainIn(heap, made, dn)) BY <1>1, ChainClosed
<1> QED BY <1>2, ChainIs

\* Of two files with different names one comes first.
LEMMA PrecedesOther ==
  ASSUME NEW s, Sensible(s), NEW a \in TrueDnode, NEW b \in TrueDnode, a.name # b.name,
         ~Precedes(b, a, s)
  PROVE  Precedes(a, b, s)
<1>1. Sortable(a, s) /\ Sortable(b, s) BY DnodeSortable
<1>2. /\ a.name \in Int /\ b.name \in Int /\ SortKey(a, s) \in Int /\ SortKey(b, s) \in Int
  BY <1>1 DEF Sortable
<1> QED BY <1>2 DEF Precedes, Leads

Straight(h, s, ids) == \A i, j \in DOMAIN ids : i < j => Precedes(h[ids[i]], h[ids[j]], s)
Different(h, B) == \A x, y \in B : h[x].name = h[y].name => x = y
AllClose(h, s, B) == \A x, y \in B : Near(h[x], h[y], s)

\* sort_dnodes leaves those that are close, and differ in name, in strict order.
LEMMA SortedStraight ==
  ASSUME NEW T, T \subseteq DOMAIN heap, \A id \in T : heap[id] \in TrueDnode,
         Sensible(c), NEW ids \in Seq(T), Once(ids),
         Different(heap, ToSet(ids)), AllClose(heap, c, ToSet(ids))
  PROVE  Straight(heap, c, Sorted(ids))
<1> DEFINE s == Sorted(ids)
<1>1. s \in Shuffles(ids)
      /\ (Ranked(ToSet(ids), heap, c) => OrderedTo(s, Len(ids), heap, c))
  BY ShellsortSorts DEF Sorted
<1>2. s \in Seq(T) /\ Len(s) = Len(ids) /\ ToSet(s) = ToSet(ids) /\ Once(s) BY SortedIs
<1> HIDE DEF s
<1>3. DOMAIN s = 1..Len(ids) /\ \A k \in DOMAIN s : s[k] \in ToSet(ids) /\ s[k] \in T
  <2>1. \A k \in DOMAIN s : s[k] \in ToSet(s) BY DEF ToSet
  <2>2. DOMAIN s = 1..Len(s) /\ \A k \in DOMAIN s : s[k] \in T BY <1>2
  <2> QED BY <1>2, <2>1, <2>2
<1>4. ToSet(ids) \subseteq T BY DEF ToSet
<1>5. \A x \in ToSet(ids) : Sortable(heap[x], c) BY <1>4, DnodeSortable
<1>6. Ranked(ToSet(ids), heap, c) BY <1>5, NearRanked DEF AllClose
<1>7. ASSUME NEW i \in DOMAIN s, NEW j \in DOMAIN s, i < j
      PROVE  Precedes(heap[s[i]], heap[s[j]], c)
  <2> DEFINE a == heap[s[i]]
             b == heap[s[j]]
  <2>1. Le(s[i], s[j], heap, c) BY <1>1, <1>3, <1>6, <1>7 DEF OrderedTo
  <2>2. Sortcmp(a, b, c) <= 0 BY <2>1 DEF Le
  <2>3. Sortable(a, c) /\ Sortable(b, c) /\ a \in TrueDnode /\ b \in TrueDnode BY <1>3, <1>5
  <2>4. Near(a, b, c) /\ Near(b, a, c) BY <1>3 DEF AllClose
  <2>5. a.name # b.name
    <3>1. i # j
      <4>1. i \in 1..Len(ids) /\ Len(ids) \in Nat BY <1>3
      <4> QED BY <1>7, <4>1
    <3> QED BY <1>2, <1>3, <3>1 DEF Once, Different
  <2> HIDE DEF a, b
  <2>6. ~(IF c.reverse THEN Leads(a, b, c) ELSE Leads(b, a, c)) BY <2>2, <2>3, <2>4, SortcmpIs
  <2>7. ~Precedes(b, a, c) BY <2>6 DEF Precedes
  <2>8. Precedes(a, b, c) BY <2>3, <2>5, <2>7, PrecedesOther
  <2> QED BY <2>8 DEF a, b
<1> QED BY <1>7 DEF Straight, s

\* No directory is named twice, none too far from those next to it.
NamedOnceIn(e, s, g) ==
  \A j, k \in DOMAIN g : j # k /\ g[j] = g[k] => ~EntersIn(e, s, <<g[j]>>)
FileIn(e, s, p) == [name |-> Last(p), dstat |-> InfoIn(e, s, p)]
NoneTooFarIn(e, s, A) ==
  \A q \in DirectoriesIn(e, s, A) \cup {<< >>} :
    \A x, y \in InsideIn(e, s, A, q) :
      EntersIn(e, s, x) /\ EntersIn(e, s, y) => Near(FileIn(e, s, x), FileIn(e, s, y), s)
Orderly == faults = 0 /\ NamedOnceIn(entries, c, cmd.args) /\ NoneTooFarIn(entries, c, Arguments)

\* What a dnode tells of its file, when none has vanished.
LEMMA NodeFile ==
  ASSUME SoundInv, KnownInv, faults = 0, NEW id \in DOMAIN heap
  PROVE  /\ FileIn(entries, c, heap[id].fullname) =
              [name |-> heap[id].name, dstat |-> heap[id].dstat]
         /\ InfoIn(entries, c, heap[id].fullname) = heap[id].dstat
<1>1. heap[id] \in TrueDnode BY DEF SoundInv, NodesInv, HeapOk
<1>2. InfoIn(entries, c, heap[id].fullname) = heap[id].dstat BY DEF KnownInv, TrueInfoIn
<1> QED BY <1>1, <1>2 DEF FileIn, TrueDnode

\* Only name and status matter to the order.
LEMMA SameKeys ==
  ASSUME NEW s, NEW a, NEW b, NEW x, NEW y,
         x.name = a.name, x.dstat = a.dstat, y.name = b.name, y.dstat = b.dstat
  PROVE  (Near(x, y, s) <=> Near(a, b, s)) /\ (Precedes(x, y, s) <=> Precedes(a, b, s))
BY DEF Near, Precedes, Leads, SortKey

\* Dnodes of directories inside q are close to each other,
LEMMA CloseInside ==
  ASSUME SoundInv, KnownInv, Orderly,
         NEW q \in DirectoriesIn(entries, c, Arguments) \cup {<< >>},
         NEW B, B \subseteq DOMAIN heap,
         \A id \in B : /\ heap[id].fullname \in InsideIn(entries, c, Arguments, q)
                       /\ EntersIn(entries, c, heap[id].fullname)
  PROVE  AllClose(heap, c, B)
<1> SUFFICES ASSUME NEW x \in B, NEW y \in B PROVE Near(heap[x], heap[y], c) BY DEF AllClose
<1> DEFINE a == FileIn(entries, c, heap[x].fullname)
           b == FileIn(entries, c, heap[y].fullname)
<1>1. faults = 0 BY DEF Orderly
<1>2. Near(a, b, c) BY DEF Orderly, NoneTooFarIn
<1>3. x \in DOMAIN heap /\ y \in DOMAIN heap OBVIOUS
<1>4. a = [name |-> heap[x].name, dstat |-> heap[x].dstat] BY <1>1, <1>3, NodeFile
<1>5. b = [name |-> heap[y].name, dstat |-> heap[y].dstat] BY <1>1, <1>3, NodeFile
<1> HIDE DEF a, b
<1>6. a.name = heap[x].name /\ a.dstat = heap[x].dstat BY <1>4
<1>7. b.name = heap[y].name /\ b.dstat = heap[y].dstat BY <1>5
<1> QED BY <1>2, <1>6, <1>7, SameKeys

(* Which of two paths comes first.                                         *)

AheadIn(e, s, p, q) ==
  \/ IsStrictPrefix(p, q)
  \/ \E k \in DOMAIN p \cap DOMAIN q :
       /\ SubSeq(p, 1, k - 1) = SubSeq(q, 1, k - 1)
       /\ Precedes(FileIn(e, s, SubSeq(p, 1, k)), FileIn(e, s, SubSeq(q, 1, k)), s)

\* The beginnings of a path.
LEMMA BeginningIs ==
  ASSUME NEW p \in Paths
  PROVE  /\ Len(p) \in Nat /\ DOMAIN p = 1..Len(p) /\ SubSeq(p, 1, Len(p)) = p
         /\ \A k \in 0..Len(p) : /\ SubSeq(p, 1, k) \in Paths /\ Len(SubSeq(p, 1, k)) = k
                                 /\ \A i \in 1..k : SubSeq(p, 1, k)[i] = p[i]
<1>1. p \in Seq(DOMAIN NameLen) BY DEF Paths
<1> QED BY <1>1 DEF Paths

\* Two that agree in all names are the same.
LEMMA SamePath ==
  ASSUME NEW p \in Paths, NEW q \in Paths, Len(p) = Len(q), \A i \in 1..Len(p) : p[i] = q[i]
  PROVE  p = q
<1>1. p \in Seq(DOMAIN NameLen) /\ q \in Seq(DOMAIN NameLen) BY DEF Paths
<1> QED BY <1>1

\* Numbers up to n.
LEMMA NextIndex ==
  ASSUME NEW n \in Nat
  PROVE  /\ \A k \in 1..n : k \in 0..n /\ k - 1 \in 0..n /\ k \in 1..(n + 1)
         /\ \A m \in Nat : m <= n => m \in 0..n /\ m <= n + 1 /\ m # n + 1
         /\ \A m \in Nat : m <= n /\ n <= m => m = n
OBVIOUS

\* A path and the directory that it is in begin alike.
LEMMA ParentIs ==
  ASSUME NEW r \in Paths, r # << >>, NEW q, Front(r) = q
  PROVE  /\ q \in Paths /\ Len(r) = Len(q) + 1
         /\ \A k \in 0..Len(q) : SubSeq(r, 1, k) = SubSeq(q, 1, k)
<1>1. Len(r) \in Nat \ {0} BY DEF Paths
<1> DEFINE n == Len(r) - 1
<1>2. n \in 0..Len(r) /\ Len(r) = n + 1 BY <1>1
<1>3. q = SubSeq(r, 1, n) BY DEF Front
<1> HIDE DEF n
<1>4. q \in Paths /\ Len(q) = n /\ \A i \in 1..n : q[i] = r[i] BY <1>2, <1>3, BeginningIs
<1>5. ASSUME NEW k \in 0..n PROVE SubSeq(r, 1, k) = SubSeq(q, 1, k)
  <2>1. k \in 0..Len(r) /\ k \in 0..Len(q) BY <1>2, <1>4
  <2> DEFINE a == SubSeq(r, 1, k)
             b == SubSeq(q, 1, k)
  <2>2. a \in Paths /\ Len(a) = k /\ \A i \in 1..k : a[i] = r[i] BY <2>1, BeginningIs
  <2>3. b \in Paths /\ Len(b) = k /\ \A i \in 1..k : b[i] = q[i] BY <1>4, <2>1, BeginningIs
  <2>4. \A i \in 1..k : i \in 1..n BY <1>2
  <2> HIDE DEF a, b
  <2>5. \A i \in 1..k : a[i] = b[i] BY <1>4, <2>2, <2>3, <2>4
  <2>6. a = b BY <2>2, <2>3, <2>5, SamePath
  <2> QED BY <2>6 DEF a, b
<1> QED BY <1>2, <1>4, <1>5

\* A file comes after all that its directory comes after, and after its directory;
LEMMA AheadChild ==
  ASSUME NEW e, NEW s, NEW p \in Paths, NEW r \in Paths, r # << >>, NEW q, Front(r) = q,
         p = q \/ AheadIn(e, s, p, q)
  PROVE  AheadIn(e, s, p, r)
<1>1. /\ q \in Paths /\ Len(r) = Len(q) + 1
      /\ \A k \in 0..Len(q) : SubSeq(r, 1, k) = SubSeq(q, 1, k)
  BY ParentIs
<1>2. /\ Len(p) \in Nat /\ Len(q) \in Nat /\ SubSeq(p, 1, Len(p)) = p
      /\ DOMAIN p = 1..Len(p) /\ DOMAIN q = 1..Len(q) /\ DOMAIN r = 1..Len(r)
      /\ SubSeq(q, 1, Len(q)) = q
  BY <1>1, BeginningIs
<1>3. ASSUME Len(p) <= Len(q), SubSeq(p, 1, Len(p)) = SubSeq(q, 1, Len(p))
      PROVE  IsStrictPrefix(p, r)
  <2>1. Len(p) \in 0..Len(q) /\ Len(p) <= Len(r) /\ Len(p) # Len(r)
    BY <1>1, <1>2, <1>3, NextIndex
  <2>2. SubSeq(r, 1, Len(p)) = SubSeq(q, 1, Len(p)) BY <1>1, <2>1
  <2> QED BY <1>3, <2>1, <2>2 DEF IsStrictPrefix, IsPrefix
<1>4. CASE p = q
  <2>1. Len(p) <= Len(q) BY <1>2, <1>4
  <2> QED BY <1>3, <1>4, <2>1 DEF AheadIn
<1>5. CASE IsStrictPrefix(p, q) BY <1>3, <1>5 DEF AheadIn, IsStrictPrefix, IsPrefix
<1>6. ASSUME NEW k \in DOMAIN p \cap DOMAIN q,
             SubSeq(p, 1, k - 1) = SubSeq(q, 1, k - 1),
             Precedes(FileIn(e, s, SubSeq(p, 1, k)), FileIn(e, s, SubSeq(q, 1, k)), s)
      PROVE  AheadIn(e, s, p, r)
  <2>1. k \in 0..Len(q) /\ k - 1 \in 0..Len(q) /\ k \in DOMAIN r BY <1>1, <1>2, NextIndex
  <2>2. SubSeq(r, 1, k) = SubSeq(q, 1, k) /\ SubSeq(r, 1, k - 1) = SubSeq(q, 1, k - 1)
    BY <1>1, <2>1
  <2> QED BY <1>6, <2>1, <2>2 DEF AheadIn
<1> QED BY <1>4, <1>5, <1>6 DEF AheadIn

\* it comes before what its directory comes before, unless that is deeper.
LEMMA ChildAhead ==
  ASSUME NEW e, NEW s, NEW p \in Paths, NEW r \in Paths, r # << >>, NEW q, Front(r) = q,
         AheadIn(e, s, q, p), Len(p) <= Len(q)
  PROVE  AheadIn(e, s, r, p)
<1>1. /\ q \in Paths /\ Len(r) = Len(q) + 1
      /\ \A k \in 0..Len(q) : SubSeq(r, 1, k) = SubSeq(q, 1, k)
  BY ParentIs
<1>2. /\ Len(p) \in Nat /\ Len(q) \in Nat /\ SubSeq(p, 1, Len(p)) = p
      /\ DOMAIN p = 1..Len(p) /\ DOMAIN q = 1..Len(q) /\ DOMAIN r = 1..Len(r)
      /\ SubSeq(q, 1, Len(q)) = q
  BY <1>1, BeginningIs
<1>3. ~IsStrictPrefix(q, p)
  <2> SUFFICES ASSUME IsStrictPrefix(q, p) PROVE FALSE OBVIOUS
  <2>1. Len(q) <= Len(p) /\ SubSeq(q, 1, Len(q)) = SubSeq(p, 1, Len(q)) /\ q # p
    BY DEF IsStrictPrefix, IsPrefix
  <2>2. Len(q) = Len(p) BY <1>2, <2>1, NextIndex
  <2> QED BY <1>2, <2>1, <2>2
<1>4. PICK k \in DOMAIN q \cap DOMAIN p :
        /\ SubSeq(q, 1, k - 1) = SubSeq(p, 1, k - 1)
        /\ Precedes(FileIn(e, s, SubSeq(q, 1, k)), FileIn(e, s, SubSeq(p, 1, k)), s)
  BY <1>3 DEF AheadIn
<1>5. k \in 0..Len(q) /\ k - 1 \in 0..Len(q) /\ k \in DOMAIN r BY <1>1, <1>2, NextIndex
<1>6. SubSeq(r, 1, k) = SubSeq(q, 1, k) /\ SubSeq(r, 1, k - 1) = SubSeq(q, 1, k - 1)
  BY <1>1, <1>5
<1> QED BY <1>4, <1>5, <1>6 DEF AheadIn

\* Two files of one directory.
LEMMA SiblingAhead ==
  ASSUME NEW e, NEW s, NEW p \in Paths, NEW r \in Paths, p # << >>, r # << >>,
         Front(p) = Front(r), Precedes(FileIn(e, s, p), FileIn(e, s, r), s)
  PROVE  AheadIn(e, s, p, r)
<1> DEFINE q == Front(p)
           k == Len(q) + 1
<1>1. q \in Paths /\ Len(p) = k /\ \A j \in 0..Len(q) : SubSeq(p, 1, j) = SubSeq(q, 1, j)
  BY ParentIs
<1>2. Len(r) = k /\ \A j \in 0..Len(q) : SubSeq(r, 1, j) = SubSeq(q, 1, j) BY ParentIs
<1> HIDE DEF q
<1>3. Len(q) \in 0..Len(q) /\ k - 1 = Len(q) /\ k \in 1..k BY <1>1, BeginningIs
<1>4. k \in DOMAIN p \cap DOMAIN r /\ SubSeq(p, 1, k) = p /\ SubSeq(r, 1, k) = r
  BY <1>1, <1>2, <1>3, BeginningIs
<1>5. SubSeq(p, 1, k - 1) = SubSeq(r, 1, k - 1) BY <1>1, <1>2, <1>3
<1> HIDE DEF k
<1> QED BY <1>4, <1>5 DEF AheadIn

\* The directory above the arguments comes first.
LEMMA RootAhead ==
  ASSUME NEW e, NEW s, NEW r \in Paths, r # << >>
  PROVE  AheadIn(e, s, << >>, r)
<1>1. Len(r) \in Nat /\ SubSeq(r, 1, 0) = << >>
  <2>1. r \in Seq(DOMAIN NameLen) BY DEF Paths
  <2> QED BY <2>1
<1>2. Len(<< >>) = 0 /\ SubSeq(<< >>, 1, 0) = << >> OBVIOUS
<1> QED BY <1>1, <1>2 DEF AheadIn, IsStrictPrefix, IsPrefix

(* The order of the calls.                                                 *)

\* Place j of call k is to be entered, after those that the calls are at, or now.
Coming(st, k, j) == k \in 1..Len(st) /\ j \in DOMAIN st[k].dn /\ j > st[k].i
Waits(st, k, j) ==
  /\ k \in 1..Len(st) /\ j \in DOMAIN st[k].dn
  /\ j > st[k].i \/ (k = Len(st) /\ j = st[k].i)
PathAt(h, st, k, j) == h[st[k].dn[j]].fullname
ComingIn(h, st, p) == \E k, j : Coming(st, k, j) /\ p = PathAt(h, st, k, j)

\* Deeper calls come first, and each goes on from left to right.
OrderedIn(e, s, h, st) ==
  \A k, j, m, l :
    Waits(st, k, j) /\ Waits(st, m, l) /\ (m < k \/ (m = k /\ j < l)) =>
      AheadIn(e, s, PathAt(h, st, k, j), PathAt(h, st, m, l))

\* The calls st are followed by st2.
Goes(st, st2) ==
  \A k, j : Waits(st2, k, j) /\ k <= Len(st) =>
    Coming(st, k, j) /\ st2[k].dn[j] = st[k].dn[j]

\* What is awaited has its place in a call,
LEMMA AwaitedWaits ==
  ASSUME NEW h, NEW st \in Seq(FrameType), NEW p
  PROVE  AwaitedIn(h, st, p) => \E k, j : Waits(st, k, j) /\ p = PathAt(h, st, k, j)
<1> SUFFICES ASSUME AwaitedIn(h, st, p)
             PROVE  \E k, j : Waits(st, k, j) /\ p = PathAt(h, st, k, j)
  OBVIOUS
<1>0. PICK k \in 1..Len(st) :
        \E j \in DOMAIN st[k].dn :
          j >= st[k].i /\ (k < Len(st) => j > st[k].i) /\ p = h[st[k].dn[j]].fullname
  BY DEF AwaitedIn
<1>1. PICK j \in DOMAIN st[k].dn :
        j >= st[k].i /\ (k < Len(st) => j > st[k].i) /\ p = h[st[k].dn[j]].fullname
  BY <1>0
<1>2. st[k] \in FrameType /\ Len(st) \in Nat OBVIOUS
<1>3. st[k].i \in Nat /\ j \in Nat BY <1>2 DEF FrameType
<1>4. Waits(st, k, j)
  <2>1. CASE j > st[k].i BY <2>1 DEF Waits, Coming
  <2>2. CASE ~(j > st[k].i)
    <3>1. j = st[k].i BY <1>1, <1>3, <2>2
    <3>2. k = Len(st) BY <1>1, <1>2, <2>2
    <3> QED BY <3>1, <3>2 DEF Waits
  <2> QED BY <2>1, <2>2
<1> QED BY <1>1, <1>4 DEF PathAt

\* and what is to come is awaited.
LEMMA ComingAwaited ==
  ASSUME NEW h, NEW st \in Seq(FrameType), NEW p, ComingIn(h, st, p)
  PROVE  AwaitedIn(h, st, p)
<1>1. PICK k, j : Coming(st, k, j) /\ p = PathAt(h, st, k, j) BY DEF ComingIn
<1>2. k \in 1..Len(st) /\ j \in DOMAIN st[k].dn /\ j > st[k].i BY <1>1 DEF Coming
<1>3. st[k] \in FrameType BY <1>2
<1>4. st[k].i \in Nat /\ j \in Nat BY <1>2, <1>3 DEF FrameType
<1>5. j >= st[k].i BY <1>2, <1>4
<1> QED BY <1>1, <1>2, <1>5 DEF AwaitedIn, PathAt

\* What is awaited after a step from st was to come, or is of a new call.
LEMMA GoesOn ==
  ASSUME NEW st \in Seq(FrameType), NEW st2 \in Seq(FrameType), Goes(st, st2),
         NEW h, NEW p, AwaitedIn(h, st2, p)
  PROVE  \/ ComingIn(h, st, p)
         \/ Len(st2) > Len(st) /\ \E k, j : k > Len(st) /\ Waits(st2, k, j) /\ p = PathAt(h, st2, k, j)
<1>1. PICK k, j : Waits(st2, k, j) /\ p = PathAt(h, st2, k, j) BY AwaitedWaits
<1>2. k \in 1..Len(st2) \/ k = Len(st2) BY <1>1 DEF Waits, Coming
<1>3. Len(st) \in Nat /\ Len(st2) \in Nat /\ k \in Nat /\ k <= Len(st2) BY <1>2
<1>4. CASE k <= Len(st)
  <2>1. Coming(st, k, j) /\ st2[k].dn[j] = st[k].dn[j] BY <1>1, <1>4 DEF Goes
  <2> QED BY <1>1, <2>1 DEF ComingIn, PathAt
<1>5. CASE k > Len(st)
  <2>1. Len(st2) > Len(st) BY <1>3, <1>5
  <2> QED BY <1>1, <1>5, <2>1
<1> QED BY <1>3, <1>4, <1>5

\* A call goes on to its next directory,
LEMMA NextDirGoes ==
  ASSUME NEW st \in Seq(FrameType), st # << >>
  PROVE  NextDir(st) \in Seq(FrameType) /\ Goes(st, NextDir(st)) /\ Len(NextDir(st)) = Len(st)
<1> DEFINE s == NextDir(st)
           n == Len(st)
<1>1. /\ n \in Nat \ {0} /\ s \in Seq(FrameType) /\ Len(s) = n
      /\ \A k \in 1..(n - 1) : s[k] = st[k]
      /\ s[n].dn = st[n].dn /\ s[n].i = st[n].i + 1
  BY NextDirIs
<1> HIDE DEF s
<1>2. st[n] \in FrameType BY <1>1
<1>3. st[n].i \in Nat /\ DOMAIN st[n].dn \subseteq Nat BY <1>2 DEF FrameType
<1> HIDE DEF n
<1>4. ASSUME NEW k, NEW j, Waits(s, k, j)
      PROVE  Coming(st, k, j) /\ s[k].dn[j] = st[k].dn[j]
  <2>1. CASE k \in 1..(n - 1)
    <3>1. s[k] = st[k] /\ k # n /\ k \in 1..n BY <1>1, <2>1
    <3> QED BY <1>1, <1>4, <3>1 DEF Waits, Coming, n
  <2>2. CASE k = n
    <3>1. n \in 1..n /\ j \in DOMAIN st[n].dn /\ (j > st[n].i + 1 \/ j = st[n].i + 1)
      BY <1>1, <1>4, <2>2 DEF Waits, Coming
    <3>2. j > st[n].i BY <1>3, <3>1
    <3> QED BY <1>1, <2>2, <3>1, <3>2 DEF Coming, n
  <2>3. k \in 1..n BY <1>1, <1>4 DEF Waits, Coming
  <2> QED BY <1>1, <2>1, <2>2, <2>3
<1> QED BY <1>1, <1>4 DEF Goes, s, n

\* calls itself,
LEMMA PushGoes ==
  ASSUME NEW st \in Seq(FrameType), NEW sub, NEW g, NEW s, PushedAs(st, sub, g, s)
  PROVE  Goes(st, s)
<1>1. /\ s \in Seq(FrameType) /\ Len(s) = Len(st) + 1
      /\ \A k \in 1..Len(st) : s[k].dn = st[k].dn /\ s[k].i = st[k].i
  BY DEF PushedAs
<1>2. Len(st) \in Nat OBVIOUS
<1>3. ASSUME NEW k, NEW j, Waits(s, k, j), k <= Len(st)
      PROVE  Coming(st, k, j) /\ s[k].dn[j] = st[k].dn[j]
  <2>1. k # Len(s) /\ (k \in 1..Len(s) => k \in 1..Len(st)) BY <1>1, <1>2, <1>3
  <2>2. Coming(s, k, j) BY <1>3, <2>1 DEF Waits, Coming
  <2> QED BY <1>1, <2>1, <2>2 DEF Coming
<1> QED BY <1>3 DEF Goes

\* or returns to its caller.
LEMMA PopGoes ==
  ASSUME NEW h, NEW st, StackOk(h, st), Len(st) > 1
  PROVE  LET s == NextDir(Front(st))
         IN s \in Seq(FrameType) /\ Goes(st, s) /\ Len(s) = Len(st) - 1
<1> DEFINE t == Front(st)
           s == NextDir(t)
           n == Len(st)
<1>1. StackOk(h, t) /\ Len(t) = n - 1 /\ t # << >> /\ \A k \in 1..(n - 1) : t[k] = st[k] BY PopOk
<1>2. st \in Seq(FrameType) /\ t \in Seq(FrameType) /\ n \in Nat BY <1>1 DEF StackOk
<1> HIDE DEF t
<1>3. s \in Seq(FrameType) /\ Goes(t, s) /\ Len(s) = n - 1 BY <1>1, <1>2, NextDirGoes
<1> HIDE DEF s
<1>4. ASSUME NEW k, NEW j, Waits(s, k, j)
      PROVE  Coming(st, k, j) /\ s[k].dn[j] = st[k].dn[j]
  <2>1. k \in 1..Len(s) \/ k = Len(s) BY <1>4 DEF Waits, Coming
  <2>2. k <= Len(t) BY <1>1, <1>2, <1>3, <2>1
  <2>3. Coming(t, k, j) /\ s[k].dn[j] = t[k].dn[j] BY <1>3, <1>4, <2>2 DEF Goes
  <2>4. k \in 1..(n - 1) /\ k \in 1..n BY <1>1, <1>2, <2>3 DEF Coming
  <2> QED BY <1>1, <2>3, <2>4 DEF Coming
<1> QED BY <1>3, <1>4 DEF Goes, s, t

\* Calls remain in order when their nodes are kept,
LEMMA OrderedKept ==
  ASSUME NEW e, NEW s, NEW h, NEW st, StackOk(h, st), OrderedIn(e, s, h, st),
         NEW h2, \A k \in 1..Len(st) : Kept(h, h2, Level(h, k))
  PROVE  OrderedIn(e, s, h2, st)
<1>1. ASSUME NEW k, NEW j, Waits(st, k, j) PROVE PathAt(h2, st, k, j) = PathAt(h, st, k, j)
  <2>1. k \in 1..Len(st) /\ j \in DOMAIN st[k].dn BY <1>1 DEF Waits
  <2>2. st[k].dn[j] \in Level(h, k) BY <2>1 DEF StackOk, FrameOk, ToSet
  <2> QED BY <2>1, <2>2 DEF Kept, PathAt
<1> QED BY <1>1 DEF OrderedIn

\* when the innermost one goes on or returns,
LEMMA OrderedGoes ==
  ASSUME NEW e, NEW s, NEW h, NEW st \in Seq(FrameType), OrderedIn(e, s, h, st),
         NEW st2 \in Seq(FrameType), Goes(st, st2), Len(st2) <= Len(st)
  PROVE  OrderedIn(e, s, h, st2)
<1>1. Len(st) \in Nat /\ Len(st2) \in Nat OBVIOUS
<1>2. ASSUME NEW k, NEW j, Waits(st2, k, j)
      PROVE  Waits(st, k, j) /\ PathAt(h, st2, k, j) = PathAt(h, st, k, j)
  <2>1. k \in 1..Len(st2) BY <1>2 DEF Waits
  <2>2. k <= Len(st) BY <1>1, <2>1
  <2>3. Coming(st, k, j) /\ st2[k].dn[j] = st[k].dn[j] BY <1>2, <2>2 DEF Goes
  <2> QED BY <2>3 DEF Coming, Waits, PathAt
<1> QED BY <1>2 DEF OrderedIn

\* The directory that the innermost call is at comes before all others.
LEMMA TopAhead ==
  ASSUME NEW e, NEW s, NEW h, NEW st \in Seq(FrameType), OrderedIn(e, s, h, st),
         st # << >>, st[Len(st)].i \in DOMAIN st[Len(st)].dn
  PROVE  /\ \A p : ComingIn(h, st, p) => AheadIn(e, s, AtTop(h, st), p)
         /\ AwaitedIn(h, st, AtTop(h, st))
<1> DEFINE n == Len(st)
           i == st[n].i
<1>1. n \in 1..Len(st) /\ st[n] \in FrameType /\ n \in Nat /\ ~(n < Len(st)) OBVIOUS
<1>2. i \in Nat /\ DOMAIN st[n].dn \subseteq Nat /\ i \in DOMAIN st[n].dn BY <1>1 DEF FrameType
<1>3. Waits(st, n, i) /\ AtTop(h, st) = PathAt(h, st, n, i) BY <1>1 DEF Waits, AtTop, PathAt
<1>4. ASSUME NEW p, ComingIn(h, st, p) PROVE AheadIn(e, s, AtTop(h, st), p)
  <2>1. PICK k, j : Coming(st, k, j) /\ p = PathAt(h, st, k, j) BY <1>4 DEF ComingIn
  <2>2. k \in 1..n /\ j \in DOMAIN st[k].dn /\ j > st[k].i /\ Waits(st, k, j)
    BY <2>1 DEF Coming, Waits
  <2>3. k < n \/ (k = n /\ i < j) BY <1>1, <1>2, <2>2
  <2> QED BY <1>3, <2>1, <2>2, <2>3 DEF OrderedIn
<1>5. AwaitedIn(h, st, AtTop(h, st))
  <2>1. i >= st[n].i BY <1>2
  <2> QED BY <1>1, <1>2, <2>1 DEF AwaitedIn, AtTop
<1> QED BY <1>4, <1>5

\* and when it calls itself for directories that come before all those to come.
LEMMA OrderedPush ==
  ASSUME NEW e, NEW s, NEW h, NEW st \in Seq(FrameType), OrderedIn(e, s, h, st),
         NEW sub, NEW g, NEW st2, PushedAs(st, sub, g, st2), g.i = 1,
         \A id \in ToSet(g.dn) : \A p : ComingIn(h, st, p) => AheadIn(e, s, h[id].fullname, p),
         \A i, j \in DOMAIN g.dn : i < j => AheadIn(e, s, h[g.dn[i]].fullname, h[g.dn[j]].fullname)
  PROVE  OrderedIn(e, s, h, st2)
<1> DEFINE n == Len(st)
<1>1. /\ st2 \in Seq(FrameType) /\ Len(st2) = n + 1 /\ st2[n + 1] = g /\ n \in Nat
      /\ Goes(st, st2)
  BY PushGoes DEF PushedAs
<1>2. ASSUME NEW k, NEW j, Waits(st2, k, j), k <= n
      PROVE  /\ Coming(st, k, j) /\ Waits(st, k, j) /\ PathAt(h, st2, k, j) = PathAt(h, st, k, j)
             /\ ComingIn(h, st, PathAt(h, st2, k, j))
  <2>1. Coming(st, k, j) /\ st2[k].dn[j] = st[k].dn[j] BY <1>1, <1>2 DEF Goes
  <2>2. PathAt(h, st2, k, j) = PathAt(h, st, k, j) BY <2>1 DEF PathAt
  <2> QED BY <2>1, <2>2 DEF Coming, Waits, ComingIn
<1>3. ASSUME NEW k, NEW j, Waits(st2, k, j), ~(k <= n)
      PROVE  k = n + 1 /\ j \in DOMAIN g.dn /\ PathAt(h, st2, k, j) = h[g.dn[j]].fullname
  <2>1. k \in 1..(n + 1) /\ j \in DOMAIN st2[k].dn BY <1>1, <1>3 DEF Waits
  <2>2. k = n + 1 BY <1>1, <1>3, <2>1
  <2> QED BY <1>1, <2>1, <2>2 DEF PathAt
<1> SUFFICES ASSUME NEW k, NEW j, NEW m, NEW l, Waits(st2, k, j), Waits(st2, m, l),
                    m < k \/ (m = k /\ j < l)
             PROVE  AheadIn(e, s, PathAt(h, st2, k, j), PathAt(h, st2, m, l))
  BY DEF OrderedIn
<1>4. k \in 1..(n + 1) /\ m \in 1..(n + 1) BY <1>1 DEF Waits
<1>5. CASE k <= n
  <2>1. m <= n BY <1>1, <1>4, <1>5
  <2> QED BY <1>2, <1>5, <2>1 DEF OrderedIn
<1>6. CASE ~(k <= n)
  <2>1. k = n + 1 /\ j \in DOMAIN g.dn /\ PathAt(h, st2, k, j) = h[g.dn[j]].fullname BY <1>3, <1>6
  <2>2. CASE m <= n
    <3>1. g.dn[j] \in ToSet(g.dn) BY <2>1 DEF ToSet
    <3> QED BY <1>2, <2>1, <2>2, <3>1
  <2>3. CASE ~(m <= n)
    <3>1. m = n + 1 /\ l \in DOMAIN g.dn /\ PathAt(h, st2, m, l) = h[g.dn[l]].fullname
      BY <1>3, <2>3
    <3>2. j < l BY <1>1, <2>1, <3>1
    <3> QED BY <2>1, <3>1, <3>2
  <2> QED BY <2>2, <2>3
<1> QED BY <1>5, <1>6

\* Directories of one directory in their order.
LEMMA SiblingsAhead ==
  ASSUME SoundInv, KnownInv, faults = 0, NEW ids, ToSet(ids) \subseteq DOMAIN heap,
         Straight(heap, c, ids), NEW q, \A id \in ToSet(ids) : Front(heap[id].fullname) = q
  PROVE  \A i, j \in DOMAIN ids :
           i < j => AheadIn(entries, c, heap[ids[i]].fullname, heap[ids[j]].fullname)
<1> SUFFICES ASSUME NEW i \in DOMAIN ids, NEW j \in DOMAIN ids, i < j
             PROVE  AheadIn(entries, c, heap[ids[i]].fullname, heap[ids[j]].fullname)
  OBVIOUS
<1> DEFINE x == ids[i]
           y == ids[j]
           p == heap[x].fullname
           r == heap[y].fullname
           a == FileIn(entries, c, p)
           b == FileIn(entries, c, r)
<1>1. x \in ToSet(ids) /\ y \in ToSet(ids) BY DEF ToSet
<1>2. x \in DOMAIN heap /\ y \in DOMAIN heap BY <1>1
<1>3. Precedes(heap[x], heap[y], c) BY DEF Straight
<1>4. a = [name |-> heap[x].name, dstat |-> heap[x].dstat] BY <1>2, NodeFile
<1>5. b = [name |-> heap[y].name, dstat |-> heap[y].dstat] BY <1>2, NodeFile
<1>6. p \in Paths /\ p # << >> /\ r \in Paths /\ r # << >>
  <2>1. heap[x] \in TrueDnode /\ heap[y] \in TrueDnode BY <1>2 DEF SoundInv, NodesInv, HeapOk
  <2> QED BY <2>1 DEF TrueDnode, DnodeType
<1>7. Front(p) = Front(r) BY <1>1
<1> HIDE DEF a, b
<1>8. /\ a.name = heap[x].name /\ a.dstat = heap[x].dstat
      /\ b.name = heap[y].name /\ b.dstat = heap[y].dstat
  BY <1>4, <1>5
<1>9. Precedes(a, b, c) BY <1>3, <1>8, SameKeys
<1> HIDE DEF x, y, p, r
<1>10. AheadIn(entries, c, p, r) BY <1>6, <1>7, <1>9, SiblingAhead DEF a, b
<1> QED BY <1>10 DEF p, r, x, y

\* No two dnodes of a directory have the same name.
LEMMA ReadDifferent ==
  ASSUME SoundInv, NamesInv, pc = "readdir"
  PROVE  Different(heap, Batch)
<1> USE DEF SoundInv
<1>1. BatchNamed(c, heap, Batch, Path, dir) BY DEF NamesInv
<1>2. Path \in Paths /\ dir.ino \in DOMAIN Entries
  <2>1. stack # << >> /\ Top.i <= Len(Top.dn) BY DEF NodesInv
  <2> QED BY <2>1, AtDirectory DEF FilesInv
<1>3. DOMAIN Entries[dir.ino] \subseteq DOMAIN NameLen BY <1>2, InodeConstants
<1>4. ASSUME NEW x \in Batch PROVE heap[x].fullname = Append(Path, heap[x].name)
  <2>1. PICK n \in DOMAIN Entries[dir.ino] : heap[x].fullname = Append(Path, n)
    BY <1>1 DEF BatchNamed
  <2>2. heap[x].name = Last(Append(Path, n)) BY <2>1, BatchTrue DEF TrueDnode
  <2> DEFINE q == Path
  <2>3. q \in Seq(DOMAIN NameLen) /\ n \in DOMAIN NameLen BY <1>2, <1>3 DEF Paths
  <2> HIDE DEF q
  <2>4. Last(Append(q, n)) = n BY <2>3 DEF Last
  <2> QED BY <2>1, <2>2, <2>4 DEF q
<1> QED BY <1>1, <1>4 DEF BatchNamed, Single, Different

\* A subdirectory that has been read is to be entered, with -R.
LEMMA SubdirEnters ==
  ASSUME SoundInv, KnownInv, faults = 0, pc = "readdir", "RECURSIVE" \in c.disp,
         NEW id \in Batch \cap Subdirs
  PROVE  EntersIn(entries, c, heap[id].fullname)
<1> USE DEF SoundInv
<1>1. id \in DOMAIN heap /\ heap[id] \in TrueDnode BY BatchTrue
<1>2. InfoIn(entries, c, heap[id].fullname) = heap[id].dstat BY <1>1, NodeFile
<1>3. heap[id].dstat.type = "dir" /\ heap[id].name \notin {Dot, DotDot} BY DEF Subdirs, Dirs
<1>4. heap[id].name = Last(heap[id].fullname) BY <1>1 DEF TrueDnode
<1>5. Len(heap[id].fullname) # 1
  <2>1. stack # << >> /\ Top.i <= Len(Top.dn) BY DEF NodesInv
  <2>2. Len(stack) \in Nat \ {0} BY <2>1, AtDirectory
  <2>3. Len(heap[id].fullname) = Len(stack) + 1 BY BatchIs DEF Level, BatchLevel
  <2> QED BY <2>2, <2>3
<1> QED BY <1>2, <1>3, <1>4, <1>5 DEF EntersIn

\* The calls after a directory has been read: the new one goes through its
\* subdirectories in their order.
LEMMA EndDirFrame ==
  ASSUME SoundInv, KnownInv, EnteredInv, FailInv, ReadingInv, NamesInv, Orderly, EndDir
  PROVE  \/ Finished(heap, heap', stack, stack')
         \/ /\ heap' = heap
            /\ \E sub, g : /\ PushedAs(stack, sub, g, stack') /\ g.i = 1
                           /\ ToSet(g.dn) \subseteq Batch /\ Straight(heap, c, g.dn)
<1> USE DEF SoundInv
<1> SUFFICES ASSUME ~Finished(heap, heap', stack, stack')
             PROVE  heap' = heap /\ \E sub, g : /\ PushedAs(stack, sub, g, stack') /\ g.i = 1
                           /\ ToSet(g.dn) \subseteq Batch /\ Straight(heap, c, g.dn)
  OBVIOUS
<1>1. /\ pc = "readdir" /\ dir.left = {} /\ heap' = heap /\ "RECURSIVE" \in c.disp
      /\ Descended(heap, heap', stack, stack', Batch \cap Subdirs)
  BY EndDirDoes DEF OptionsInv, Descended
<1>2. PICK sub, g : /\ Pushable(heap, stack, sub, g) /\ stack' = Push(stack, sub, g)
                    /\ ToSet(g.dn) = Batch \cap Subdirs
  BY <1>1 DEF Descended
<1>3. PushedAs(stack, sub, g, stack') /\ g.i = 1 BY <1>2, PushIs DEF Pushable
<1> DEFINE s == Sorted(Chain(dn))
           ids == Keep(s, Subdirs)
           n == Len(stack)
<1>4. s # << >> /\ g = Frame(ids)
  <2>1. n \in Nat /\ stack' # NextDir(stack)
    <3>1. stack \in Seq(FrameType) /\ stack # << >> BY <1>1 DEF NodesInv, StackOk
    <3>2. Len(NextDir(stack)) = n BY <3>1, NextDirGoes
    <3>3. Len(stack') = n + 1 /\ n \in Nat BY <1>3, <3>1 DEF PushedAs
    <3> QED BY <3>2, <3>3
  <2>2. s # << >> /\ stack' = Append([stack EXCEPT ![n].sub = s], Frame(ids))
    BY <2>1 DEF EndDir
  <2> DEFINE t == [stack EXCEPT ![n].sub = s]
             f == Frame(ids)
  <2>3. stack' = Append(t, f) /\ Len(t) = n BY <2>2
  <2> HIDE DEF t, f, n
  <2>4. Append(t, f)[n + 1] = f BY <2>1, <2>3
  <2>5. stack'[n + 1] = g BY <1>3 DEF PushedAs, n
  <2> QED BY <2>2, <2>3, <2>4, <2>5 DEF f
<1>5. Chain(dn) \in Seq(Batch) /\ Once(Chain(dn)) BY BatchIs, BatchOnce
<1>6. s \in Seq(Batch) /\ Once(s) /\ ToSet(s) = Batch
  BY <1>5, SortedIs DEF Batch
<1> HIDE DEF s
<1>7. ids \in Seq(Subdirs \cap Batch) /\ ToSet(ids) = Batch \cap Subdirs /\ Once(ids)
  BY <1>6, KeepIs
<1> HIDE DEF ids
<1>8. Straight(heap, c, Sorted(ids))
  <2> DEFINE B == Batch \cap Subdirs
  <2>1. B \subseteq DOMAIN heap /\ \A id \in B : heap[id] \in TrueDnode BY BatchTrue
  <2>2. ids \in Seq(B) /\ ToSet(ids) = B
    <3>1. Subdirs \cap Batch = B OBVIOUS
    <3> QED BY <1>7, <3>1
  <2>3. Different(heap, B) BY <1>1, ReadDifferent DEF Different
  <2>4. AllClose(heap, c, B)
    <3> DEFINE q == Path
    <3>1. stack # << >> /\ Top.i <= Len(Top.dn) /\ faults = 0 BY <1>1 DEF NodesInv, Orderly
    <3>2. q \in DirectoriesIn(entries, c, Arguments) /\ q \in Paths /\ q # << >>
      BY <3>1, PathWanted
    <3>3. Fullnames(heap, Batch) = InsideIn(entries, c, Arguments, q)
      BY <1>1, <3>1, <3>2, ReadBatch
    <3>4. \A id \in B : /\ heap[id].fullname \in InsideIn(entries, c, Arguments, q)
                        /\ EntersIn(entries, c, heap[id].fullname)
      BY <1>1, <3>1, <3>3, SubdirEnters DEF Fullnames
    <3> HIDE DEF q, B
    <3> QED BY <2>1, <3>2, <3>4, CloseInside
  <2>5. Sensible(c) BY DEF OptionsInv
  <2> HIDE DEF B
  <2> QED BY <1>7, <2>1, <2>2, <2>3, <2>4, <2>5, SortedStraight
<1>9. g.dn = Sorted(ids) BY <1>4 DEF Frame
<1> QED BY <1>1, <1>2, <1>3, <1>8, <1>9

\* A directory among the arguments is to be entered, without -d.
LEMMA ArgumentEnters ==
  ASSUME SoundInv, KnownInv, faults = 0, pc = "args", "NOLIST" \notin c.disp,
         NEW id \in Batch \cap Dirs
  PROVE  EntersIn(entries, c, heap[id].fullname)
<1> USE DEF SoundInv
<1>1. id \in DOMAIN heap BY BatchTrue
<1>2. InfoIn(entries, c, heap[id].fullname) = heap[id].dstat BY <1>1, NodeFile
<1>3. heap[id].dstat.type = "dir" BY DEF Dirs
<1>4. Len(heap[id].fullname) = 1 BY BatchIs DEF Level, BatchLevel
<1> QED BY <1>2, <1>3, <1>4 DEF EntersIn

\* No two of them have the same name, if no directory is named twice.
LEMMA ArgsDifferent ==
  ASSUME SoundInv, KnownInv, NamesInv, Orderly, pc = "args", "NOLIST" \notin c.disp
  PROVE  Different(heap, Batch \cap Dirs)
<1> USE DEF SoundInv
<1> DEFINE g == AllArgs
<1>1. ArgsNamed(heap, Batch, g, args) BY DEF NamesInv
<1>2. faults = 0 BY DEF Orderly
<1>3. ASSUME NEW x \in Batch PROVE heap[x].fullname = <<heap[x].name>>
  <2>1. PICK k \in 1..(Len(g) - Len(args)) : heap[x].fullname = <<g[k]>> BY <1>1 DEF ArgsNamed
  <2>2. heap[x].name = Last(<<g[k]>>) BY <2>1, BatchTrue DEF TrueDnode
  <2> HIDE DEF g
  <2>3. Last(<<g[k]>>) = g[k] BY DEF Last
  <2> QED BY <2>1, <2>2, <2>3
<1>4. ASSUME NEW p, Twice(g, p) PROVE ~EntersIn(entries, c, p)
  <2>1. CASE cmd.args = << >>
    <3>1. g = <<Dot>> BY <2>1 DEF AllArgs
    <3>2. DOMAIN g = {1} BY <3>1
    <3> QED BY <1>4, <3>2 DEF Twice
  <2>2. CASE cmd.args # << >>
    <3>1. g = cmd.args BY <2>2 DEF AllArgs
    <3>2. NamedOnceIn(entries, c, g) BY <3>1 DEF Orderly
    <3> HIDE DEF g
    <3> QED BY <1>4, <3>2 DEF Twice, NamedOnceIn
  <2> QED BY <2>1, <2>2
<1>5. ASSUME NEW x \in Batch \cap Dirs, NEW y \in Batch \cap Dirs, heap[x].name = heap[y].name
      PROVE  x = y
  <2>1. heap[x].fullname = heap[y].fullname BY <1>3, <1>5
  <2>2. x = y \/ Twice(g, heap[x].fullname) BY <1>1, <2>1 DEF ArgsNamed
  <2>3. EntersIn(entries, c, heap[x].fullname) BY <1>2, ArgumentEnters
  <2> QED BY <1>4, <2>2, <2>3
<1> QED BY <1>5 DEF Different

\* The first call goes through the directories among the arguments in their order.
LEMMA ArgumentsFrame ==
  ASSUME SoundInv, KnownInv, NamesInv, ArgsInv, Orderly, ArgumentsDone
  PROVE  \/ stack' = << >>
         \/ \E g : /\ stack' = <<g>> /\ g \in FrameType /\ g.i = 1
                   /\ ToSet(g.dn) \subseteq Batch /\ Straight(heap, c, g.dn)
<1> USE DEF SoundInv
<1>1. pc = "args" /\ args = << >> /\ stack = << >> BY ArgumentsDoes DEF OptionsInv
<1> DEFINE ids == Keep(Chain(dn), Dirs)
           f == Frame(ids)
<1>2. stack' = << >> \/ ("NOLIST" \notin c.disp /\ stack' = <<f>>)
  BY <1>1 DEF ArgumentsDone
<1> SUFFICES ASSUME "NOLIST" \notin c.disp
             PROVE  /\ f \in FrameType /\ f.i = 1
                    /\ ToSet(f.dn) \subseteq Batch /\ Straight(heap, c, f.dn)
  BY <1>2
<1>3. Chain(dn) \in Seq(Batch) /\ Once(Chain(dn)) /\ ToSet(Chain(dn)) = Batch
  BY BatchIs, BatchOnce DEF Batch
<1>4. Batch \subseteq DOMAIN heap /\ \A id \in Batch : heap[id] \in TrueDnode BY BatchTrue
<1>5. Batch \subseteq Nat BY <1>4 DEF NodesInv, HeapOk, Older
<1>6. f \in FrameType /\ f.i = 1 /\ ToSet(f.dn) = ToSet(Chain(dn)) \cap Dirs BY <1>3, <1>5, FrameIs
<1>7. ids \in Seq(Dirs \cap Batch) /\ ToSet(ids) = Batch \cap Dirs /\ Once(ids) BY <1>3, KeepIs
<1>8. f.dn = Sorted(ids) BY DEF Frame
<1> HIDE DEF ids, f
<1>9. Straight(heap, c, Sorted(ids))
  <2> DEFINE B == Batch \cap Dirs
  <2>1. B \subseteq DOMAIN heap /\ \A id \in B : heap[id] \in TrueDnode BY <1>4
  <2>2. ids \in Seq(B) /\ ToSet(ids) = B
    <3>1. Dirs \cap Batch = B OBVIOUS
    <3> QED BY <1>7, <3>1
  <2>3. Different(heap, B) BY <1>1, ArgsDifferent
  <2>4. AllClose(heap, c, B)
    <3>1. faults = 0 BY DEF Orderly
    <3>2. Fullnames(heap, Batch) = InsideIn(entries, c, Arguments, << >>)
      BY <1>1, <3>1, ArgsBatch
    <3>3. \A id \in B : /\ heap[id].fullname \in InsideIn(entries, c, Arguments, << >>)
                        /\ EntersIn(entries, c, heap[id].fullname)
      BY <1>1, <3>1, <3>2, ArgumentEnters DEF Fullnames
    <3> HIDE DEF B
    <3> QED BY <2>1, <3>3, CloseInside
  <2>5. Sensible(c) BY DEF OptionsInv
  <2> HIDE DEF B
  <2> QED BY <1>7, <2>1, <2>2, <2>3, <2>4, <2>5, SortedStraight
<1> QED BY <1>3, <1>6, <1>8, <1>9

(* The order of the output.                                                *)

Follows(e, s, o, x) ==
  \/ AheadIn(e, s, AboutItem(o), AboutItem(x))
  \/ AboutItem(o) = AboutItem(x) /\ o.files = << >> /\ x.files # << >>
OutOrdered(e, s, o) == \A j, k \in DOMAIN o : j < k => Follows(e, s, o[j], o[k])
\* All that has been printed comes before what is awaited, before what is to come,
BeforeAll(e, s, o, h, st) ==
  \A k \in DOMAIN o : \A p : AwaitedIn(h, st, p) => AheadIn(e, s, AboutItem(o[k]), p)
BeforeComing(e, s, o, h, st) ==
  \A k \in DOMAIN o : \A p : ComingIn(h, st, p) => AheadIn(e, s, AboutItem(o[k]), p)
\* and before the listing of the directory that is being read.
BeforePath(e, s, o, q) ==
  \A k \in DOMAIN o :
    AheadIn(e, s, AboutItem(o[k]), q) \/ (AboutItem(o[k]) = q /\ o[k].files = << >>)
OrderInv ==
  Orderly =>
    /\ OutOrdered(entries, c, out) /\ OrderedIn(entries, c, heap, stack)
    /\ pc = "showdirs" => BeforeAll(entries, c, out, heap, stack)
    /\ pc = "readdir" => /\ BeforeComing(entries, c, out, heap, stack)
                         /\ BeforePath(entries, c, out, Path)

\* One more item.
LEMMA OneMore ==
  ASSUME NEW T, NEW o \in Seq(T), NEW x
  PROVE  /\ DOMAIN Append(o, x) = DOMAIN o \cup {Len(o) + 1}
         /\ Append(o, x)[Len(o) + 1] = x /\ \A k \in DOMAIN o : Append(o, x)[k] = o[k]
         /\ DOMAIN o = 1..Len(o) /\ Len(o) \in Nat
OBVIOUS

\* The output remains in order with an item that follows all others,
LEMMA OutOrderedGrows ==
  ASSUME NEW e, NEW s, NEW T, NEW o \in Seq(T), OutOrdered(e, s, o), NEW x,
         \A k \in DOMAIN o : Follows(e, s, o[k], x)
  PROVE  OutOrdered(e, s, Append(o, x))
<1> DEFINE a == Append(o, x)
           n == Len(o)
<1>1. /\ DOMAIN a = DOMAIN o \cup {n + 1} /\ a[n + 1] = x /\ DOMAIN o = 1..n /\ n \in Nat
      /\ \A k \in DOMAIN o : a[k] = o[k]
  BY OneMore
<1> HIDE DEF a, n
<1>2. ASSUME NEW j \in DOMAIN a, NEW k \in DOMAIN a, j < k PROVE Follows(e, s, a[j], a[k])
  <2>1. j \in DOMAIN o BY <1>1, <1>2
  <2>2. CASE k \in DOMAIN o BY <1>1, <1>2, <2>1, <2>2 DEF OutOrdered
  <2>3. CASE k = n + 1 BY <1>1, <2>1, <2>3
  <2> QED BY <1>1, <2>2, <2>3
<1> QED BY <1>2 DEF OutOrdered, a

\* and before the rest, with one that is.
LEMMA BeforeGrows ==
  ASSUME NEW e, NEW s, NEW T, NEW o \in Seq(T), NEW x, NEW h, NEW st, NEW q
  PROVE  /\ BeforeComing(e, s, o, h, st)
            /\ (\A p : ComingIn(h, st, p) => AheadIn(e, s, AboutItem(x), p)) =>
              BeforeComing(e, s, Append(o, x), h, st)
         /\ BeforePath(e, s, o, q) /\ AboutItem(x) = q /\ x.files = << >> =>
              BeforePath(e, s, Append(o, x), q)
<1> DEFINE a == Append(o, x)
           n == Len(o)
<1>1. /\ DOMAIN a = DOMAIN o \cup {n + 1} /\ a[n + 1] = x
      /\ \A k \in DOMAIN o : a[k] = o[k]
  BY OneMore
<1> HIDE DEF a, n
<1>2. ASSUME NEW k \in DOMAIN a PROVE (k \in DOMAIN o /\ a[k] = o[k]) \/ a[k] = x BY <1>1
<1>3. ASSUME BeforeComing(e, s, o, h, st),
             \A p : ComingIn(h, st, p) => AheadIn(e, s, AboutItem(x), p)
      PROVE  BeforeComing(e, s, a, h, st)
  BY <1>2, <1>3 DEF BeforeComing
<1>4. ASSUME BeforePath(e, s, o, q), AboutItem(x) = q, x.files = << >>
      PROVE  BeforePath(e, s, a, q)
  BY <1>2, <1>4 DEF BeforePath
<1> QED BY <1>3, <1>4 DEF a

\* What is awaited or to come, by nodes that have been kept.
LEMMA KeptBack ==
  ASSUME NEW h, NEW st, StackOk(h, st), NEW h2, \A k \in 1..Len(st) : Kept(h, h2, Level(h, k)),
         NEW p
  PROVE  /\ AwaitedIn(h2, st, p) => AwaitedIn(h, st, p)
         /\ ComingIn(h2, st, p) => ComingIn(h, st, p)
<1>1. ASSUME NEW k \in 1..Len(st), NEW j \in DOMAIN st[k].dn
      PROVE  h2[st[k].dn[j]] = h[st[k].dn[j]]
  <2>1. st[k].dn[j] \in Level(h, k) BY DEF StackOk, FrameOk, ToSet
  <2> QED BY <2>1 DEF Kept
<1>2. ASSUME AwaitedIn(h2, st, p) PROVE AwaitedIn(h, st, p)
  <2>1. PICK k \in 1..Len(st) : \E j \in DOMAIN st[k].dn :
          /\ j >= st[k].i /\ (k < Len(st) => j > st[k].i)
          /\ p = h2[st[k].dn[j]].fullname
    BY <1>2 DEF AwaitedIn
  <2>2. PICK j \in DOMAIN st[k].dn :
          /\ j >= st[k].i /\ (k < Len(st) => j > st[k].i)
          /\ p = h2[st[k].dn[j]].fullname
    BY <2>1
  <2>3. p = h[st[k].dn[j]].fullname BY <1>1, <2>2
  <2> QED BY <2>2, <2>3 DEF AwaitedIn
<1>3. ASSUME ComingIn(h2, st, p) PROVE ComingIn(h, st, p)
  <2>1. PICK k, j : Coming(st, k, j) /\ p = PathAt(h2, st, k, j) BY <1>3 DEF ComingIn
  <2>2. p = PathAt(h, st, k, j) BY <1>1, <2>1 DEF Coming, PathAt
  <2> QED BY <2>1, <2>2 DEF ComingIn
<1> QED BY <1>2, <1>3

\* A call that goes on or returns leaves all in order.
LEMMA OrderGoes ==
  ASSUME NEW e, NEW s, NEW h, NEW st, StackOk(h, st), OrderedIn(e, s, h, st),
         NEW o, BeforeComing(e, s, o, h, st),
         NEW st2, StackOk(h, st2), Goes(st, st2), Len(st2) <= Len(st),
         NEW h2, \A k \in 1..Len(st2) : Kept(h, h2, Level(h, k))
  PROVE  OrderedIn(e, s, h2, st2) /\ BeforeAll(e, s, o, h2, st2)
<1>1. st \in Seq(FrameType) /\ st2 \in Seq(FrameType) BY DEF StackOk
<1>2. OrderedIn(e, s, h, st2) BY <1>1, OrderedGoes
<1>3. OrderedIn(e, s, h2, st2) BY <1>2, OrderedKept
<1>4. ASSUME NEW p, AwaitedIn(h2, st2, p) PROVE ComingIn(h, st, p)
  <2>1. AwaitedIn(h, st2, p) BY <1>4, KeptBack
  <2>2. ~(Len(st2) > Len(st))
    <3>1. Len(st) \in Nat /\ Len(st2) \in Nat BY <1>1
    <3> QED BY <3>1
  <2> QED BY <1>1, <2>1, <2>2, GoesOn
<1>5. BeforeAll(e, s, o, h2, st2) BY <1>4 DEF BeforeAll, BeforeComing
<1> QED BY <1>3, <1>5

\* Whether the tree has an order depends on what does not change.
LEMMA OrderlyStays ==
  ASSUME UNCHANGED <<cmd, c, entries, faults>>
  PROVE  Orderly' => Orderly
<1>1. Arguments' = Arguments BY DEF Arguments
<1> QED BY <1>1 DEF Orderly

\* The output in order: at first,
LEMMA OrderFirst == Init => OrderInv
BY DEF Init, OrderInv, OutOrdered, OrderedIn, Waits

\* when the arguments have been examined,
LEMMA OrderArgumentsDone ==
  ASSUME SoundInv, KnownInv, ArgsInv, NamesInv, CoverInv, ArgumentsDone
  PROVE  OrderInv'
<1> USE DEF SoundInv
<1>1. /\ pc = "args" /\ args = << >> /\ pc' \in {"done", "showdirs"} /\ stack = << >>
      /\ UNCHANGED <<cmd, c, args, heap, made, dn, entries, faults, errors>>
  BY ArgumentsDoes DEF OptionsInv
<1> SUFFICES ASSUME Orderly' PROVE OrderInv' BY DEF OrderInv
<1>2. Orderly /\ faults = 0 BY <1>1, OrderlyStays DEF Orderly
<1>3. out = << >> BY <1>1 DEF CoverInv
<1>4. ASSUME NEW k \in DOMAIN out' PROVE k = 1 /\ AboutItem(out'[k]) = << >>
  <2> DEFINE B == IF "NOLIST" \in c.disp THEN Batch ELSE Batch \ Dirs
  <2>1. out' = out \/ \E o : PrintedOf(o, B) /\ out' = Append(out, o) BY ArgumentsPrint
  <2>2. Fullnames(heap, B) = ContentIn(entries, c, Arguments, << >>)
    BY <1>1, <1>2, ArgsContent
  <2> HIDE DEF B
  <2>3. PICK o : PrintedOf(o, B) /\ out' = <<o>> BY <1>3, <1>4, <2>1
  <2>4. Remains(entries) /\ << >> \in Paths BY DEF FilesInv, Paths
  <2>5. /\ o.files \in Seq(TrueDnode) /\ o.files # << >>
        /\ FilesOf(o) = ContentIn(entries, c, Arguments, << >>)
    BY <2>2, <2>3 DEF PrintedOf
  <2>6. AboutItem(o) = << >> BY <2>4, <2>5, ListingAbout
  <2>7. k = 1 /\ out'[k] = o BY <1>4, <2>3
  <2> QED BY <2>6, <2>7
<1>5. OutOrdered(entries, c, out') BY <1>4 DEF OutOrdered
<1>6. OrderedIn(entries, c, heap, stack') /\ BeforeAll(entries, c, out', heap, stack')
  <2>1. CASE stack' = << >> BY <2>1 DEF OrderedIn, Waits, BeforeAll, AwaitedIn
  <2>2. CASE stack' # << >>
    <3>1. PICK g : /\ stack' = <<g>> /\ g \in FrameType /\ g.i = 1
                   /\ ToSet(g.dn) \subseteq Batch /\ Straight(heap, c, g.dn)
      BY <1>2, <2>2, ArgumentsFrame
    <3> DEFINE s == <<g>>
               t == << >>
    <3>2. t \in Seq(FrameType) /\ PushedAs(t, t, g, s) BY <3>1 DEF PushedAs
    <3>3. OrderedIn(entries, c, heap, t) /\ \A p : ~ComingIn(heap, t, p)
      BY DEF OrderedIn, Waits, ComingIn, Coming
    <3>4. ASSUME NEW id \in Batch
          PROVE  /\ heap[id].fullname \in Paths /\ heap[id].fullname # << >>
                 /\ Front(heap[id].fullname) = << >>
      <4>1. heap[id] \in TrueDnode BY BatchTrue
      <4>2. heap[id].fullname \in InsideIn(entries, c, Arguments, << >>)
        BY <1>1, <1>2, ArgsBatch DEF Fullnames
      <4>3. Remains(entries) /\ << >> \in Paths BY DEF FilesInv, Paths
      <4> QED BY <4>1, <4>2, <4>3, InsideFront DEF TrueDnode, DnodeType
    <3>5. ToSet(g.dn) \subseteq DOMAIN heap BY <3>1, BatchTrue
    <3>6. \A i, j \in DOMAIN g.dn :
            i < j => AheadIn(entries, c, heap[g.dn[i]].fullname, heap[g.dn[j]].fullname)
      <4> DEFINE q == << >>
                 ids == g.dn
      <4>1. \A id \in ToSet(ids) : Front(heap[id].fullname) = q BY <3>1, <3>4
      <4>2. ToSet(ids) \subseteq DOMAIN heap /\ Straight(heap, c, ids) BY <3>1, <3>5
      <4> HIDE DEF q, ids
      <4>3. \A i, j \in DOMAIN ids :
              i < j => AheadIn(entries, c, heap[ids[i]].fullname, heap[ids[j]].fullname)
        BY <1>2, <4>1, <4>2, SiblingsAhead
      <4> QED BY <4>3 DEF ids
    <3>7. Len(s) = 1 /\ s[1] = g OBVIOUS
    <3> HIDE DEF s, t
    <3>8. OrderedIn(entries, c, heap, s) BY <3>1, <3>2, <3>3, <3>6, OrderedPush
    <3>9. ASSUME NEW p, AwaitedIn(heap, s, p) PROVE AheadIn(entries, c, << >>, p)
      <4>1. PICK k \in 1..Len(s) : \E j \in DOMAIN s[k].dn : p = heap[s[k].dn[j]].fullname
        BY <3>9 DEF AwaitedIn
      <4>2. PICK j \in DOMAIN g.dn : p = heap[g.dn[j]].fullname BY <3>7, <4>1
      <4>3. g.dn[j] \in Batch BY <3>1 DEF ToSet
      <4>4. p \in Paths /\ p # << >> BY <3>4, <4>2, <4>3
      <4> QED BY <4>4, RootAhead
    <3>10. BeforeAll(entries, c, out', heap, s) BY <1>4, <3>9 DEF BeforeAll
    <3> QED BY <3>1, <3>8, <3>10 DEF s
  <2> QED BY <2>1, <2>2
<1> QED BY <1>1, <1>5, <1>6 DEF OrderInv

\* when a directory gets its heading,
LEMMA OrderShowDir ==
  ASSUME SoundInv, OrderInv, ShowDir
  PROVE  OrderInv'
<1> USE DEF SoundInv
<1>1. /\ pc = "showdirs" /\ stack # << >> /\ Top.i <= Len(Top.dn)
      /\ UNCHANGED <<cmd, c, args, heap, made, entries, faults>>
      /\ \/ stack' = NextDir(stack) /\ pc' = "showdirs"
         \/ stack' = stack /\ pc' = "readdir"
  BY ShowDirDoes
<1> SUFFICES ASSUME Orderly' PROVE OrderInv' BY DEF OrderInv
<1>2. Orderly BY <1>1, OrderlyStays
<1> DEFINE q == Path
           x == Heading(q)
           T == [head : Paths, files : Seq(TrueDnode)]
<1>3. /\ OutOrdered(entries, c, out) /\ OrderedIn(entries, c, heap, stack)
      /\ BeforeAll(entries, c, out, heap, stack)
  BY <1>1, <1>2 DEF OrderInv
<1>4. StackOk(heap, stack) /\ stack \in Seq(FrameType) BY DEF NodesInv, StackOk
<1>5. /\ q = AtTop(heap, stack) /\ stack[Len(stack)].i \in DOMAIN stack[Len(stack)].dn
      /\ stack[Len(stack)].i <= Len(stack[Len(stack)].dn)
  BY <1>1, AtDirectory DEF Path, AtTop
<1>6. AboutItem(x) = q /\ x.files = << >> BY DEF AboutItem, Heading
<1>7. out \in Seq(T) BY DEF OutInv
<1> HIDE DEF q, x, T
<1>8. /\ \A p : ComingIn(heap, stack, p) => AheadIn(entries, c, q, p)
      /\ AwaitedIn(heap, stack, q)
  BY <1>1, <1>3, <1>4, <1>5, TopAhead
<1>9. BeforeComing(entries, c, out, heap, stack) /\ BeforePath(entries, c, out, q)
  BY <1>3, <1>4, <1>8, ComingAwaited DEF BeforeAll, BeforeComing, BeforePath
<1>10. out' = out \/ out' = Append(out, x) BY ShowDirPrints DEF x, q
<1>11. /\ OutOrdered(entries, c, out') /\ BeforeComing(entries, c, out', heap, stack)
       /\ BeforePath(entries, c, out', q)
  <2>1. CASE out' = out BY <1>3, <1>9, <2>1
  <2>2. CASE out' = Append(out, x)
    <3>1. \A k \in DOMAIN out : Follows(entries, c, out[k], x)
      BY <1>3, <1>6, <1>8 DEF BeforeAll, Follows
    <3>2. OutOrdered(entries, c, Append(out, x)) BY <1>3, <1>7, <3>1, OutOrderedGrows
    <3>3. BeforeComing(entries, c, Append(out, x), heap, stack)
      BY <1>6, <1>7, <1>8, <1>9, BeforeGrows
    <3>4. BeforePath(entries, c, Append(out, x), q) BY <1>6, <1>7, <1>9, BeforeGrows
    <3> QED BY <2>2, <3>2, <3>3, <3>4
  <2> QED BY <1>10, <2>1, <2>2
<1>12. CASE stack' = stack /\ pc' = "readdir"
  <2>1. Path' = q BY <1>1, <1>12 DEF Path, Top, q
  <2> QED BY <1>1, <1>3, <1>11, <1>12, <2>1 DEF OrderInv
<1>13. CASE stack' = NextDir(stack) /\ pc' = "showdirs"
  <2> DEFINE s == NextDir(stack)
             o == out'
  <2>1. Goes(stack, s) /\ Len(s) = Len(stack) BY <1>1, <1>4, NextDirGoes
  <2>2. StackOk(heap, s) BY <1>1, <1>4, <1>5, NextDirOk
  <2>3. Len(s) <= Len(stack) BY <1>4, <2>1
  <2>4. \A k \in 1..Len(s) : Kept(heap, heap, Level(heap, k)) BY DEF Kept, Level
  <2>5. BeforeComing(entries, c, o, heap, stack) BY <1>11
  <2> HIDE DEF s, o
  <2>6. OrderedIn(entries, c, heap, s) /\ BeforeAll(entries, c, o, heap, s)
    BY <1>3, <1>4, <2>1, <2>2, <2>3, <2>4, <2>5, OrderGoes
  <2> QED BY <1>1, <1>11, <1>13, <2>6 DEF OrderInv, s, o
<1> QED BY <1>1, <1>12, <1>13

\* What an item is about is a path.
LEMMA AboutTyped ==
  ASSUME NEW x \in [head : Paths, files : Seq(TrueDnode)]
  PROVE  AboutItem(x) \in Paths
<1>1. CASE x.files = << >> BY <1>1 DEF AboutItem
<1>2. CASE x.files # << >>
  <2>1. x.files[1] \in TrueDnode BY <1>2
  <2>2. x.files[1].fullname \in Paths /\ x.files[1].fullname # << >>
    BY <2>1 DEF TrueDnode, DnodeType
  <2> QED BY <1>2, <2>2, ParentIs DEF AboutItem
<1> QED BY <1>1, <1>2

\* its listing,
LEMMA OrderEndDir ==
  ASSUME SoundInv, KnownInv, EnteredInv, ReadingInv, FailInv, NamesInv, OrderInv, EndDir
  PROVE  OrderInv'
<1> USE DEF SoundInv
<1>1. /\ pc = "readdir" /\ pc' = "showdirs" /\ dir.left = {}
      /\ UNCHANGED <<cmd, c, args, entries, faults, errors>>
      /\ stack # << >> /\ Top.i <= Len(Top.dn)
  BY EndDirDoes DEF OptionsInv, NodesInv
<1> SUFFICES ASSUME Orderly' PROVE OrderInv' BY DEF OrderInv
<1>2. Orderly /\ faults = 0 BY <1>1, OrderlyStays DEF Orderly
<1> DEFINE q == Path
           T == [head : Paths, files : Seq(TrueDnode)]
           ost == stack'
           o == out'
<1>3. /\ OutOrdered(entries, c, out) /\ OrderedIn(entries, c, heap, stack)
      /\ BeforeComing(entries, c, out, heap, stack) /\ BeforePath(entries, c, out, q)
  BY <1>1, <1>2 DEF OrderInv
<1>4. StackOk(heap, stack) /\ stack \in Seq(FrameType) /\ Len(stack) \in Nat
  BY DEF NodesInv, StackOk
<1>5. /\ q = AtTop(heap, stack) /\ stack[Len(stack)].i \in DOMAIN stack[Len(stack)].dn
      /\ stack[Len(stack)].i <= Len(stack[Len(stack)].dn)
      /\ q \in Paths /\ q # << >> /\ Len(q) = Len(stack)
  BY <1>1, AtDirectory DEF Path, AtTop
<1>6. q \in DirectoriesIn(entries, c, Arguments) BY <1>1, <1>2, PathWanted
<1>7. Fullnames(heap, Batch) = InsideIn(entries, c, Arguments, q)
  BY <1>1, <1>2, <1>5, ReadBatch
<1>8. out \in Seq(T) BY DEF OutInv
<1>9. out' = out \/ \E x : PrintedOf(x, Batch) /\ out' = Append(out, x) BY EndDirPrints
<1>10. Remains(entries) BY DEF FilesInv
<1> HIDE DEF q, T
<1>11. \A p : ComingIn(heap, stack, p) => AheadIn(entries, c, q, p)
  BY <1>1, <1>3, <1>4, <1>5, TopAhead
<1>12. ASSUME NEW x, PrintedOf(x, Batch) PROVE AboutItem(x) = q /\ x.files # << >>
  <2>1. x.files \in Seq(TrueDnode) /\ x.files # << >> /\ FilesOf(x) = ContentIn(entries, c, Arguments, q)
    BY <1>5, <1>7, <1>12 DEF PrintedOf, ContentIn
  <2> QED BY <1>5, <1>6, <1>10, <2>1, ListingAbout
<1>13. /\ OutOrdered(entries, c, out') /\ BeforeComing(entries, c, out', heap, stack)
       /\ \A k \in DOMAIN out' :
            /\ AboutItem(out'[k]) = q \/ AheadIn(entries, c, AboutItem(out'[k]), q)
            /\ AboutItem(out'[k]) \in Paths
  <2>0. ASSUME NEW k \in DOMAIN out PROVE AboutItem(out[k]) \in Paths
    <3>1. out[k] \in T BY <1>8
    <3> QED BY <3>1, AboutTyped DEF T
  <2>1. CASE out' = out BY <1>3, <2>0, <2>1 DEF BeforePath
  <2>2. CASE out' # out
    <3>1. PICK x : PrintedOf(x, Batch) /\ out' = Append(out, x) BY <1>9, <2>2
    <3>2. AboutItem(x) = q /\ x.files # << >> BY <1>12, <3>1
    <3>3. \A k \in DOMAIN out : Follows(entries, c, out[k], x)
      BY <1>3, <3>2 DEF BeforePath, Follows
    <3>4. OutOrdered(entries, c, Append(out, x)) BY <1>3, <1>8, <3>3, OutOrderedGrows
    <3>5. BeforeComing(entries, c, Append(out, x), heap, stack)
      BY <1>3, <1>8, <1>11, <3>2, BeforeGrows
    <3>6. ASSUME NEW k \in DOMAIN Append(out, x)
          PROVE  /\ \/ AboutItem(Append(out, x)[k]) = q
                    \/ AheadIn(entries, c, AboutItem(Append(out, x)[k]), q)
                 /\ AboutItem(Append(out, x)[k]) \in Paths
      <4> DEFINE a == Append(out, x)
      <4>1. (k \in DOMAIN out /\ a[k] = out[k]) \/ a[k] = x BY <1>8, OneMore
      <4> HIDE DEF a
      <4>2. AboutItem(a[k]) = q \/ AheadIn(entries, c, AboutItem(a[k]), q)
        BY <1>3, <3>2, <4>1 DEF BeforePath
      <4>3. AboutItem(a[k]) \in Paths BY <1>5, <2>0, <3>2, <4>1
      <4> QED BY <4>2, <4>3 DEF a
    <3> QED BY <3>1, <3>4, <3>5, <3>6
  <2> QED BY <2>1, <2>2
<1>14. OrderedIn(entries, c, heap', ost) /\ BeforeAll(entries, c, o, heap', ost)
  <2>1. CASE Finished(heap, heap', stack, stack')
    <3> DEFINE s == NextDir(stack)
               h2 == heap'
    <3>1. Goes(stack, s) /\ Len(s) = Len(stack) BY <1>1, <1>4, NextDirGoes
    <3>2. StackOk(heap, s) BY <1>1, <1>4, <1>5, NextDirOk
    <3>3. Len(s) <= Len(stack) BY <1>4, <3>1
    <3>4. stack' = s /\ \A k \in 1..Len(s) : Kept(heap, h2, Level(heap, k))
      BY <2>1, <3>1 DEF Finished
    <3>5. BeforeComing(entries, c, o, heap, stack) BY <1>13
    <3> HIDE DEF s, o, h2
    <3>6. OrderedIn(entries, c, h2, s) /\ BeforeAll(entries, c, o, h2, s)
      BY <1>3, <1>4, <3>1, <3>2, <3>3, <3>4, <3>5, OrderGoes
    <3> QED BY <3>4, <3>6 DEF h2
  <2>2. CASE ~Finished(heap, heap', stack, stack')
    <3>1. /\ heap' = heap
          /\ \E sub, g : /\ PushedAs(stack, sub, g, stack') /\ g.i = 1
                         /\ ToSet(g.dn) \subseteq Batch /\ Straight(heap, c, g.dn)
      BY <1>2, <2>2, EndDirFrame
    <3>2. PICK sub, g : /\ PushedAs(stack, sub, g, ost) /\ g.i = 1
                        /\ ToSet(g.dn) \subseteq Batch /\ Straight(heap, c, g.dn)
      BY <3>1
    <3>3. ASSUME NEW id \in ToSet(g.dn)
          PROVE  /\ id \in DOMAIN heap /\ heap[id].fullname \in Paths
                 /\ heap[id].fullname # << >> /\ Front(heap[id].fullname) = q
      <4>1. id \in DOMAIN heap /\ heap[id] \in TrueDnode BY <3>2, BatchTrue
      <4>2. heap[id].fullname \in InsideIn(entries, c, Arguments, q)
        BY <1>7, <3>2 DEF Fullnames
      <4> QED BY <1>5, <1>10, <4>1, <4>2, InsideFront DEF TrueDnode, DnodeType
    <3>4. ASSUME NEW p, ComingIn(heap, stack, p) PROVE p \in Paths /\ Len(p) <= Len(q)
      <4>1. PICK k, j : Coming(stack, k, j) /\ p = PathAt(heap, stack, k, j)
        BY <3>4 DEF ComingIn
      <4>2. k \in 1..Len(stack) /\ j \in DOMAIN stack[k].dn BY <4>1 DEF Coming
      <4>3. stack[k].dn[j] \in Level(heap, k) BY <1>4, <4>2 DEF StackOk, FrameOk, ToSet
      <4>4. stack[k].dn[j] \in DOMAIN heap /\ Len(p) = k BY <4>1, <4>3 DEF Level, PathAt
      <4>5. heap[stack[k].dn[j]] \in TrueDnode BY <4>4 DEF NodesInv, HeapOk
      <4>6. p \in Paths BY <4>1, <4>5 DEF PathAt, TrueDnode, DnodeType
      <4>7. k <= Len(stack) BY <1>4, <4>2
      <4> QED BY <1>5, <4>4, <4>6, <4>7
    <3>5. \A id \in ToSet(g.dn) : \A p : ComingIn(heap, stack, p) =>
            AheadIn(entries, c, heap[id].fullname, p)
      BY <1>11, <3>3, <3>4, ChildAhead
    <3>6. \A i, j \in DOMAIN g.dn :
            i < j => AheadIn(entries, c, heap[g.dn[i]].fullname, heap[g.dn[j]].fullname)
      <4> DEFINE ids == g.dn
      <4>1. \A id \in ToSet(ids) : Front(heap[id].fullname) = q BY <3>3
      <4>2. ToSet(ids) \subseteq DOMAIN heap /\ Straight(heap, c, ids) BY <3>2, <3>3
      <4> HIDE DEF ids
      <4>3. \A i, j \in DOMAIN ids :
              i < j => AheadIn(entries, c, heap[ids[i]].fullname, heap[ids[j]].fullname)
        BY <1>2, <4>1, <4>2, SiblingsAhead
      <4> QED BY <4>3 DEF ids
    <3> DEFINE st2 == ost
               o2 == o
    <3>7. PushedAs(stack, sub, g, st2) BY <3>2
    <3>8. BeforeComing(entries, c, o2, heap, stack)
          /\ \A k \in DOMAIN o2 : AboutItem(o2[k]) = q \/ AheadIn(entries, c, AboutItem(o2[k]), q)
      BY <1>13
    <3>9. \A k \in DOMAIN o2 : AboutItem(o2[k]) \in Paths BY <1>13
    <3> HIDE DEF st2, o2
    <3>10. OrderedIn(entries, c, heap, st2) BY <1>3, <1>4, <3>2, <3>5, <3>6, <3>7, OrderedPush
    <3>11. ASSUME NEW p, AwaitedIn(heap, st2, p)
           PROVE  ComingIn(heap, stack, p) \/ \E id \in ToSet(g.dn) : p = heap[id].fullname
      <4>1. Goes(stack, st2) BY <1>4, <3>7, PushGoes
      <4>2. /\ st2 \in Seq(FrameType) /\ Len(st2) = Len(stack) + 1 /\ st2[Len(stack) + 1] = g
        BY <3>7 DEF PushedAs
      <4>3. SUFFICES ASSUME ~ComingIn(heap, stack, p)
                     PROVE  \E id \in ToSet(g.dn) : p = heap[id].fullname
        OBVIOUS
      <4>4. PICK k, j : k > Len(stack) /\ Waits(st2, k, j) /\ p = PathAt(heap, st2, k, j)
        BY <1>4, <3>11, <4>1, <4>2, <4>3, GoesOn
      <4>5. k \in 1..Len(st2) /\ j \in DOMAIN st2[k].dn BY <4>4 DEF Waits
      <4>6. k = Len(stack) + 1 BY <1>4, <4>2, <4>4, <4>5
      <4>7. j \in DOMAIN g.dn /\ p = heap[g.dn[j]].fullname BY <4>2, <4>4, <4>5, <4>6 DEF PathAt
      <4> QED BY <4>7 DEF ToSet
    <3>12. ASSUME NEW k \in DOMAIN o2, NEW id \in ToSet(g.dn)
           PROVE  AheadIn(entries, c, AboutItem(o2[k]), heap[id].fullname)
      <4> DEFINE a == AboutItem(o2[k])
                 r == heap[id].fullname
      <4>1. a \in Paths /\ (a = q \/ AheadIn(entries, c, a, q)) BY <3>8, <3>9
      <4>2. r \in Paths /\ r # << >> /\ Front(r) = q BY <3>3
      <4> HIDE DEF a, r
      <4>3. AheadIn(entries, c, a, r) BY <4>1, <4>2, AheadChild
      <4> QED BY <4>3 DEF a, r
    <3>13. BeforeAll(entries, c, o2, heap, st2)
      BY <3>8, <3>11, <3>12 DEF BeforeAll, BeforeComing
    <3> QED BY <3>1, <3>10, <3>13 DEF st2, o2
  <2> QED BY <2>1, <2>2
<1> QED BY <1>1, <1>13, <1>14 DEF OrderInv

\* when a call returns,
LEMMA OrderReturn ==
  ASSUME SoundInv, OrderInv, Return
  PROVE  OrderInv'
<1> USE DEF SoundInv
<1>1. /\ pc = "showdirs" /\ stack # << >> /\ UNCHANGED <<cmd, c, entries, faults, out>>
      /\ \/ Len(stack) = 1 /\ stack' = << >> /\ pc' = "done" /\ heap' = heap
         \/ /\ Len(stack) > 1 /\ stack' = NextDir(Front(stack)) /\ pc' = "showdirs"
            /\ \A k \in 1..(Len(stack) - 1) : Kept(heap, heap', Level(heap, k))
  BY ReturnDoes
<1> SUFFICES ASSUME Orderly' PROVE OrderInv' BY DEF OrderInv
<1>2. Orderly BY <1>1, OrderlyStays
<1>3. /\ OutOrdered(entries, c, out) /\ OrderedIn(entries, c, heap, stack)
      /\ BeforeAll(entries, c, out, heap, stack)
  BY <1>1, <1>2 DEF OrderInv
<1>4. StackOk(heap, stack) /\ stack \in Seq(FrameType) /\ Len(stack) \in Nat
  BY DEF NodesInv, StackOk
<1>5. CASE stack' = << >> /\ pc' = "done"
  <2> DEFINE h2 == heap'
  <2>1. OrderedIn(entries, c, h2, << >>) BY DEF OrderedIn, Waits
  <2> QED BY <1>1, <1>3, <1>5, <2>1 DEF OrderInv
<1>6. CASE /\ Len(stack) > 1 /\ stack' = NextDir(Front(stack)) /\ pc' = "showdirs"
           /\ \A k \in 1..(Len(stack) - 1) : Kept(heap, heap', Level(heap, k))
  <2> DEFINE f == Front(stack)
             s == NextDir(f)
             h2 == heap'
  <2>1. s \in Seq(FrameType) /\ Goes(stack, s) /\ Len(s) = Len(stack) - 1
    BY <1>4, <1>6, PopGoes
  <2>2. StackOk(heap, f) /\ f # << >> /\ f[Len(f)].i <= Len(f[Len(f)].dn)
    BY <1>4, <1>6, PopOk
  <2> HIDE DEF f
  <2>3. StackOk(heap, s) BY <2>2, NextDirOk
  <2>4. BeforeComing(entries, c, out, heap, stack)
    BY <1>3, <1>4, ComingAwaited DEF BeforeAll, BeforeComing
  <2>5. stack' = s BY <1>6 DEF f
  <2>6. \A k \in 1..Len(s) : Kept(heap, h2, Level(heap, k)) BY <1>6, <2>1
  <2>7. Len(s) <= Len(stack) BY <1>4, <2>1
  <2> HIDE DEF s, h2
  <2>8. OrderedIn(entries, c, h2, s) /\ BeforeAll(entries, c, out, h2, s)
    BY <1>3, <1>4, <2>1, <2>3, <2>4, <2>6, <2>7, OrderGoes
  <2> QED BY <1>1, <1>3, <1>6, <2>5, <2>8 DEF OrderInv, h2
<1> QED BY <1>1, <1>5, <1>6

\* and while a directory is read.
LEMMA OrderSame ==
  ASSUME SoundInv, OrderInv, SameCalls, UNCHANGED <<cmd, out, pc, entries, faults>>
  PROVE  OrderInv'
<1> USE DEF SoundInv
<1> SUFFICES ASSUME Orderly' PROVE OrderInv' BY DEF OrderInv
<1>1. UNCHANGED <<c, stack>> /\ Kept(heap, heap', DOMAIN heap) BY DEF SameCalls
<1>2. Orderly BY <1>1, OrderlyStays
<1>3. StackOk(heap, stack) BY DEF NodesInv
<1> DEFINE h2 == heap'
<1>4. \A k \in 1..Len(stack) : Kept(heap, h2, Level(heap, k)) BY <1>1 DEF Kept, Level
<1>5. pc = "readdir" => Path' = Path
  <2> SUFFICES ASSUME pc = "readdir" PROVE Path' = Path OBVIOUS
  <2>1. Top.dn[Top.i] \in DOMAIN heap BY AtDirectory DEF NodesInv
  <2> QED BY <1>1, <2>1 DEF Kept, Path, Top
<1> HIDE DEF h2
<1>6. OutOrdered(entries, c, out) /\ OrderedIn(entries, c, heap, stack)
  BY <1>2 DEF OrderInv
<1>7. OrderedIn(entries, c, h2, stack) BY <1>3, <1>4, <1>6, OrderedKept
<1>8. \A p : /\ AwaitedIn(h2, stack, p) => AwaitedIn(heap, stack, p)
             /\ ComingIn(h2, stack, p) => ComingIn(heap, stack, p)
  BY <1>3, <1>4, KeptBack
<1>9. pc = "showdirs" => BeforeAll(entries, c, out, h2, stack)
  BY <1>2, <1>8 DEF OrderInv, BeforeAll
<1>10. pc = "readdir" => /\ BeforeComing(entries, c, out, h2, stack)
                         /\ BeforePath(entries, c, out, Path)
  BY <1>2, <1>8 DEF OrderInv, BeforeComing
<1> QED BY <1>1, <1>5, <1>6, <1>7, <1>9, <1>10 DEF OrderInv, h2

\* The output is in order after every step.
LEMMA OrderNext ==
  ASSUME SoundInv, KnownInv, EnteredInv, ReadingInv, ArgsInv, FailInv, CoverInv,
         NamesInv, OrderInv, [LsNext]_lsvars
  PROVE  OrderInv'
<1> SUFFICES ASSUME faults' = 0 PROVE OrderInv' BY DEF OrderInv, Orderly
<1>1. faults = 0 /\ entries' = entries BY QuietSteps DEF SoundInv
<1>2. ASSUME pc = "options", UNCHANGED <<out, stack>>, pc' \in {"options", "usage", "args"} PROVE OrderInv'
  <2>1. out' = << >> /\ stack' = << >> BY <1>2 DEF SoundInv, OutInv, NodesInv
  <2> DEFINE e2 == entries'
             s2 == c'
             h2 == heap'
  <2>2. OutOrdered(e2, s2, << >>) /\ OrderedIn(e2, s2, h2, << >>)
    BY DEF OutOrdered, OrderedIn, Waits
  <2> QED BY <1>2, <2>1, <2>2 DEF OrderInv
<1>3. ASSUME pc' = pc, UNCHANGED <<c, stack, cmd, out>>, Kept(heap, heap', DOMAIN heap)
      PROVE  OrderInv'
  BY <1>1, <1>3, OrderSame DEF SameCalls
<1>4. heap' = heap => Kept(heap, heap', DOMAIN heap) BY DEF Kept
<1>5. CASE Option \/ Usage \/ OptionsDone BY <1>2, <1>5 DEF Option, Usage, OptionsDone
<1>6. CASE Argument
  <2>1. pc' = pc /\ UNCHANGED <<c, stack, cmd, out>> /\ Tried(<<Head(args)>>)
    BY <1>6, ArgumentDoes DEF SoundInv
  <2> QED BY <1>3, <2>1, TriedKeeps
<1>7. ASSUME NEW n \in dir.left, ReadEntry(n) PROVE OrderInv'
  <2>1. pc = "readdir" /\ pc' = pc /\ UNCHANGED <<c, stack, cmd, out>>
    BY <1>7, EntryDoes DEF SoundInv
  <2>2. Kept(heap, heap', DOMAIN heap)
    <3>1. CASE Skipped(n) BY <1>4, <1>7, <3>1 DEF ReadEntry, nodes
    <3>2. CASE ~Skipped(n) BY <1>7, <3>2, EntryDoes, TriedKeeps DEF SoundInv
    <3> QED BY <3>1, <3>2
  <2> QED BY <1>3, <2>1, <2>2
<1>8. ASSUME NEW n, MissEntry(n) PROVE OrderInv'
  BY <1>3, <1>4, <1>8 DEF MissEntry, settings, nodes
<1>9. ASSUME NEW d, NEW n, Unlink(d, n) PROVE OrderInv'
  BY <1>3, <1>4, <1>9 DEF Unlink, settings, nodes
<1>10. CASE UNCHANGED lsvars BY <1>3, <1>4, <1>10 DEF lsvars, settings, nodes
<1>11. CASE ArgumentsDone BY <1>11, OrderArgumentsDone
<1>12. CASE ShowDir BY <1>12, OrderShowDir
<1>13. CASE EndDir BY <1>13, OrderEndDir
<1>14. CASE Return BY <1>14, OrderReturn
<1> QED BY <1>5, <1>6, <1>7, <1>8, <1>9, <1>10, <1>11, <1>12, <1>13, <1>14 DEF LsNext, LsMain

(* The output as a whole.                                                  *)

\* What is inside a directory,
LEMMA InsideIs ==
  ASSUME SoundInv, NEW q \in Paths
  PROVE  /\ Inside(q) = InsideIn(entries, c, Arguments, q) /\ Inside(q) \subseteq Paths
         /\ Content(q) = ContentIn(entries, c, Arguments, q)
<1>1. Remains(entries) /\ Arguments \subseteq Paths
  BY ArgumentsTyped DEF SoundInv, FilesInv
<1> DEFINE W == WithinIn(entries, c, q)
           A == Arguments
<1>2. Present[q] = {p \in W : Exists(p)} BY <1>1, KernelIs DEF Present
<1>3. W \subseteq Paths BY <1>1, KernelTyped
<1>4. \A p \in Paths : /\ Exists(p) <=> InfoIn(entries, c, p) # Nothing
                       /\ Enters(p) <=> EntersIn(entries, c, p)
  BY <1>1, KernelIs
<1>5. Inside(q) = IF q = << >> THEN {p \in A : Exists(p)} ELSE {p \in W : Exists(p)}
  BY <1>2 DEF Inside
<1>6. InsideIn(entries, c, Arguments, q) =
        {p \in (IF q = << >> THEN A ELSE W) : InfoIn(entries, c, p) # Nothing}
  BY DEF InsideIn
<1>7. A \subseteq Paths BY <1>1
<1> HIDE DEF W, A
<1>8. Inside(q) = InsideIn(entries, c, Arguments, q) /\ Inside(q) \subseteq Paths
  <2>1. CASE q = << >> BY <1>4, <1>5, <1>6, <1>7, <2>1
  <2>2. CASE q # << >> BY <1>3, <1>4, <1>5, <1>6, <2>2
  <2> QED BY <2>1, <2>2
<1>9. \A p \in Inside(q) : Enters(p) <=> EntersIn(entries, c, p) BY <1>4, <1>8
<1> QED BY <1>8, <1>9 DEF Content, ContentIn

\* which directories there are,
LEMMA DirectoriesAre ==
  ASSUME SoundInv
  PROVE  Directories = DirectoriesIn(entries, c, Arguments) /\ Directories \subseteq Paths
<1>1. Remains(entries) BY DEF SoundInv, FilesInv
<1>2. Wanted = WantedIn(entries, c, Arguments) /\ Wanted \subseteq Paths
  BY <1>1, WantedIs DEF SoundInv
<1>3. \A p \in Wanted : Enters(p) <=> EntersIn(entries, c, p) BY <1>1, <1>2, KernelIs
<1> QED BY <1>2, <1>3 DEF Directories, DirectoriesIn

\* what an item is about,
LEMMA AboutIs ==
  ASSUME NEW k \in DOMAIN out PROVE About(k) = AboutItem(out[k])
BY DEF About, AboutItem, Listings

\* what comes first,
LEMMA AheadIs ==
  ASSUME SoundInv, NEW p \in Paths, NEW q \in Paths, AheadIn(entries, c, p, q)
  PROVE  Ahead(p, q)
<1>1. Remains(entries) BY DEF SoundInv, FilesInv
<1>2. \A r \in Paths : File(r) = FileIn(entries, c, r) BY <1>1, KernelIs DEF File, FileIn
<1>3. CASE IsStrictPrefix(p, q) BY <1>3 DEF Ahead
<1>4. CASE ~IsStrictPrefix(p, q)
  <2>1. PICK k \in DOMAIN p \cap DOMAIN q :
          /\ SubSeq(p, 1, k - 1) = SubSeq(q, 1, k - 1)
          /\ Precedes(FileIn(entries, c, SubSeq(p, 1, k)), FileIn(entries, c, SubSeq(q, 1, k)), c)
    BY <1>4 DEF AheadIn
  <2>2. SubSeq(p, 1, k) \in Paths /\ SubSeq(q, 1, k) \in Paths
    <3>1. /\ Len(p) \in Nat /\ k \in 1..Len(p) /\ \A j \in 0..Len(p) : SubSeq(p, 1, j) \in Paths
          /\ Len(q) \in Nat /\ k \in 1..Len(q) /\ \A j \in 0..Len(q) : SubSeq(q, 1, j) \in Paths
      BY BeginningIs
    <3>2. k \in 0..Len(p) /\ k \in 0..Len(q) BY <3>1, NextIndex
    <3> QED BY <3>1, <3>2
  <2>3. Before(File(SubSeq(p, 1, k)), File(SubSeq(q, 1, k))) BY <1>2, <2>1, <2>2, BeforeIs
  <2> QED BY <2>1, <2>3 DEF Ahead
<1> QED BY <1>3, <1>4

\* and whether it has to, in the directories and with the settings as they are.
LEMMA OrderlyIs ==
  ASSUME SoundInv, faults = 0, NamedOnce, NoneTooFar
  PROVE  Orderly
<1>1. Remains(entries) /\ Arguments \subseteq Paths /\ << >> \in Paths
  BY ArgumentsTyped DEF SoundInv, FilesInv, Paths
<1>2. \A p \in Paths : /\ Enters(p) <=> EntersIn(entries, c, p)
                       /\ File(p) = FileIn(entries, c, p)
  BY <1>1, KernelIs DEF File, FileIn
<1>3. NamedOnceIn(entries, c, cmd.args)
  <2> SUFFICES ASSUME NEW j \in DOMAIN cmd.args, NEW k \in DOMAIN cmd.args,
                      j # k, cmd.args[j] = cmd.args[k]
               PROVE  ~EntersIn(entries, c, <<cmd.args[j]>>)
    BY DEF NamedOnceIn
  <2>1. cmd.args # << >> OBVIOUS
  <2>2. <<cmd.args[j]>> \in Arguments BY <2>1 DEF Arguments
  <2>3. ~Enters(<<cmd.args[j]>>) BY DEF NamedOnce
  <2> QED BY <1>1, <1>2, <2>2, <2>3
<1>4. NoneTooFarIn(entries, c, Arguments)
  <2> SUFFICES ASSUME NEW q \in DirectoriesIn(entries, c, Arguments) \cup {<< >>},
                      NEW x \in InsideIn(entries, c, Arguments, q),
                      NEW y \in InsideIn(entries, c, Arguments, q),
                      EntersIn(entries, c, x), EntersIn(entries, c, y)
               PROVE  Near(FileIn(entries, c, x), FileIn(entries, c, y), c)
    BY DEF NoneTooFarIn
  <2>1. q \in Directories \cup {<< >>} /\ q \in Paths BY <1>1, DirectoriesAre
  <2>2. x \in Inside(q) /\ y \in Inside(q) /\ Inside(q) \subseteq Paths BY <2>1, InsideIs
  <2> DEFINE D == {d \in Inside(q) : Enters(d)}
             f == [p \in D |-> File(p)]
  <2>3. x \in D /\ y \in D BY <1>2, <2>2
  <2>4. Comparable(f) BY <2>1 DEF NoneTooFar
  <2>5. DOMAIN f = D /\ f[x] = FileIn(entries, c, x) /\ f[y] = FileIn(entries, c, y)
    BY <1>2, <2>2, <2>3
  <2> HIDE DEF D, f
  <2>6. AllNear(f, c) BY <2>4, ComparableIs
  <2>7. Near(f[x], f[y], c) BY <2>3, <2>5, <2>6 DEF AllNear
  <2> QED BY <2>5, <2>7
<1> QED BY <1>3, <1>4 DEF Orderly

\* What is wanted, and there, is an argument or has been shown.
LEMMA WantedMet ==
  ASSUME SoundInv, LookInv, pc = "done", NEW p \in WantedIn(entries, c, Arguments),
         InfoIn(entries, c, p) # Nothing
  PROVE  p \in Arguments \cup Shown
<1> DEFINE S == Shown
           A == Arguments
           ok == Ok
<1>1. /\ Remains(entries) /\ A \in SUBSET Paths /\ S \in SUBSET Paths
      /\ \A q \in A \cup S : EntersIn(entries, c, q) => CoveredIn(entries, c, S, ok, q)
  BY AtTheEnd
<1> HIDE DEF S, A, ok
<1>2. PICK n \in 0..MaxPath : p \in LayerIn(entries, c, A, n) BY DEF WantedIn, A
<1>3. n \in Nat BY LsConstants
<1>4. p \in A \/ p \in S BY <1>1, <1>2, <1>3, LayersShown
<1> QED BY <1>4 DEF S, A

\* All that a directory contains has been shown.
LEMMA ContentShown ==
  ASSUME SoundInv, LookInv, pc = "done",
         NEW q \in DirectoriesIn(entries, c, Arguments) \cup {<< >>},
         NEW p \in ContentIn(entries, c, Arguments, q)
  PROVE  p \in Shown
<1>1. p \in InsideIn(entries, c, Arguments, q) /\ (q = << >> => ~EntersIn(entries, c, p))
  BY DEF ContentIn
<1> DEFINE S == Shown
           A == Arguments
           ok == Ok
           fine == Fine
<1>2. /\ Remains(entries) /\ A \in SUBSET Paths /\ S \in SUBSET Paths
      /\ \A r \in A \cup S : EntersIn(entries, c, r) => CoveredIn(entries, c, S, ok, r)
      /\ \A r \in A : SettledIn(entries, c, S, r, ok, fine)
  BY AtTheEnd
<1>3. CASE q = << >>
  <2>1. p \in A /\ InfoIn(entries, c, p) # Nothing BY <1>1, <1>3 DEF InsideIn
  <2> HIDE DEF S, A, ok, fine
  <2>2. p \in S BY <1>1, <1>2, <1>3, <2>1 DEF SettledIn
  <2> QED BY <2>2 DEF S
<1>4. CASE q # << >>
  <2>1. /\ p \in WithinIn(entries, c, q) /\ InfoIn(entries, c, p) # Nothing
        /\ q \in WantedIn(entries, c, A) /\ EntersIn(entries, c, q) /\ q \in Paths
    BY <1>1, <1>4, DirectoriesAre DEF InsideIn, DirectoriesIn
  <2>2. InfoIn(entries, c, q) # Nothing BY <1>2, <2>1, KernelTyped
  <2>3. q \in A \cup S BY <2>1, <2>2, WantedMet
  <2> HIDE DEF S, A, ok, fine
  <2>4. p \in S BY <1>2, <2>1, <2>3 DEF CoveredIn
  <2> QED BY <2>4 DEF S
<1> QED BY <1>3, <1>4

WalkInv == NamesInv /\ ItemsInv /\ HeadingsInv /\ OrderInv

\* The invariants about the output as a whole.
LEMMA WalkAlways == Spec => [](SoundInv /\ LookInv /\ WalkInv)
<1>1. Init => WalkInv BY NamesFirst, ItemsFirst, HeadingsFirst, OrderFirst DEF WalkInv
<1>2. SoundInv /\ LookInv /\ WalkInv /\ [LsNext]_lsvars => WalkInv'
  <2> SUFFICES ASSUME SoundInv, LookInv, WalkInv, [LsNext]_lsvars PROVE WalkInv' OBVIOUS
  <2> USE DEF LookInv, WalkInv
  <2>1. NamesInv' BY NamesNext
  <2>2. ItemsInv' BY ItemsNext
  <2>3. HeadingsInv' BY HeadingsNext
  <2>4. OrderInv' BY OrderNext
  <2> QED BY <2>1, <2>2, <2>3, <2>4
<1> QED BY <1>1, <1>2, LookAlways, OfLs, PTL DEF Spec

\* What a listing and a heading are of when ls ends.
LEMMA ListingsAre ==
  ASSUME SoundInv, WalkInv, faults = 0, NEW k \in Listings
  PROVE  /\ k \in DOMAIN out /\ About(k) \in Directories \cup {<< >>} /\ About(k) \in Paths
         /\ Names(k) = Content(About(k)) /\ Names(k) # {}
<1>1. k \in DOMAIN out /\ out[k].files # << >> BY DEF Listings
<1>2. ItemTrue(entries, c, Arguments, out[k]) BY <1>1 DEF WalkInv, ItemsInv
<1> DEFINE q == About(k)
<1>3. q = AboutItem(out[k]) BY <1>1, AboutIs
<1>4. << >> \in Paths BY DEF Paths
<1>5. q \in Directories \cup {<< >>} /\ q \in Paths
  BY <1>1, <1>2, <1>3, <1>4, DirectoriesAre DEF ItemTrue
<1>6. FilesOf(out[k]) = ContentIn(entries, c, Arguments, q) BY <1>1, <1>2, <1>3 DEF ItemTrue
<1>7. Names(k) = FilesOf(out[k]) BY NamesAre DEF FilesOf
<1>8. FilesOf(out[k]) # {}
  <2> DEFINE T == [head : Paths, files : Seq(TrueDnode)]
  <2>1. out \in Seq(T) BY DEF SoundInv, OutInv
  <2> HIDE DEF T
  <2>2. out[k] \in T BY <1>1, <2>1
  <2>3. out[k].files \in Seq(TrueDnode) BY <2>2 DEF T
  <2>4. 1 \in DOMAIN out[k].files BY <1>1, <2>3
  <2> QED BY <2>4 DEF FilesOf, ToSet
<1> HIDE DEF q
<1>9. Content(q) = ContentIn(entries, c, Arguments, q) BY <1>5, InsideIs
<1> QED BY <1>1, <1>5, <1>6, <1>7, <1>8, <1>9 DEF q

\* All headings, when ls ends,
LEMMA HeadingsAre ==
  ASSUME SoundInv, LookInv, WalkInv, faults = 0, pc = "done"
  PROVE  {About(k) : k \in DOMAIN out \ Listings} = IF Headed THEN Directories ELSE {}
<1>1. Headed <=> HeadedBy(c) BY DEF Headed, HeadedBy
<1>2. ASSUME NEW k \in DOMAIN out \ Listings
      PROVE  Headed /\ About(k) \in Directories
  <2>1. out[k].files = << >> BY DEF Listings
  <2>2. ItemTrue(entries, c, Arguments, out[k]) BY DEF WalkInv, ItemsInv
  <2>3. About(k) = out[k].head BY DEF About
  <2> QED BY <1>1, <2>1, <2>2, <2>3, DirectoriesAre DEF ItemTrue
<1>3. ASSUME Headed, NEW p \in Directories
      PROVE  \E k \in DOMAIN out \ Listings : p = About(k)
  <2> DEFINE S == Shown
             A == Arguments
             H == HeadsOf(out)
  <2>1. /\ p \in WantedIn(entries, c, Arguments) /\ EntersIn(entries, c, p) /\ p \in Paths
        /\ Remains(entries)
    BY DirectoriesAre DEF DirectoriesIn, SoundInv, FilesInv
  <2>2. InfoIn(entries, c, p) # Nothing BY <2>1, KernelTyped
  <2>3. p \in A \cup S BY <2>1, <2>2, WantedMet
  <2>4. stack = << >> BY DEF SoundInv, NodesInv
  <2>5. HeadedIn(entries, c, S, heap, << >>, A, H)
    <3>1. HeadedIn(entries, c, ShownIn(out), heap, stack, A, H)
      BY <1>1, <1>3 DEF WalkInv, HeadingsInv
    <3>2. S = ShownIn(out) BY ShownIs
    <3> HIDE DEF S
    <3> QED BY <2>4, <3>1, <3>2
  <2> HIDE DEF S, A, H
  <2>6. p \in H BY <2>1, <2>3, <2>5, NoneAwaitedAtEnd DEF HeadedIn
  <2>7. PICK k \in DOMAIN out : out[k].files = << >> /\ p = out[k].head
    BY <2>6 DEF H, HeadsOf
  <2>8. k \notin Listings BY <2>7 DEF Listings
  <2> QED BY <2>7, <2>8 DEF About
<1> QED BY <1>2, <1>3

\* and all listings.
LEMMA ListedAre ==
  ASSUME SoundInv, LookInv, WalkInv, faults = 0, pc = "done"
  PROVE  {About(k) : k \in Listings} = {q \in Directories \cup {<< >>} : Content(q) # {}}
<1>1. ASSUME NEW k \in Listings
      PROVE  About(k) \in Directories \cup {<< >>} /\ Content(About(k)) # {}
  BY ListingsAre
<1>2. ASSUME NEW q \in Directories \cup {<< >>}, NEW p \in Content(q)
      PROVE  \E k \in Listings : q = About(k)
  <2>0. << >> \in Paths BY DEF Paths
  <2>1. q \in DirectoriesIn(entries, c, Arguments) \cup {<< >>} /\ q \in Paths
    BY <2>0, DirectoriesAre
  <2>2. p \in ContentIn(entries, c, Arguments, q) BY <2>1, InsideIs
  <2>3. p \in Shown BY <2>1, <2>2, ContentShown
  <2>4. PICK k \in Listings : p \in Names(k) BY <2>3 DEF Shown
  <2> DEFINE r == About(k)
  <2>5. r \in Paths /\ p \in Content(r) BY <2>4, ListingsAre
  <2> HIDE DEF r
  <2>6. p \in InsideIn(entries, c, Arguments, q) /\ p \in InsideIn(entries, c, Arguments, r)
    BY <2>1, <2>2, <2>5, InsideIs DEF ContentIn
  <2>7. Remains(entries) /\ OptionsInv BY DEF SoundInv, FilesInv
  <2>8. Front(p) = q /\ Front(p) = r BY <2>1, <2>5, <2>6, <2>7, InsideFront
  <2> QED BY <2>8 DEF r
<1> QED BY <1>1, <1>2

\* They are all that AsReported asks for.
LEMMA WalkAsReported == SoundInv /\ LookInv /\ WalkInv => AsReported
<1> SUFFICES ASSUME SoundInv, LookInv, WalkInv, pc = "done", faults = 0
             PROVE  /\ {About(k) : k \in DOMAIN out \ Listings} = IF Headed THEN Directories ELSE {}
                    /\ {About(k) : k \in Listings} =
                         {q \in Directories \cup {<< >>} : Content(q) # {}}
                    /\ \A k \in Listings : Names(k) = Content(About(k))
                    /\ NamedOnce /\ NoneTooFar =>
                         \A j, k \in DOMAIN out : j < k =>
                           \/ Ahead(About(j), About(k))
                           \/ About(j) = About(k) /\ j \notin Listings /\ k \in Listings
  BY DEF AsReported
<1>1. \A k \in Listings : Names(k) = Content(About(k)) BY ListingsAre
<1>2. ASSUME NamedOnce, NoneTooFar, NEW j \in DOMAIN out, NEW k \in DOMAIN out, j < k
      PROVE  \/ Ahead(About(j), About(k))
             \/ About(j) = About(k) /\ j \notin Listings /\ k \in Listings
  <2>1. Orderly BY <1>2, OrderlyIs
  <2>2. Follows(entries, c, out[j], out[k]) BY <1>2, <2>1 DEF WalkInv, OrderInv, OutOrdered
  <2>3. About(j) = AboutItem(out[j]) /\ About(k) = AboutItem(out[k]) BY AboutIs
  <2>4. \A i \in DOMAIN out : About(i) \in Paths
    <3> DEFINE T == [head : Paths, files : Seq(TrueDnode)]
    <3>1. out \in Seq(T) BY DEF SoundInv, OutInv
    <3> HIDE DEF T
    <3>2. \A i \in DOMAIN out : out[i] \in T BY <3>1
    <3> QED BY <3>2, AboutTyped, AboutIs DEF T
  <2>5. (j \in Listings <=> out[j].files # << >>) /\ (k \in Listings <=> out[k].files # << >>)
    BY DEF Listings
  <2>6. AheadIn(entries, c, About(j), About(k)) => Ahead(About(j), About(k))
    <3> DEFINE p == About(j)
               q == About(k)
    <3>1. p \in Paths /\ q \in Paths BY <2>4
    <3> HIDE DEF p, q
    <3>2. AheadIn(entries, c, p, q) => Ahead(p, q) BY <3>1, AheadIs
    <3> QED BY <3>2 DEF p, q
  <2> QED BY <2>2, <2>3, <2>5, <2>6 DEF Follows
<1> QED BY <1>1, <1>2, HeadingsAre, ListedAre

\* When no file vanishes, what ls prints is a walk through the tree, each
\* directory with its heading and its content, once and in the order of the
\* options: AsReported, about the recursion of showdirs and list_dir, for every
\* file system, depth and order of readdir.
THEOREM OutputIsAWalk == Spec => []AsReported
BY WalkAlways, WalkAsReported, PTL
=============================================================================
