-------------------------------- MODULE MCLs ---------------------------------
EXTENDS LsProps

\* Names, in the order of strcmp: 0 ".", 1 "..", 2 ".h", then 3 to 7.
Lengths == [n \in 0..7 |-> <<1, 2, 2, 1, 3, 5, 2, 8>>[n + 1]]

Reg(size, t, x) == [type |-> "reg", size |-> size, mtime |-> t, ctime |-> 7 - t,
                    atime |-> t % 2, exec |-> x]
Link(to) == [type |-> "lnk", size |-> 5, mtime |-> 3, ctime |-> 3, atime |-> 3,
             exec |-> FALSE, to |-> to]
Dir(open) == [type |-> "dir", size |-> 4, mtime |-> 2, ctime |-> 2, atime |-> 2,
              exec |-> TRUE, open |-> open]

\* Inode 10 holds a hidden file, a directory and a link back to itself; 12 is
\* shut; the files of 13 are of sizes and times with ties; those of 14 are too
\* far apart in size for an int (IntHalf is 8).
Attributes ==
  (1 :> Dir(TRUE)) @@ (10 :> Dir(TRUE)) @@ (11 :> Dir(TRUE)) @@ (12 :> Dir(FALSE))
  @@ (13 :> Dir(TRUE)) @@ (14 :> Dir(TRUE))
  @@ (20 :> Reg(1, 1, FALSE)) @@ (21 :> Reg(3, 0, TRUE)) @@ (22 :> Link(10)) @@ (23 :> Link(0))
  @@ (30 :> Reg(2, 5, FALSE)) @@ (31 :> Reg(7, 1, TRUE)) @@ (32 :> Reg(2, 4, FALSE))
  @@ (33 :> Reg(5, 5, FALSE)) @@ (34 :> Reg(0, 3, FALSE))
  @@ (40 :> Reg(0, 1, FALSE)) @@ (41 :> Reg(6, 1, FALSE)) @@ (42 :> Reg(12, 1, FALSE))

Self(d, up) == (0 :> d) @@ (1 :> up)
Tree ==
  (1 :> (Self(1, 1) @@ (3 :> 10) @@ (4 :> 20) @@ (5 :> 13) @@ (6 :> 12) @@ (7 :> 14)))
  @@ (10 :> (Self(10, 1) @@ (2 :> 21) @@ (3 :> 11) @@ (4 :> 22)))
  @@ (11 :> (Self(11, 10) @@ (5 :> 20) @@ (6 :> 23)))
  @@ (12 :> Self(12, 1))
  @@ (13 :> (Self(13, 1) @@ (3 :> 30) @@ (4 :> 31) @@ (5 :> 32) @@ (6 :> 33) @@ (7 :> 34)))
  @@ (14 :> (Self(14, 1) @@ (3 :> 40) @@ (4 :> 41) @@ (5 :> 42)))

CommandLine(o, a, tty, moves) ==
  [opts |-> o, args |-> a, tty |-> tty, moves |-> moves, cols |-> 0, widths |-> {20}]

\* What may vanish: a file, a directory, and things inside it.
Vanishing == {<<1, 4>>, <<1, 3>>, <<10, 3>>, <<10, 4>>, <<11, 5>>}

\* Orders and columns, over the five files; walks over the tree; arguments of
\* every kind; and the sequences of two or three options that affect each other.
\* Files vanish where a command line has several of them to examine.
Orders == {CommandLine(o, <<5>>, TRUE, {<<13, 5>>}) :
  o \in {<<"S">>, <<"t", "w">>, <<"u", "r", "C">>, <<"i", "x", "F">>, <<"s">>, <<"c", "p", "w">>}}
Widths == {1, 7, 8, 14, 15, 21, 22, 30, ShortHalf, ShortHalf + 1}
Windows == {[CommandLine(o, <<7>>, TRUE, {}) EXCEPT !.cols = n] :
              o \in {<< >>, <<"i", "x">>}, n \in Widths}
  \cup {[CommandLine(o, <<7>>, TRUE, {}) EXCEPT !.cols = 30,
            !.widths = Widths \cup {n - 2 * ShortHalf : n \in Widths} \cup {-1, 0}] :
          o \in {<<"w">>, <<"w", "S">>}}
Recursions == {CommandLine(o, <<3>>, FALSE, Vanishing) :
  o \in {<<"R">>, <<"R", "L">>, <<"R", "A", "l">>, <<"a">>}}
  \cup {CommandLine(<<"a", "R", "r">>, <<3>>, FALSE, {})}
ArgumentLists == {CommandLine(o, a, TRUE, Vanishing) :
  o \in {<<"1">>, <<"d", "l">>, <<"S">>, <<"A", "?">>},
  a \in {<< >>, <<4, 3>>, <<4, 2>>, <<6>>, <<6, 7, 4>>, <<7>>, <<4, 4>>}}
Letters == {"1", "C", "l", "a", "A", "d", "R", "x", "S", "t", "c", "u", "v", "n", "h", "e", "T"}
Mixed == {"l", "h", "a", "x", "d", "R", "c", "t"}
OptionOrders == {CommandLine(o, <<4>>, FALSE, {}) :
  o \in (UNION {[1..n -> Letters] : n \in 0..2}) \cup [1..3 -> Mixed]}
Commands == Orders \cup Windows \cup Recursions \cup ArgumentLists \cup OptionOrders

Sampled == 0..60 \cup {m * 20^u + d : m \in {1, 19, 20}, u \in 1..5, d \in -2..2}
           \cup {20^5 * k + 20^4 * j : k \in 0..25, j \in {0, 10, 19}}
=============================================================================
