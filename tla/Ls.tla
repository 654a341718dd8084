--------------------------------- MODULE Ls ----------------------------------
(***************************************************************************)
(* ls.c, the stand-alone ls that is built next to the allocator: options,  *)
(* arguments, and the recursive walk through directories, with the dnodes  *)
(* that it allocates and frees on the way.  Module LsShow has the order    *)
(* and the layout of a listing.                                            *)
(*                                                                         *)
(* The file system changes while ls looks at it: Unlink takes a name away  *)
(* at any moment.  readdir returns the names of a directory in any order,  *)
(* and may or may not return one that has just gone.  A path is a sequence *)
(* of names, from the current directory; concat_path_file appends one.     *)
(* What list_single looks up again while it prints a link (readlink, stat) *)
(* is what was there when ls examined it.                                  *)
(*                                                                         *)
(* A dnode is a number, 0 the null pointer, never used again: a pointer to *)
(* a freed dnode does not come to life.  The array that list_dir makes of  *)
(* the chain of dnodes is a sequence of them.                              *)
(***************************************************************************)
EXTENDS LsShow

CONSTANTS
  Dot, DotDot,   \* the names "." and ".."
  Hidden,        \* the names that begin with a dot, these two included
  Attr,          \* what stat tells of each inode; links have a target, "to"
  Entries,       \* the directories at first: the inode of each name
  Cwd,           \* the inode of the current directory
  None,          \* no inode
  MaxLinks,      \* how many links the kernel follows on a path (ELOOP)
  MaxPath,       \* how many names the kernel accepts in a path (ENAMETOOLONG)
  MsgSize,       \* the bytes that perror_msg has for a message
  CommandLines,  \* the command lines, each with the columns of the terminal (0
                 \* if unknown), the numbers that -w may have, and the entries
                 \* (a directory and a name) that may vanish meanwhile,
  MaxFaults      \* and how many of them do, for model checking

ASSUME LsConstants ==
  /\ {Dot, DotDot} \subseteq Hidden /\ Hidden \subseteq DOMAIN NameLen /\ Dot # DotDot
  /\ {MaxLinks, MaxPath, MsgSize, MaxFaults} \subseteq Nat

\* A directory is an inode with entries, and every inode has what stat tells.
ASSUME InodeConstants ==
  /\ Cwd \in DOMAIN Entries /\ None \notin DOMAIN Attr
  /\ DOMAIN Entries = {i \in DOMAIN Attr : Attr[i].type = "dir"}
  /\ \A i \in DOMAIN Attr :
       /\ Attr[i].type \in FileTypes
       /\ {Attr[i].size, Attr[i].mtime, Attr[i].ctime, Attr[i].atime} \subseteq Nat
       /\ Attr[i].type = "lnk" => Attr[i].to \in DOMAIN Attr \cup {None}
  /\ \A d \in DOMAIN Entries :
       /\ DOMAIN Entries[d] \subseteq DOMAIN NameLen
       /\ \A n \in DOMAIN Entries[d] : Entries[d][n] \in DOMAIN Attr
       /\ Dot \in DOMAIN Entries[d] /\ Entries[d][Dot] = d

ASSUME CommandLineConstants ==
  \A l \in CommandLines :
    /\ l.opts \in Seq(STRING) /\ l.args \in Seq(DOMAIN NameLen) /\ l.tty \in BOOLEAN
    /\ l.cols \in 0..(2 * ShortHalf - 1) /\ l.widths \subseteq Int
    /\ \A e \in l.moves : e[1] \in DOMAIN Entries

VARIABLES
  cmd,      \* the command line, and what else there is at first
  opts,     \* the options that getopt has yet to return
  args,     \* the arguments without a dnode
  c,        \* the settings: disp_opts, style_fmt, list_fmt and so on
  entries,  \* the directories
  heap,     \* the dnodes
  made,     \* how many dnodes there have been
  dn,       \* the chain under construction
  dir,      \* the directory being read: its inode, and names not returned yet
  stack,    \* the calls of showdirs: array, index, and the listing of dn[i]
  out,      \* what has been printed: headings, and the arrays given to showfiles
  status,
  errors,   \* the paths that stderr has a message about
  pc,       \* "options", "args", "showdirs", "readdir", "done", "usage"
  exit,     \* how the process has ended, or "running"
  faults    \* how many names have vanished

settings == <<cmd, opts, c>>
nodes == <<heap, made, dn>>
fs == <<entries, faults>>
report == <<status, errors>>
lsvars == <<settings, args, nodes, fs, dir, stack, out, report, pc>>
vars == <<lsvars, exit>>

-----------------------------------------------------------------------------
(* The kernel.  A walk is at an inode and has followed some links.         *)

Inodes == DOMAIN Attr \cup {None}
Lost == [ino |-> None, links |-> 0]

Walks == [ino : Inodes, links : 0..MaxLinks]

\* It follows the links at its end, or fails;
FollowOne == [w \in Walks |->
  IF w.ino = None \/ Attr[w.ino].type # "lnk" THEN w
  ELSE IF w.links = MaxLinks THEN Lost ELSE [ino |-> Attr[w.ino].to, links |-> w.links + 1]]
Follow(w) == Repeat(FollowOne, MaxLinks + 1, w)

\* looks a name up,
Lookup(w, name) ==
  IF w.ino \in DOMAIN entries /\ name \in DOMAIN entries[w.ino]
    THEN [ino |-> entries[w.ino][name], links |-> w.links] ELSE Lost

\* and so goes along a path.
Walk(path) ==
  LET body == [s \in [at : Walks, k : Nat] |->
        [at |-> Lookup(Follow(s.at), path[s.k + 1]), k |-> s.k + 1]]
  IN IF Len(path) > MaxPath THEN Lost
     ELSE Repeat(body, Len(path), [at |-> [ino |-> Cwd, links |-> 0], k |-> 0]).at

Lstat(path) == Walk(path).ino
Stat(path) == Follow(Walk(path)).ino
Opendir(path) ==
  IF Stat(path) \in DOMAIN entries /\ Attr[Stat(path)].open THEN Stat(path) ELSE None

-----------------------------------------------------------------------------
(* Options.                                                                *)

TERMINAL_WIDTH == 80

Settings(cols) ==
  [disp |-> {}, style |-> "AUTO", list |-> {"FILENAME"}, sort |-> "name", reverse |-> FALSE,
   time |-> "mtime", follow |-> FALSE, hr |-> FALSE,
   width |-> IF cols > 0 THEN cols - 1 ELSE TERMINAL_WIDTH]

LIST_LONG == {"MODEBITS", "NLINKS", "ID_NAME", "SIZE", "DATE_TIME", "FILENAME", "SYMLINK"}
\* Nothing reads tabstops, which -T sets.
Ignored == {"g", "k", "T"}

\* One option.  -x begins anew with what to display.
GetOpt(o) ==
  \/ o = "1" /\ c' = [c EXCEPT !.style = "SINGLE"]
  \/ o = "A" /\ c' = [c EXCEPT !.disp = @ \cup {"HIDDEN"}]
  \/ o = "a" /\ c' = [c EXCEPT !.disp = @ \cup {"HIDDEN", "DOT"}]
  \/ o = "C" /\ c' = [c EXCEPT !.style = "COLUMNS"]
  \/ o = "d" /\ c' = [c EXCEPT !.disp = @ \cup {"NOLIST"}]
  \/ o = "i" /\ c' = [c EXCEPT !.list = @ \cup {"INO"}]
  \/ o = "l" /\ c' = [c EXCEPT !.style = "LONG", !.list = @ \cup LIST_LONG, !.hr = FALSE]
  \/ o = "n" /\ c' = [c EXCEPT !.list = @ \cup {"ID_NUMERIC"}]
  \/ o = "s" /\ c' = [c EXCEPT !.list = @ \cup {"BLOCKS"}]
  \/ o = "x" /\ c' = [c EXCEPT !.disp = {"ROWS"}]
  \/ o = "F" /\ c' = [c EXCEPT !.list = @ \cup {"FILETYPE", "EXEC"}]
  \/ o = "p" /\ c' = [c EXCEPT !.list = @ \cup {"FILETYPE"}]
  \/ o = "R" /\ c' = [c EXCEPT !.disp = @ \cup {"RECURSIVE"}]
  \/ o = "r" /\ c' = [c EXCEPT !.reverse = TRUE]
  \/ o = "S" /\ c' = [c EXCEPT !.sort = "size"]
  \/ o \in {"v", "X"} /\ c' = [c EXCEPT !.sort = "name"]
  \/ o = "e" /\ c' = [c EXCEPT !.list = @ \cup {"FULLTIME"}]
  \/ o = "c" /\ c' = [c EXCEPT !.time = "ctime", !.sort = "ctime"]
  \/ o = "u" /\ c' = [c EXCEPT !.time = "atime", !.sort = "atime"]
  \/ o = "t" /\ c' = [c EXCEPT !.sort = "mtime"]
  \/ o = "L" /\ c' = [c EXCEPT !.follow = TRUE]
  \/ o = "w" /\ \E n \in cmd.widths : c' = [c EXCEPT !.width = ToUshort(n)]
  \/ o = "h" /\ c' = [c EXCEPT !.hr = TRUE]
  \/ o \in Ignored /\ UNCHANGED c
OptionLetters == {"1", "A", "a", "C", "d", "i", "l", "n", "s", "x", "F", "p", "R", "r", "S",
                  "v", "X", "e", "c", "u", "t", "L", "w", "h"} \cup Ignored

\* Mutant: -t and -S keep their say after -c and -u.
SettleUnordered(s, tty, nargs) ==
  [s EXCEPT
    !.disp = (IF "NOLIST" \in @ THEN @ \ {"RECURSIVE"} ELSE @)
             \cup (IF nargs > 1 THEN {"DIRNAME"} ELSE {}),
    !.list = IF s.style # "LONG" THEN @ \ {"ID_NUMERIC"}
             ELSE IF "ID_NUMERIC" \in @ THEN @ \ {"ID_NAME"} ELSE @,
    !.style = IF @ # "AUTO" THEN @ ELSE IF tty THEN "COLUMNS" ELSE "SINGLE"]

\* Which options take precedence, the format, and the labels of directories.
Settle(s, tty, nargs) ==
  [s EXCEPT
    !.disp = (IF "NOLIST" \in @ THEN @ \ {"RECURSIVE"} ELSE @)
             \cup (IF nargs > 1 THEN {"DIRNAME"} ELSE {}),
    !.sort = IF s.time # "mtime" THEN s.time ELSE @,
    !.list = IF s.style # "LONG" THEN @ \ {"ID_NUMERIC"}
             ELSE IF "ID_NUMERIC" \in @ THEN @ \ {"ID_NAME"} ELSE @,
    !.style = IF @ # "AUTO" THEN @ ELSE IF tty THEN "COLUMNS" ELSE "SINGLE"]

-----------------------------------------------------------------------------
(* Dnodes.                                                                 *)

\* The chain from a dnode on.
Chain(id) ==
  LET body == [s \in [ids : Seq(Nat), next : Nat] |->
        IF s.next = 0 THEN s
        ELSE [ids |-> Append(s.ids, s.next), next |-> heap[s.next].next]]
  IN Repeat(body, made, [ids |-> << >>, next |-> id]).ids

\* The dnodes of an array that belong to a set, in their order.
Keep(ids, set) ==
  LET body == [s \in [kept : Seq(set), i : Nat] |->
        [kept |-> IF ids[s.i] \in set THEN Append(s.kept, ids[s.i]) ELSE s.kept,
         i |-> s.i + 1]]
  IN Repeat(body, Len(ids), [kept |-> << >>, i |-> 1]).kept

Sorted(ids) == Shellsort(ids, heap, c)
Listing(ids) == [head |-> << >>, files |-> [k \in DOMAIN ids |-> heap[ids[k]]]]
Heading(path) == [head |-> path, files |-> << >>]

Dirs == {id \in DOMAIN heap : heap[id].dstat.type = "dir"}
Subdirs == {id \in Dirs : heap[id].name \notin {Dot, DotDot}}

Dnode(path, ino) ==
  LET end == Follow([ino |-> ino, links |-> 0]).ino
  IN [name |-> Last(path), fullname |-> path, next |-> dn, dstat |-> Attr[ino],
      end |-> IF end = None THEN [type |-> "none"] ELSE Attr[end]]

\* A path has slashes between its names.  The message in front of it, "ls: ",
\* and the zero behind need room as well.
PathLen(path) == FoldLeft(LAMBDA len, name : len + 1 + NameLen[name], -1, path)
Overruns(path) == 4 + PathLen(path) + 1 > MsgSize

\* perror_msg, which takes any path.
PerrorMsg(path) == errors' = errors \cup {path}

\* Mutant: a file that cannot be examined is no failure.
AddDnodeSilent(path) ==
  LET ino == IF c.follow THEN Stat(path) ELSE Lstat(path)
  IN IF ino = None THEN UNCHANGED <<nodes, report>>
     ELSE /\ made' = made + 1 /\ dn' = made + 1
          /\ heap' = [k \in DOMAIN heap \cup {made + 1} |->
                        IF k = made + 1 THEN Dnode(path, ino) ELSE heap[k]]
          /\ UNCHANGED report

\* A new dnode, in front of the chain, unless my_stat fails; then its memory
\* goes back.
AddDnode(path) ==
  LET ino == IF c.follow THEN Stat(path) ELSE Lstat(path)
  IN IF ino = None THEN status' = "FAILURE" /\ PerrorMsg(path) /\ UNCHANGED nodes
     ELSE /\ made' = made + 1 /\ dn' = made + 1
          /\ heap' = [k \in DOMAIN heap \cup {made + 1} |->
                        IF k = made + 1 THEN Dnode(path, ino) ELSE heap[k]]
          /\ UNCHANGED report

\* dfree: the chain from the first element of the array on.  After a sort
\* that need not be the first of the chain.
Dfree(ids) == ToSet(Chain(ids[1]))
Without(ids) == [k \in DOMAIN heap \ Dfree(ids) |-> heap[k]]

-----------------------------------------------------------------------------
(* ls_main.                                                                *)

Init ==
  /\ cmd \in CommandLines /\ opts = cmd.opts /\ args = cmd.args
  /\ c = Settings(cmd.cols)
  /\ entries = Entries /\ faults = 0
  /\ heap = << >> /\ made = 0 /\ dn = 0
  /\ dir = [ino |-> None, left |-> {}]
  /\ stack = << >> /\ out = << >>
  /\ status = "SUCCESS" /\ errors = {} /\ pc = "options" /\ exit = "running"

Option ==
  /\ pc = "options" /\ opts # << >> /\ Head(opts) \in OptionLetters
  /\ GetOpt(Head(opts))
  /\ opts' = Tail(opts)
  /\ UNCHANGED <<cmd, args, nodes, fs, dir, stack, out, report, pc>>

Usage ==
  /\ pc = "options" /\ opts # << >> /\ Head(opts) \notin OptionLetters
  /\ pc' = "usage"
  /\ UNCHANGED <<settings, args, nodes, fs, dir, stack, out, report>>

\* The options are settled; without arguments the directory is ".".
OptionsDone ==
  /\ pc = "options" /\ opts = << >>
  /\ args' = IF args = << >> THEN <<Dot>> ELSE args
  /\ c' = Settle(c, cmd.tty, Len(args'))
  /\ pc' = "args"
  /\ UNCHANGED <<cmd, opts, nodes, fs, dir, stack, out, report>>

Argument ==
  /\ pc = "args" /\ args # << >>
  /\ AddDnode(<<Head(args)>>)
  /\ args' = Tail(args)
  /\ UNCHANGED <<settings, fs, dir, stack, out, pc>>

Frame(ids) == [dn |-> Sorted(ids), i |-> 1, sub |-> << >>]

\* All arguments as they are with -d; otherwise first the files.
ArgumentsDone ==
  /\ pc = "args" /\ args = << >>
  /\ LET dnp == Chain(dn)
         files == IF "NOLIST" \in c.disp THEN dnp ELSE Keep(dnp, DOMAIN heap \ Dirs)
         dirs == IF "NOLIST" \in c.disp THEN << >> ELSE Keep(dnp, Dirs)
     IN /\ out' = IF files = << >> THEN out ELSE Append(out, Listing(Sorted(files)))
        /\ IF dirs = << >> THEN pc' = "done" /\ UNCHANGED stack
           ELSE pc' = "showdirs" /\ stack' = <<Frame(dirs)>>
  /\ UNCHANGED <<settings, args, nodes, fs, dir, report>>

-----------------------------------------------------------------------------
(* showdirs and list_dir.                                                  *)

Top == Last(stack)
Path == heap[Top.dn[Top.i]].fullname
NextDir(s) == [s EXCEPT ![Len(s)].i = @ + 1, ![Len(s)].sub = << >>]

\* Mutant: a directory that cannot be opened is tried again.
ShowDirRetry ==
  /\ pc = "showdirs" /\ Top.i <= Len(Top.dn)
  /\ out' = IF c.disp \cap {"DIRNAME", "RECURSIVE"} = {} THEN out
            ELSE Append(out, Heading(Path))
  /\ IF Opendir(Path) = None
       THEN status' = "FAILURE" /\ PerrorMsg(Path) /\ UNCHANGED <<dir, dn, pc, stack>>
       ELSE /\ dir' = [ino |-> Opendir(Path), left |-> DOMAIN entries[Opendir(Path)]]
            /\ dn' = 0 /\ pc' = "readdir"
            /\ UNCHANGED <<stack, report>>
  /\ UNCHANGED <<settings, args, heap, made, fs>>

\* The next directory of showdirs: its heading, and opendir.
ShowDir ==
  /\ pc = "showdirs" /\ Top.i <= Len(Top.dn)
  /\ out' = IF c.disp \cap {"DIRNAME", "RECURSIVE"} = {} THEN out
            ELSE Append(out, Heading(Path))
  /\ IF Opendir(Path) = None
       THEN /\ status' = "FAILURE" /\ PerrorMsg(Path)
            /\ stack' = NextDir(stack) /\ UNCHANGED <<dir, dn, pc>>
       ELSE /\ dir' = [ino |-> Opendir(Path), left |-> DOMAIN entries[Opendir(Path)]]
            /\ dn' = 0 /\ pc' = "readdir"
            /\ UNCHANGED <<stack, report>>
  /\ UNCHANGED <<settings, args, heap, made, fs>>

\* Mutant: -A shows "." and ".." as well.
SkippedDots(n) == n \in Hidden /\ "HIDDEN" \notin c.disp

Skipped(n) ==
  \/ n \in {Dot, DotDot} /\ "DOT" \notin c.disp
  \/ n \in Hidden /\ "HIDDEN" \notin c.disp

\* readdir returns a name,
ReadEntry(n) ==
  /\ pc = "readdir" /\ n \in dir.left
  /\ dir' = [dir EXCEPT !.left = @ \ {n}]
  /\ IF Skipped(n) THEN UNCHANGED <<nodes, report>> ELSE AddDnode(Append(Path, n))
  /\ UNCHANGED <<settings, args, fs, stack, out, pc>>

\* or no longer finds it.
MissEntry(n) ==
  /\ pc = "readdir" /\ n \in dir.left \ DOMAIN entries[dir.ino]
  /\ dir' = [dir EXCEPT !.left = @ \ {n}]
  /\ UNCHANGED <<settings, args, nodes, fs, stack, out, report, pc>>

\* Mutant: the dnodes are freed before their directories are visited.
EndDirFreesFirst ==
  /\ pc = "readdir" /\ dir.left = {}
  /\ LET subdnp == Sorted(Chain(dn))
         subdirs == Keep(subdnp, Subdirs)
     IN IF subdnp = << >> THEN stack' = NextDir(stack) /\ UNCHANGED <<heap, out>>
        ELSE /\ out' = Append(out, Listing(subdnp))
             /\ heap' = Without(subdnp)
             /\ stack' = IF "RECURSIVE" \in c.disp /\ subdirs # << >>
                           THEN Append([stack EXCEPT ![Len(stack)].sub = subdnp], Frame(subdirs))
                           ELSE NextDir(stack)
  /\ dn' = 0 /\ pc' = "showdirs"
  /\ UNCHANGED <<settings, args, made, fs, dir, report>>

\* The directory has been read: its files are sorted and shown; then come its
\* subdirectories, with -R, or the dnodes are freed.
EndDir ==
  /\ pc = "readdir" /\ dir.left = {}
  /\ LET subdnp == Sorted(Chain(dn))
         subdirs == Keep(subdnp, Subdirs)
     IN IF subdnp = << >> THEN stack' = NextDir(stack) /\ UNCHANGED <<heap, out>>
        ELSE /\ out' = Append(out, Listing(subdnp))
             /\ IF "RECURSIVE" \in c.disp /\ subdirs # << >>
                  THEN /\ stack' = Append([stack EXCEPT ![Len(stack)].sub = subdnp],
                                          Frame(subdirs))
                       /\ UNCHANGED heap
                  ELSE heap' = Without(subdnp) /\ stack' = NextDir(stack)
  /\ dn' = 0 /\ pc' = "showdirs"
  /\ UNCHANGED <<settings, args, made, fs, dir, report>>

\* showdirs returns, to the one that goes on after its recursive call.
Return ==
  /\ pc = "showdirs" /\ Top.i > Len(Top.dn)
  /\ IF Len(stack) = 1 THEN pc' = "done" /\ stack' = << >> /\ UNCHANGED heap
     ELSE /\ heap' = Without(stack[Len(stack) - 1].sub)
          /\ stack' = NextDir(Front(stack))
          /\ UNCHANGED pc
  /\ UNCHANGED <<settings, args, made, dn, fs, dir, out, report>>

-----------------------------------------------------------------------------
\* Someone removes or moves a file or a directory; ls has no eye on any before
\* its arguments.
Unlink(d, n) ==
  /\ faults < MaxFaults /\ pc \notin {"options", "done", "usage"}
  /\ n \in DOMAIN entries[d] \ {Dot, DotDot}
  /\ entries' = [entries EXCEPT ![d] = [m \in DOMAIN @ \ {n} |-> @[m]]]
  /\ faults' = faults + 1
  /\ UNCHANGED <<settings, args, nodes, dir, stack, out, report, pc>>

LsMain ==
  \/ Option \/ Usage \/ OptionsDone \/ Argument \/ ArgumentsDone
  \/ ShowDir \/ EndDir \/ Return
  \/ \E n \in dir.left : ReadEntry(n) \/ MissEntry(n)

\* main: whatever ls_main returns, the process exits with 0.
Main ==
  /\ exit = "running" /\ pc \in {"done", "usage"}
  /\ exit' = "SUCCESS"
  /\ UNCHANGED lsvars

\* A message that does not fit was written beyond the array.  That may go
\* unnoticed, or end the process, then or when the damage is met.
Crash ==
  /\ exit = "running" /\ \E path \in errors : Overruns(path)
  /\ exit' = "killed"
  /\ UNCHANGED lsvars

Running(A) == exit = "running" /\ A /\ UNCHANGED exit
Step == Running(LsMain) \/ Main

Next == Step \/ Crash \/ \E e \in cmd.moves : Running(Unlink(e[1], e[2]))

\* ls runs on by itself; nobody has to remove files.
Spec == Init /\ [][Next]_vars /\ WF_vars(Step)
=============================================================================
