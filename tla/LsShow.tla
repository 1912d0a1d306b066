------------------------------- MODULE LsShow -------------------------------
(***************************************************************************)
(* What ls shows and in which order: mastercmp() and the comparisons of    *)
(* cmp.c, traverse() and display() (src/ls/ls.c), and the layouts of       *)
(* print.c.  An entry is [name, info, locked, level, dot, size, time,      *)
(* len]: info is what fts(3), which is external, says of it: "D" a         *)
(* directory, "F" another file, "NS" without stat information, or "ERR";   *)
(* locked is a directory that cannot be read, dot a name that begins so.   *)
(* Times are pairs of seconds and nanoseconds; f is what LsOptions leaves. *)
(***************************************************************************)
EXTENDS Integers, SequencesExt

Sign(n) == CASE n > 0 -> 1 [] n < 0 -> -1 [] OTHER -> 0

(* cmp.c: the larger, or later, first; namecmp() when there is none; the   *)
(* rev... functions the other way round. *)
NameCmp(a, b) == Sign(a.name - b.name)
TimeCmp(a, b) ==
  IF a.time[1] # b.time[1] THEN Sign(b.time[1] - a.time[1]) ELSE Sign(b.time[2] - a.time[2])
KeyCmp(key, a, b) ==
  CASE key = "BY_NAME" -> 0
    [] key = "BY_SIZE" -> Sign(b.size - a.size)
    [] OTHER           -> TimeCmp(a, b)
SortFcn(sort, a, b) ==
  LET c == IF KeyCmp(sort.key, a, b) # 0 THEN KeyCmp(sort.key, a, b) ELSE NameCmp(a, b)
  IN  IF sort.reverse THEN -c ELSE c

(* mastercmp(). *)
(* Variant: NS is looked at for a only. *)
MasterCmpHalf(f, sort, a, b) ==
  CASE a.info = "ERR" \/ b.info = "ERR" -> 0
    [] a.info = "NS" /\ b.info # "ERR"  -> IF b.info # "NS" THEN 1 ELSE NameCmp(a, b)
    [] OTHER -> SortFcn(sort, a, b)

MasterCmp(f, sort, a, b) ==
  LET infos == {a.info, b.info}
      apart == a.info # b.info /\ "listdir" \notin f.on /\ a.level = 0
  IN  CASE "ERR" \in infos -> 0
        [] "ERR" \notin infos /\ "NS" \in infos ->
             IF b.info # "NS" THEN 1 ELSE IF a.info # "NS" THEN -1 ELSE NameCmp(a, b)
        [] infos \cap {"ERR", "NS"} = {} /\ apart /\ "D" \in infos ->
             IF a.info = "D" THEN 1 ELSE -1
        [] OTHER -> SortFcn(sort, a, b)

-----------------------------------------------------------------------------
(* display(): what is printed of a list, argv's when top, and the status.  *)
Hidden(f, top, e) ==
  \/ e.info \in {"ERR", "NS"}
  \/ IF top THEN e.info = "D" /\ "listdir" \notin f.on
     ELSE e.dot /\ "listdot" \notin f.on

Display(f, top, list) ==
  LET shown == SelectSeq(list, LAMBDA e : ~Hidden(f, top, e))
  IN  [names |-> shown, failed |-> \E i \in DOMAIN list : list[i].info \in {"ERR", "NS"},
       maxlen |-> IF shown = <<>> THEN 0
                  ELSE CHOOSE n \in {shown[i].len : i \in DOMAIN shown} :
                         \A i \in DOMAIN shown : shown[i].len <= n]

(* traverse(): the lists that are displayed, argv's first.  roots are the  *)
(* entries of argv, kids[n] those of the directory n, both in the order of *)
(* mastercmp().  A directory that cannot be read is displayed as empty,    *)
(* and then told of.  A hidden one is not displayed, but fts_read() goes   *)
(* on into it.                                                             *)
Failure == <<[names |-> <<>>, failed |-> TRUE, maxlen |-> 0]>>

Traverse(f, roots, kids) ==
  LET hidden(e) == e.level > 0 /\ e.dot /\ "listdot" \notin f.on
      visit[e \in ToSet(roots) \cup UNION {ToSet(kids[n]) : n \in DOMAIN kids}] ==
        LET here == IF hidden(e) THEN <<>> ELSE <<Display(f, FALSE, kids[e.name])>>
            stops == ~hidden(e) /\ "recursive" \notin f.on     \* FTS_SKIP
        IN  CASE e.info = "D" /\ e.locked  -> here \o Failure
              [] e.info = "D" /\ ~e.locked ->
                   here \o IF stops THEN <<>>
                           ELSE FlattenSeq([i \in DOMAIN kids[e.name] |-> visit[kids[e.name][i]]])
              [] e.info = "ERR" -> Failure
              [] OTHER          -> <<>>
  IN  <<Display(f, TRUE, roots)>>
        \o IF "listdir" \in f.on THEN <<>>
           ELSE FlattenSeq([i \in DOMAIN roots |-> visit[roots[i]]])

-----------------------------------------------------------------------------
(* The layouts: rows of entries.  extra is the room for the inode, the     *)
(* size and the type beside a name.  Without a -l every entry, and the     *)
(* room behind it, is as wide as the widest. *)
OnePerLine(names) == [i \in DOMAIN names |-> <<names[i]>>]      \* printscol(), printlong()

ColWidth(d, extra) == d.maxlen + extra + 1
NumCols(d, termwidth, extra) == termwidth \div ColWidth(d, extra)

(* printcol(): down the columns. *)
(* Variant: a last row that is not full is left out. *)
PrintColFullRows(d, termwidth, extra) ==
  LET num == Len(d.names)
      numcols == NumCols(d, termwidth, extra)
      numrows == num \div numcols
  IN  IF termwidth < 2 * ColWidth(d, extra) THEN OnePerLine(d.names)
      ELSE [row \in 1 .. numrows |->
             [col \in 1 .. numcols |-> d.names[row + (col - 1) * numrows]]]

PrintCol(d, termwidth, extra) ==
  LET num == Len(d.names)
      numcols == NumCols(d, termwidth, extra)
      numrows == num \div numcols + (IF num % numcols # 0 THEN 1 ELSE 0)
      fits(row) == {col \in 1 .. numcols : row + (col - 1) * numrows <= num}
  IN  IF termwidth < 2 * ColWidth(d, extra) THEN OnePerLine(d.names)
      ELSE [row \in 1 .. numrows |->
             [col \in fits(row) |-> d.names[row + (col - 1) * numrows]]]

(* printacol(): across the rows; => is read as >=. *)
PrintACol(d, termwidth, extra) ==
  LET num == Len(d.names)
      numcols == NumCols(d, termwidth, extra)
      ends(row) == IF row * numcols < num THEN row * numcols ELSE num
  IN  IF termwidth < 2 * ColWidth(d, extra) THEN OnePerLine(d.names)
      ELSE [row \in 1 .. (num + numcols - 1) \div numcols |->
             SubSeq(d.names, (row - 1) * numcols + 1, ends(row))]

(* printstream(): col is 0 until something is printed. *)
PrintStream(d) == <<>>

PrintList(fn, d, termwidth, extra) ==
  IF d.names = <<>> THEN <<>>                    \* display(): no entries
  ELSE CASE fn \in {"printscol", "printlong"} -> OnePerLine(d.names)
         [] fn = "printcol"    -> PrintCol(d, termwidth, extra)
         [] fn = "printacol"   -> PrintACol(d, termwidth, extra)
         [] fn = "printstream" -> PrintStream(d)

(* Everything that ls prints, and its status. *)
Ls(f, fn, roots, kids, termwidth, extra) ==
  LET lists == Traverse(f, roots, kids)
  IN  [rows |-> FlattenSeq([i \in DOMAIN lists |-> PrintList(fn, lists[i], termwidth, extra)]),
       lists |-> lists,
       rval |-> IF \E i \in DOMAIN lists : lists[i].failed THEN 1 ELSE 0]

-----------------------------------------------------------------------------
(* The order that mastercmp() gives to entries of one list can be sorted   *)
(* by: it goes one way, it is transitive, and entries of which neither is  *)
(* first have one name.  Its cases, by what fts(3) says and by the sort,   *)
(* fit together (ls.c:659 to 690, cmp.c).  Not so with entries in error.   *)
OrderSorts(f, sort, a, b, c) ==
  LET cmp(x, y) == MasterCmp(f, sort, x, y) IN
  "ERR" \notin {a.info, b.info, c.info} /\ a.level = b.level /\ b.level = c.level =>
    /\ cmp(a, b) = -cmp(b, a)
    /\ cmp(a, b) = 0 => a.name = b.name
    /\ cmp(a, b) < 0 /\ cmp(b, c) < 0 => cmp(a, c) < 0

(* What ls has to show: of argv what is no directory, and what is in each  *)
(* directory of argv, with -R in each directory below.                     *)
Entries(roots, kids) == ToSet(roots) \cup UNION {ToSet(kids[n]) : n \in DOMAIN kids}

ToShow(f, roots, kids) ==
  LET seen(e) == e.info \notin {"ERR", "NS"} /\ (e.dot => "listdot" \in f.on)
      opened == {n \in DOMAIN kids :
                   \E e \in Entries(roots, kids) :
                     /\ e.name = n /\ e.info = "D"
                     /\ e \in ToSet(roots) \/ ("recursive" \in f.on /\ seen(e))}
  IN  IF "listdir" \in f.on THEN {e \in ToSet(roots) : e.info \notin {"ERR", "NS"}}
      ELSE {e \in ToSet(roots) : e.info \notin {"D", "ERR", "NS"}}
           \cup UNION {{e \in ToSet(kids[n]) : seen(e)} : n \in opened}

(* Every entry is printed once, in columns too: the lists leave out what   *)
(* is hidden or comes later, the columns divide by the widest name, and    *)
(* down the columns the last ones are short; no row is wider than the      *)
(* terminal; and what could not be looked at fails the status (ls.c:380 to *)
(* 447, 482 to 643, print.c:70 to 331).  Not so with -m, and below hidden  *)
(* directories.                                                            *)
EveryEntryOnce(f, fn, roots, kids, termwidth, extra) ==
  LET r == Ls(f, fn, roots, kids, termwidth, extra)
      printed == FlattenSeq(r.rows)
      inRow(row, list) == \A i \in DOMAIN row : row[i] \in ToSet(list.names)
  IN  (/\ fn # "printstream"
       /\ \A e \in Entries(roots, kids) :
            e.dot /\ e.level > 0 /\ e.info = "D" =>
              \A i \in DOMAIN kids[e.name] : kids[e.name][i].info # "D") =>
        /\ ToSet(printed) = ToShow(f, roots, kids)
        /\ Len(printed) = Cardinality(ToShow(f, roots, kids))
        /\ \A i \in DOMAIN r.rows : Len(r.rows[i]) > 1 =>
             \E l \in DOMAIN r.lists :
               /\ inRow(r.rows[i], r.lists[l])
               /\ (Len(r.rows[i]) - 1) * (termwidth \div NumCols(r.lists[l], termwidth, extra))
                    + Last(r.rows[i]).len + extra <= termwidth
        /\ "listdir" \notin f.on =>
             (r.rval = 0 => \A e \in ToSet(roots) :
                             e.info \notin {"ERR", "NS"} /\ ~(e.info = "D" /\ e.locked))
-----------------------------------------------------------------------------
(* Statements of the source that the code does not keep. *)

(* "return non-directories as larger than directories" (ls.c:654). *)
NonDirectoriesLarger(f, sort, a, b) ==
  a.level = 0 /\ b.level = 0 /\ a.info = "D" /\ b.info = "F" /\ "listdir" \notin f.on =>
    MasterCmp(f, sort, a, b) < 0

(* "Error entries remain unsorted" (ls.c:656): the others are sorted.      *)
OrderWithErrors(f, sort, a, b, c) ==
  LET cmp(x, y) == MasterCmp(f, sort, x, y) IN
  cmp(a, b) <= 0 /\ cmp(b, c) <= 0 => cmp(a, c) <= 0

(* "stream format" (ls.c:64): it has the entries. *)
StreamShows(f, roots, kids, termwidth) ==
  ToSet(FlattenSeq(Ls(f, "printstream", roots, kids, termwidth, 0).rows))
    = ToShow(f, roots, kids)

(* "Only display dot file if -a/-A set" (ls.c:512): nor what is below.     *)
HiddenStaysHidden(f, roots, kids) ==
  LET printed == ToSet(FlattenSeq(Ls(f, "printscol", roots, kids, 80, 0).rows))
  IN  \A e \in Entries(roots, kids) : e.dot /\ e.level > 0 /\ e.info = "D" =>
        \A d \in ToSet(kids[e.name]) : d.info = "D" => ToSet(kids[d.name]) \cap printed = {}
=============================================================================
