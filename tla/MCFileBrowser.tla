--------------------------- MODULE MCFileBrowser ---------------------------
(***************************************************************************)
(* A small image: blocks of 8 bytes, so that a block holds two pointers    *)
(* and a file has at most 12 + 2 + 4 + 8 = 26 blocks; inode tables of five *)
(* inodes.  Each file's blocks are numbered from 100 times its inode on.   *)
(***************************************************************************)
EXTENDS FileBrowser

MCNames == {".", "..", "wide", "full", "tree", "single", "empty", "seven", "eight", "link",
            "long", "loop", "broken", "chain", "down", "past", "through", "hollow", "lacking", "n1", "n12", "n13", "n15",
            "n19", "n26", "none"}

At(names) == [names |-> names, slash |-> FALSE]
NoText == At(<< >>)

\* Pointer p of a file i of n blocks: pointers to blocks the file has no need of
\* are zero; 50, 51 and 60 are the tables that the inode points to.
Pointer(i, n, p) ==
    IF p < 12 THEN (IF p < n THEN 100 * i + p ELSE 0)
    ELSE IF p = 12 THEN (IF n > 12 THEN 100 * i + 50 ELSE 0)
    ELSE IF p = 13 THEN (IF n > 14 THEN 100 * i + 51 ELSE 0)
    ELSE (IF n > 18 THEN 100 * i + 60 ELSE 0)

\* The tables of file i: what stands in table t.
Pair(i, a, b) == [k \in 0 .. 1 |-> 100 * i + IF k = 0 THEN a ELSE b]
TablesOf(i) ==
    [t \in {50, 51, 52, 53, 60, 61, 62, 63, 64, 65, 66} |->
        CASE t = 50 -> Pair(i, 12, 13)
          [] t = 51 -> Pair(i, 52, 53)
          [] t \in {52, 53} -> Pair(i, 14 + 2 * (t - 52), 15 + 2 * (t - 52))
          [] t = 60 -> Pair(i, 61, 62)
          [] t = 61 -> Pair(i, 63, 64)
          [] t = 62 -> Pair(i, 65, 66)
          [] OTHER -> Pair(i, 18 + 2 * (t - 63), 19 + 2 * (t - 63))]

BlocksOf(size) == (size + 7) \div 8
Made(i, kind, size, text) ==
    [kind |-> kind, size |-> size, text |-> text,
     block |-> [p \in 0 .. 14 |-> IF kind = "lnk" /\ size <= 60 THEN 77 + p
                                  ELSE Pointer(i, BlocksOf(size), p)]]

MCDisk ==
    [i \in 2 .. 20 |->
        CASE i = 2  -> Made(i, "dir", 80, NoText)
          [] i = 3  -> Made(i, "dir", 208, NoText)                       \* wide: all levels
          [] i = 4  -> Made(i, "reg", 208, NoText)                       \* full: all levels
          [] i = 5  -> Made(i, "reg", 99, NoText)                        \* single
          [] i = 6  -> Made(i, "reg", 0, NoText)
          [] i = 7  -> Made(i, "reg", 7, NoText)
          [] i = 8  -> Made(i, "reg", 8, NoText)
          [] i = 9  -> Made(i, "reg", 121, NoText)                       \* n12 to n26
          [] i = 10 -> Made(i, "lnk", 17, At(<<"wide", "n13">>))
          [] i = 11 -> Made(i, "lnk", 61, At(<<"single">>))
          [] i = 12 -> Made(i, "lnk", 5, At(<<"loop">>))
          [] i = 13 -> Made(i, "lnk", 5, At(<<"none">>))
          [] i = 14 -> Made(i, "lnk", 5, At(<<"link">>))
          [] i = 15 -> Made(i, "lnk", 5, At(<<"wide">>))
          [] i = 16 -> Made(i, "lnk", 20, At(<<"tree", "seven">>))       \* longer than its target
          [] i = 17 -> Made(i, "lnk", 15, At(<<"seven", "none">>))
          [] i = 18 -> Made(i, "dir", 16, NoText)                        \* tree
          [] i = 19 -> Made(i, "lnk", 6, At(<<"empty">>))
          [] i = 20 -> [Made(i, "dir", 16, NoText) EXCEPT !.size = 24]]  \* lacks a block

MCContent ==
    [i \in DOMAIN MCDisk |->
        IF MCDisk[i].kind = "lnk" THEN << >>
        ELSE [b \in 1 .. IF i = 20 THEN 2 ELSE BlocksOf(MCDisk[i].size) |-> 100 * i + b - 1]]

MCTableAt ==
    [b \in {100 * i + t : i \in {3, 4, 5, 9}, t \in DOMAIN TablesOf(0)} |->
        TablesOf(b \div 100)[b % 100]]

Used(name, i)  == [name |-> name, inode |-> i, len |-> 4]
Rest(name, i)  == [name |-> name, inode |-> i, len |-> 8]
Unused(name)   == [name |-> name, inode |-> 0, len |-> 4]

MCEntriesAt ==
    [b \in {200 + k : k \in 0 .. 9} \union {300 + k : k \in 0 .. 25} \union {1800, 1801, 2000, 2001} |->
        CASE b = 200 -> <<Used(".", 2), Used("..", 2)>>
          [] b = 201 -> <<Unused("full"), Used("wide", 3)>>
          [] b = 202 -> <<Used("full", 4), Used("single", 5)>>
          [] b = 203 -> <<Used("empty", 6), Used("lacking", 20)>>
          [] b = 204 -> <<Used("seven", 7), Used("eight", 8)>>
          [] b = 205 -> <<Used("link", 10), Used("long", 11)>>
          [] b = 206 -> <<Used("loop", 12), Used("broken", 13)>>
          [] b = 207 -> <<Used("chain", 14), Used("down", 15)>>
          [] b = 208 -> <<Used("past", 16), Used("through", 17)>>
          [] b = 209 -> <<Used("hollow", 19), Used("tree", 18)>>
          [] b = 300 -> <<Used(".", 3), Used("..", 2)>>
          [] b = 301 -> <<Unused("n12"), Used("n1", 5)>>
          [] b = 311 -> <<Rest("n12", 9)>>
          [] b = 312 -> <<Unused("n12"), Used("n13", 9)>>
          [] b = 314 -> <<Used("n15", 7), Unused("n26")>>
          [] b = 318 -> <<Used("n19", 8), Unused("n19")>>
          [] b = 325 -> <<Used("n26", 6), Used("n1", 8)>>
          [] b = 1800 -> <<Used(".", 18), Used("..", 2)>>
          [] b = 1801 -> <<Rest("seven", 7)>>
          [] b = 2000 -> <<Used(".", 20), Used("..", 2)>>
          [] b = 2001 -> <<Unused("n1"), Used("eight", 8)>>
          [] OTHER -> <<[Unused("none") EXCEPT !.len = 8]>>]

\* Groups of five inodes, their tables at blocks 20, 25, 30 and 35.
MCDescAt  == [a \in {16 + 4 * g : g \in 0 .. 3} |-> 20 + 5 * ((a - 16) \div 4)]
MCInodeAt ==
    [a \in {160 + 40 * ((i - 1) \div 5) + 4 * ((i - 1) % 5) : i \in DOMAIN MCDisk} |->
        MCDisk[5 * ((a - 160) \div 40) + (((a - 160) % 40) \div 4) + 1]]

\* Commands.
Line1(name, path)  == [name |-> name, path |-> path, offset |-> 0, long |-> FALSE]
CatFrom(path, o)   == [Line1("cat", path) EXCEPT !.offset = o]
Long(path)         == [Line1("ls", path) EXCEPT !.long = TRUE]

RootPaths == {At(<<n>>) : n \in MCNames}
DeepPaths == {At(<<"wide", n>>) : n \in {"n1", "n12", "n13", "n15", "n19", "n26", "none", ".."}}
    \union {At(<<"tree", "..", "wide", "n26">>), At(<<"tree", "seven">>), At(<<"lacking", "eight">>),
            At(<<"lacking", "n1">>), At(<< >>)}
OddPaths  == {NoPath, At(<<"seven", "none">>), At(<<"empty", "none">>), At(<<"link", "none">>),
              At(<<"down", "n1">>), [names |-> <<"tree">>, slash |-> TRUE],
              [names |-> <<"none">>, slash |-> TRUE]}
LinkPaths == {At(<<n>>) : n \in {"link", "long", "loop", "wide", "tree", "seven", "none", "lacking"}}
Paths == RootPaths \union DeepPaths \union OddPaths

MCCommand ==
    {Line1(name, path) : name \in {"cat", "stat"}, path \in Paths}
    \union {Line1(name, path) : name \in {"ls", "readlink"}, path \in OddPaths \union LinkPaths}
    \union {Long(path) : path \in {At(<< >>), At(<<"wide">>), At(<<"single">>), At(<<"tree">>)}}
    \union {CatFrom(At(<<"full">>), o) : o \in {1, 95, 96, 104, 111, 112, 127, 128, 143, 144, 175, 207, 208}}
    \union {CatFrom(At(<<"wide", "n13">>), o) : o \in {5, 96, 119, 120, 121, 200}}
    \union {CatFrom(At(<<"chain">>), o) : o \in {3, 5}}
    \union {CatFrom(At(<<"past">>), o) : o \in {6, 7, 8}}
    \union {Line1("help", NoPath), Line1("exit", NoPath)}

LinkCommands == {Line1("cat", At(<<"single">>)), Line1("cat", At(<<"link">>))}
=============================================================================
