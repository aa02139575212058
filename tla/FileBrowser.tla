---------------------------- MODULE FileBrowser ----------------------------
(***************************************************************************)
(* The shell of hw3/main.c over the file layer of hw3/vfs/fs.c and the     *)
(* ext2 driver: one command after the other, each of which walks a path    *)
(* and then reads an inode, a directory or a file.                         *)
(*                                                                         *)
(* "crashed" stands for whatever may follow when the code reads a null     *)
(* pointer, memory it never wrote, or bytes of a file as something else.   *)
(***************************************************************************)
EXTENDS FileRead, DirScan

CONSTANTS
    Command,     \* the command lines a user may enter
    Chunk        \* bytes that cat asks for at a time

NoCommand == [name |-> "none", path |-> NoPath, offset |-> 0, long |-> FALSE]

ASSUME CommandAssumption ==
    /\ Chunk \in Nat \ {0}
    /\ \A c \in Command :
        c \in [name: {"cat", "ls", "stat", "readlink", "help", "exit"},
               path: Path \union {NoPath}, offset: Nat, long: BOOLEAN]

VARIABLES
    pc,        \* the place in the code
    cmd,       \* the command line
    root,      \* the inode of current_sb->s_root
    walk,      \* the locals of pathwalk: the path, the names left, the inode it is
               \* at, and whether the path is the text of a link (or leads to one)
    file,      \* the open file of cat: its inode, and the offset (totalread)
    status,    \* "none", or what the last command ended with: "ok" or "failed"
    out        \* what the command has printed

vars == <<pc, cmd, root, walk, file, status, out, scan, rd>>
shell == <<cmd, root, status, out>>

NoInode == InMemory(0, ZeroInode)
NoWalk  == [path |-> NoPath, rest |-> << >>, at |-> NoInode, link |-> FALSE]
NoFile  == [inode |-> NoInode, offset |-> 0]

TypeOK ==
    /\ pc \in {"mount", "idle", "execute", "walk", "lookup", "found", "list", "read",
               "follow", "copy", "exited", "crashed"}
    /\ cmd \in Command \union {NoCommand}
    /\ root \in Inode
    /\ walk \in [path: Path \union {NoPath}, rest: Seq(Names), at: Inode, link: BOOLEAN]
    /\ file \in [inode: Inode, offset: Nat]
    /\ status \in {"none", "ok", "failed"}
    /\ ScanTypeOK
    /\ ReadTypeOK

\* What the callers of lookup and of fsRead have seen to: there is a name to
\* look up, and while links are followed something is left to read.  Whatever
\* walks or reads does so for a command with a path.
CallInv ==
    /\ pc \in {"walk", "lookup", "found", "list", "read", "follow", "copy"} =>
            cmd.path # NoPath
    /\ pc = "lookup" => walk.rest # << >>
    /\ pc = "follow" => walk.link
    /\ walk.link => file.offset < file.inode.size

Init ==
    /\ pc = "mount"
    /\ cmd = NoCommand
    /\ root = NoInode
    /\ walk = NoWalk
    /\ file = NoFile
    /\ status = "none"
    /\ out = << >>
    /\ scan = NoScan
    /\ ReadInit

\* The locals of all the functions that are left.
Release == walk' = NoWalk /\ file' = NoFile /\ scan' = NoScan /\ rd' = NoRead

Finish(answer, printed) ==
    /\ pc' = "idle"
    /\ status' = answer
    /\ out' = printed
    /\ Release
    /\ UNCHANGED <<cmd, root>>

Crash == pc' = "crashed" /\ Release /\ UNCHANGED shell

-----------------------------------------------------------------------------
\* The loop of main.

\* init_fs, get_superblock
Mount ==
    /\ pc = "mount"
    /\ pc' = "idle"
    /\ root' = ReadInode(2)
    /\ UNCHANGED <<cmd, walk, file, status, out, scan, rd>>

ReadLine ==
    /\ pc = "idle"
    /\ pc' = "execute"
    /\ cmd' \in Command
    /\ status' = "none"
    /\ out' = << >>
    /\ UNCHANGED <<root, walk, file, scan, rd>>

BeginWalk(path, link) ==
    /\ pc' = "walk"
    /\ walk' = [path |-> path, rest |-> path.names, at |-> root, link |-> link]

Exit ==
    /\ pc = "execute" /\ cmd.name = "exit"
    /\ pc' = "exited"
    /\ UNCHANGED <<shell, walk, file, scan, rd>>

Help ==
    /\ pc = "execute" /\ cmd.name = "help"
    /\ Finish("ok", << >>)

\* cat copies the path before it walks it; the others hand it to pathwalk.
NoPathGiven ==
    /\ pc = "execute" /\ cmd.name \notin {"exit", "help"} /\ cmd.path = NoPath
    /\ IF cmd.name = "cat" THEN Crash ELSE Finish("failed", << >>)

WalkThePath ==
    /\ pc = "execute" /\ cmd.name \notin {"exit", "help"} /\ cmd.path # NoPath
    /\ BeginWalk(cmd.path, FALSE)
    /\ UNCHANGED <<shell, file, scan, rd>>

-----------------------------------------------------------------------------
\* pathwalk, and lookup in the inode that it has reached.

Lookup ==
    /\ pc = "walk" /\ walk.rest # << >>
    /\ pc' = "lookup"
    /\ StartScan(walk.at, Head(walk.rest))
    /\ UNCHANGED <<shell, walk, file, rd>>

LookupStep ==
    /\ pc = "lookup"
    /\ ScanStep
    /\ UNCHANGED <<pc, shell, walk, file, rd>>

\* lookup does not ask whether the inode is a directory.
LookupInFile ==
    /\ pc = "lookup" /\ Scanning /\ scan.dir.kind # "dir"
    /\ Crash

\* Mutation: every name is looked up in the root.
NameFoundAtRoot ==
    /\ pc = "lookup" /\ scan.found # NoEntry
    /\ pc' = "walk"
    /\ walk' = [walk EXCEPT !.rest = Tail(@), !.at = IF @ = root THEN ReadInode(scan.found.inode)
                                                    ELSE root]
    /\ scan' = NoScan
    /\ UNCHANGED <<shell, file, rd>>

NameFound ==
    /\ pc = "lookup" /\ scan.found # NoEntry
    /\ pc' = "walk"
    /\ walk' = [walk EXCEPT !.rest = Tail(@), !.at = ReadInode(scan.found.inode)]
    /\ scan' = NoScan
    /\ UNCHANGED <<shell, file, rd>>

\* A command reports a null dentry; fsRead does not test for one.
NameMissing ==
    /\ pc = "lookup" /\ ~Scanning /\ scan.found = NoEntry
    /\ IF walk.link THEN Crash ELSE Finish("failed", << >>)

\* After a slash at the end the loop goes on with "/" as a name: lookup leaves
\* the dentry without an inode, and the next name is read behind the path.
PathEnds ==
    /\ pc = "walk" /\ walk.rest = << >>
    /\ IF walk.path.slash THEN Crash
       ELSE /\ pc' = IF walk.link THEN "follow" ELSE "found"
            /\ UNCHANGED <<shell, walk, file, scan, rd>>

-----------------------------------------------------------------------------
\* stat_func, readlink_func and ls_func.

Stat ==
    /\ pc = "found" /\ cmd.name = "stat"
    /\ Finish("ok", <<walk.at>>)

\* A text of up to 60 bytes stands in the pointers; for a longer one readNBytes
\* is called with a null pointer to the offset.
ReadlinkText(inode) == IF inode.kind = "lnk" THEN inode.text ELSE inode.block

Readlink ==
    /\ pc = "found" /\ cmd.name = "readlink"
    /\ IF walk.at.size <= 60 THEN Finish("ok", <<ReadlinkText(walk.at)>>) ELSE Crash

\* print_dir, or with -l print_dir_details, which reads the inode.
Line(name, ino) ==
    [name |-> name, ino |-> ino, inode |-> IF cmd.long THEN ReadInode(ino) ELSE NoInode]

ListDirectory ==
    /\ pc = "found" /\ cmd.name = "ls" /\ walk.at.kind = "dir"
    /\ pc' = "list"
    /\ StartScan(walk.at, NoName)
    /\ UNCHANGED <<shell, walk, file, rd>>

ListFile ==
    /\ pc = "found" /\ cmd.name = "ls" /\ walk.at.kind # "dir"
    /\ Finish("ok", IF walk.at.kind = "reg" THEN <<Line(cmd.path, walk.at.ino)>> ELSE << >>)

ListStep ==
    /\ pc = "list"
    /\ ScanStep
    /\ UNCHANGED <<pc, shell, walk, file, rd>>

ListEnds ==
    /\ pc = "list" /\ ~Scanning
    /\ Finish("ok", [k \in DOMAIN scan.listed |->
                        Line(scan.listed[k].name, scan.listed[k].inode)])

-----------------------------------------------------------------------------
\* cat_func: openfile, then readfile with fsRead until it returns 0.

Open ==
    /\ pc = "found" /\ cmd.name = "cat"
    /\ pc' = "read"
    /\ file' = [inode |-> walk.at, offset |-> cmd.offset]
    /\ walk' = NoWalk
    /\ UNCHANGED <<shell, scan, rd>>

\* Mutation: the size asked for is not reduced at the end of the file.
ReadSizeUncapped == Chunk

\* readfile does not ask for more than is left of the file.
ReadSize ==
    IF file.offset + Chunk >= file.inode.size THEN file.inode.size - file.offset ELSE Chunk

CatEnds ==
    /\ pc = "read"
    /\ file.offset >= file.inode.size \/ file.inode.kind = "dir"
    /\ Finish("ok", out)

ReadOpened ==
    /\ pc = "read"
    /\ file.offset < file.inode.size /\ file.inode.kind \notin {"lnk", "dir"}
    /\ pc' = "copy"
    /\ StartRead(file.inode, file.offset, ReadSize)
    /\ UNCHANGED <<shell, walk, file, scan>>

\* For a link each call of fsRead walks the path of the file once more.
WalkToLink ==
    /\ pc = "read"
    /\ file.offset < file.inode.size /\ file.inode.kind = "lnk"
    /\ BeginWalk(cmd.path, TRUE)
    /\ UNCHANGED <<shell, file, scan, rd>>

FollowLink ==
    /\ pc = "follow" /\ walk.at.kind = "lnk"
    /\ IF walk.at.size <= 60
         THEN BeginWalk(walk.at.text, TRUE) /\ UNCHANGED <<shell, file, scan, rd>>
         ELSE Crash

FollowEnds ==
    /\ pc = "follow"
    /\ walk.at.kind # "lnk"
    /\ walk.at.kind = "dir" \/ walk.at.size < file.offset
    /\ Finish("ok", out)

ReadTarget ==
    /\ pc = "follow"
    /\ walk.at.kind \notin {"lnk", "dir"} /\ walk.at.size >= file.offset
    /\ pc' = "copy"
    /\ StartRead(walk.at, file.offset, ReadSize)
    /\ UNCHANGED <<shell, walk, file, scan>>

Copy ==
    /\ pc = "copy"
    /\ ReadStep
    /\ UNCHANGED <<pc, shell, walk, file, scan>>

\* Mutation: the offset becomes the length of the last read.
ReadReturnsLast ==
    /\ pc = "copy" /\ ~Reading
    /\ IF rd.got = << >> THEN Finish("ok", out)
       ELSE /\ pc' = "read"
            /\ file' = [file EXCEPT !.offset = Len(rd.got)]
            /\ out' = out \o rd.got
            /\ walk' = NoWalk /\ rd' = NoRead
            /\ UNCHANGED <<cmd, root, status, scan>>

\* Mutation: cat goes on after a read of no bytes.
ReadReturnsAnyway ==
    /\ pc = "copy" /\ ~Reading
    /\ pc' = "read"
    /\ file' = [file EXCEPT !.offset = @ + Len(rd.got)]
    /\ out' = out \o rd.got
    /\ walk' = NoWalk /\ rd' = NoRead
    /\ UNCHANGED <<cmd, root, status, scan>>

ReadReturns ==
    /\ pc = "copy" /\ ~Reading
    /\ IF rd.got = << >> THEN Finish("ok", out)
       ELSE /\ pc' = "read"
            /\ file' = [file EXCEPT !.offset = @ + Len(rd.got)]
            /\ out' = out \o rd.got
            /\ walk' = NoWalk /\ rd' = NoRead
            /\ UNCHANGED <<cmd, root, status, scan>>

-----------------------------------------------------------------------------
WalkStep == Lookup \/ LookupStep \/ LookupInFile \/ NameFound \/ NameMissing \/ PathEnds

CatStep ==
    \/ Open \/ CatEnds \/ ReadOpened \/ WalkToLink \/ FollowLink \/ FollowEnds
    \/ ReadTarget \/ Copy \/ ReadReturns

ShellStep ==
    \/ Mount \/ Exit \/ Help \/ NoPathGiven \/ WalkThePath
    \/ WalkStep \/ CatStep
    \/ Stat \/ Readlink \/ ListDirectory \/ ListFile \/ ListStep \/ ListEnds

Next == ReadLine \/ ShellStep

Spec == Init /\ [][Next]_vars

\* The program is one thread that runs on; the user need not type.
FairSpec == Spec /\ WF_vars(ShellStep)

-----------------------------------------------------------------------------
\* The reference, for whole commands.

IsLink(i) == i \in DOMAIN Disk /\ Disk[i].kind = "lnk"

Hop(i) == IF IsLink(i) THEN Resolve(Disk[i].text.names) ELSE i

\* The inode a link leads to in n steps, or 0.
Leads(i) ==
    LET to[n \in 0 .. Cardinality(DOMAIN Disk)] == IF n = 0 THEN i ELSE Hop(to[n - 1])
    IN  to

Target(i) == Leads(i)[Cardinality(DOMAIN Disk)]

\* No slash at the end, and nothing but directories before the last name.
SoundPath(path) ==
    /\ ~path.slash
    /\ \A k \in 0 .. Len(path.names) - 1 :
        LET i == Reached(path.names)[k]
        IN  i \in DOMAIN Disk => Disk[i].kind = "dir" \/ Disk[i].size = 0

\* All the links from i on are short and lead somewhere.
SoundLink(i) ==
    \A n \in DOMAIN Leads(i) :
        /\ Leads(i)[n] # 0
        /\ IsLink(Leads(i)[n]) => /\ Disk[Leads(i)[n]].size <= 60
                                  /\ SoundPath(Disk[Leads(i)[n]].text)

\* cat of a link: the links it leads through never end.
Circular(c) ==
    c.name = "cat" /\ c.path # NoPath /\ IsLink(Target(Resolve(c.path.names)))

MayStop(c) ==
    \/ c.name = "exit"
    \/ c.name = "cat" /\ c.path = NoPath
    \/ c.path # NoPath /\ ~SoundPath(c.path)
    \/ LET i == Resolve(c.path.names)
       IN  /\ c.path # NoPath /\ IsLink(i)
           /\ \/ c.name = "readlink" /\ Disk[i].size > 60
              \/ c.name = "cat" /\ ~SoundLink(i)
    \/ c.name = "readlink" /\ c.path # NoPath
         /\ Resolve(c.path.names) # 0 /\ Disk[Resolve(c.path.names)].size > 60

Sure(c) ==
    /\ ~MayStop(c)
    /\ c.path # NoPath =>
        LET i == Resolve(c.path.names)
        IN  (c.name = "cat" => ~IsLink(i)) /\ (c.name = "readlink" /\ i # 0 => IsLink(i))

TrueLine(name, i, long) ==
    [name |-> name, ino |-> i, inode |-> IF long THEN TrueInode(i) ELSE NoInode]

TrueOutput(c, i) ==
    CASE c.name = "stat" -> <<TrueInode(i)>>
      [] c.name = "readlink" -> <<Disk[i].text>>
      [] c.name = "ls" /\ Disk[i].kind = "dir" ->
            [k \in DOMAIN Listing[i] |-> TrueLine(Listing[i][k].name, Listing[i][k].inode, c.long)]
      [] c.name = "ls" /\ Disk[i].kind = "reg" -> <<TrueLine(c.path, i, c.long)>>
      [] c.name = "cat" /\ Disk[i].kind = "reg" -> BytesFrom(i, c.offset)
      [] OTHER -> << >>

NoAnswer == [status |-> "none", out |-> << >>]

TrueAnswer(c) ==
    IF c.name = "help" THEN [status |-> "ok", out |-> << >>]
    ELSE IF c.path = NoPath \/ Resolve(c.path.names) = 0 THEN [status |-> "failed", out |-> << >>]
    ELSE [status |-> "ok", out |-> TrueOutput(c, Resolve(c.path.names))]

-----------------------------------------------------------------------------
\* Properties.

\* pathwalk is at the inode that the directories of the image give for the part
\* of the path behind it, however many blocks, tables and groups it had to read.
WalkStaysOnPath ==
    pc \in {"walk", "lookup", "found", "list", "follow"} =>
        LET names == walk.path.names
            i     == Reached(names)[Len(names) - Len(walk.rest)]
        IN  i \in DOMAIN Disk /\ walk.at = TrueInode(i)

\* What cat has printed and read, over any number of calls of readfile, are the
\* bytes of the file (for a link: of the file it leads to) from the offset on,
\* none of them twice and none left out.
PrintsInOrder ==
    cmd.name = "cat" /\ out \o rd.got # << >> =>
        LET i == Target(Resolve(cmd.path.names))
        IN  \A k \in DOMAIN (out \o rd.got) :
                cmd.offset + k <= Disk[i].size =>
                    (out \o rd.got)[k] = FileByte(i, cmd.offset + k - 1)

\* Every command that is entered ends, unless it is a cat of links that lead
\* back to themselves.
EveryCommandEnds ==
    pc = "execute" /\ ~Circular(cmd) ~> pc \in {"idle", "crashed", "exited"}

\* The shell gives the promised answers, and a command ends the program only if
\* it has a path that pathwalk does not handle, or a long or broken link.
Service ==
    INSTANCE FileService WITH
        Answer <- TrueAnswer,
        asked <- IF pc \in {"mount", "idle"} THEN NoCommand ELSE cmd,
        answer <- IF pc = "idle" /\ cmd # NoCommand THEN [status |-> status, out |-> out]
                  ELSE NoAnswer,
        running <- pc \notin {"crashed", "exited"}

ImplementsService == Service!ServiceSpec

\* "cat file_name [offset]: This command prints the contents of file file_name":
\* also of one that is named by a link, which fsRead follows.
CatShowsTheFile ==
    pc = "idle" /\ cmd.name = "cat" /\ status = "ok" =>
        LET i == Target(Resolve(cmd.path.names))
        IN  Disk[i].kind = "reg" => out = BytesFrom(i, cmd.offset)
=============================================================================
