------------------------------- MODULE DirScan -------------------------------
(***************************************************************************)
(* findDentryWithName of hw3/ext2_fs/ext2.c: one scan over the entries in  *)
(* the blocks of a directory, which either looks for a name (COMPARE) or   *)
(* hands every entry to a callback (DONT_COMPARE).  The scan ends when the *)
(* entries add up to the size of the directory or no pointer is left.      *)
(***************************************************************************)
EXTENDS FileTree

VARIABLE scan    \* the parameters and locals of findDentryWithName

NoEntry == [name |-> NoName, inode |-> 0, len |-> 0]

NoScan ==
    [dir |-> InMemory(0, ZeroInode), want |-> NoName, loc |-> FirstLoc, inBlock |-> 0,
     total |-> 0, found |-> NoEntry, listed |-> << >>]

\* inBlock counts the entries that have been read of the block, total bytes.
ScanTypeOK ==
    scan \in [dir: Inode, want: Names \union {NoName}, loc: Location(Pointers),
              inBlock: Nat, total: Nat, found: Entry \union {NoEntry}, listed: Seq(Entry)]

\* want is NoName to list the directory.
StartScan(dir, want) == scan' = [NoScan EXCEPT !.dir = dir, !.want = want]

\* The size is compared with the total between two blocks only.
Scanning ==
    /\ scan.found = NoEntry
    /\ scan.loc.ptr < 15
    /\ scan.inBlock = 0 => scan.total < scan.dir.size

Entries == EntriesOf(Follow(scan.dir, scan.loc))

\* A pointer of the inode that is zero is passed over.
SkipPointer ==
    /\ Scanning
    /\ scan.dir.kind = "dir" /\ scan.dir.block[scan.loc.ptr] = 0
    /\ scan' = [scan EXCEPT !.loc = Loc(@.ptr + 1, 0, 0, 0)]

\* Mutation: the room of an unused entry is not counted.
ReadEntryUncounted ==
    /\ Scanning
    /\ scan.dir.kind = "dir" /\ scan.dir.block[scan.loc.ptr] # 0
    /\ scan.inBlock < Len(Entries)
    /\ LET e == Entries[scan.inBlock + 1]
       IN  scan' = [scan EXCEPT
                !.inBlock = @ + 1,
                !.total = IF e.inode # 0 THEN @ + e.len ELSE @,
                !.found = IF e.inode # 0 /\ e.name = scan.want THEN e ELSE @,
                !.listed = IF e.inode # 0 /\ scan.want = NoName THEN Append(@, e) ELSE @]

\* readCurrentDirEntry, and what the inner loop does with the entry.
ReadEntry ==
    /\ Scanning
    /\ scan.dir.kind = "dir" /\ scan.dir.block[scan.loc.ptr] # 0
    /\ scan.inBlock < Len(Entries)
    /\ LET e == Entries[scan.inBlock + 1]
       IN  scan' = [scan EXCEPT
                !.inBlock = @ + 1,
                !.total = @ + e.len,
                !.found = IF e.inode # 0 /\ e.name = scan.want THEN e ELSE @,
                !.listed = IF e.inode # 0 /\ scan.want = NoName THEN Append(@, e) ELSE @]

\* The inner loop ends at the end of the block or at an entry without length.
LeaveBlock ==
    /\ Scanning
    /\ scan.dir.kind = "dir" /\ scan.dir.block[scan.loc.ptr] # 0
    /\ scan.inBlock >= Len(Entries)
    /\ scan' = [scan EXCEPT !.loc = Advanced(@, Pointers), !.inBlock = 0]

ScanStep == SkipPointer \/ ReadEntry \/ LeaveBlock

\* The entries in use of directory i before entry k + 1 of block n + 1.
Behind(i, n, k) ==
    LiveInBlocks(i)[n] \o IF k = 0 THEN << >> ELSE LiveUpTo(EntriesOf(Content[i][n + 1]))[k]

\* The scan has seen every entry of the directory that is behind it, in order:
\* those in use were handed over, none but the last has the name looked for,
\* the room of the blocks behind it adds up, and what it found is the inode
\* that the directory has under the name.
ScanIsThorough ==
    scan.dir.kind = "dir" /\ scan.dir.ino \in DOMAIN Disk =>
        LET i      == scan.dir.ino
            n      == Min({BlockIndex(scan.loc, Pointers), Len(Content[i])})
            passed == Behind(i, n, scan.inBlock)
        IN  /\ scan.inBlock = 0 => scan.total = n * BlockSize
            /\ IF scan.want = NoName THEN scan.listed = passed
               ELSE \A k \in DOMAIN passed :
                        passed[k].name = scan.want => scan.found = passed[k]
            /\ scan.found # NoEntry => scan.found.inode = Child(i, scan.want)
=============================================================================
