------------------------------ MODULE FileTree ------------------------------
(***************************************************************************)
(* The reference: the files and directories that the image holds, stated   *)
(* without the walks, scans and loops by which the program finds them.     *)
(***************************************************************************)
EXTENDS Ext2Image, FiniteSets, FiniteSetsExt

CONSTANTS
    Disk,       \* inode number -> inode, for the inodes in use
    Content     \* inode number -> its blocks in order

Root == 2

TrueInode(i) == InMemory(i, Disk[i])

\* The image is laid out as ext2 says: a file's pointers lead to its blocks.
ASSUME LayoutAssumption ==
    /\ Root \in DOMAIN Disk /\ DOMAIN Disk \subseteq Nat /\ IsFiniteSet(DOMAIN Disk)
    /\ DOMAIN Content = DOMAIN Disk
    /\ \A i \in DOMAIN Disk :
        /\ Disk[i] \in DiskInode
        /\ Content[i] \in Seq(Nat)
        /\ \A loc \in Location(Pointers) :
            BlockIndex(loc, Pointers) < Len(Content[i]) =>
                Follow(TrueInode(i), loc) = Content[i][BlockIndex(loc, Pointers) + 1]

\* The groups' descriptors start behind the super block, at a new block (which
\* the driver finds only if the super block ends with a block), and an inode has
\* its place in the inode table of its group.
ASSUME PlaceAssumption ==
    /\ HeaderSize % BlockSize = 0
    /\ \A i \in DOMAIN Disk : \E g \in 0 .. i, k \in 0 .. InodesPerGroup - 1 :
        LET desc  == HeaderSize + g * DescSize
            place == BlockSize * DescAt[desc] + InodeSize * k
        IN  /\ i = g * InodesPerGroup + k + 1
            /\ desc \in DOMAIN DescAt /\ place \in DOMAIN InodeAt
            /\ InodeAt[place] = Disk[i]

\* Each entry starts where the one before it ends, and the last one ends the block.
FillBlock(entries) ==
    \E end \in [0 .. Len(entries) -> 0 .. BlockSize] :
        /\ end[0] = 0 /\ end[Len(entries)] = BlockSize
        /\ \A k \in 1 .. Len(entries) : end[k] = end[k - 1] + entries[k].len

\* A directory has no holes and no blocks behind its size, its blocks are full
\* of entries, and those in use name inodes in use.
ASSUME DirectoryAssumption ==
    \A i \in DOMAIN Disk : Disk[i].kind = "dir" =>
        LET first(p) == BlockIndex(Loc(p, 0, 0, 0), Pointers)
            blocks   == Len(Content[i])
        IN  /\ \A p \in 0 .. 14 : Disk[i].block[p] # 0 <=> first(p) < blocks
            /\ \/ Disk[i].size = blocks * BlockSize
               \/ Disk[i].size > blocks * BlockSize /\ \E p \in 0 .. 15 : first(p) = blocks
            /\ \A b \in DOMAIN Content[i] :
                /\ FillBlock(EntriesOf(Content[i][b]))
                /\ \A k \in DOMAIN EntriesOf(Content[i][b]) :
                    EntriesOf(Content[i][b])[k].inode \in DOMAIN Disk \union {0}

\* A file has the blocks that its size needs; devices and the like have no size.
ASSUME FileAssumption ==
    \A i \in DOMAIN Disk :
        /\ Disk[i].kind = "reg" => Disk[i].size <= Len(Content[i]) * BlockSize
        /\ Disk[i].kind = "other" => Disk[i].size = 0

\* Byte n of file i, the first one being byte 0.
FileByte(i, n) == ByteOf(Content[i][(n \div BlockSize) + 1], n % BlockSize)

BytesFrom(i, offset) ==
    [k \in 1 .. Disk[i].size - offset |-> FileByte(i, offset + k - 1)]

\* The entries in use among the first ones of a block, and among those in the
\* first blocks of a directory.
LiveUpTo(entries) ==
    LET live[k \in 0 .. Len(entries)] ==
            IF k = 0 THEN << >>
            ELSE IF entries[k].inode = 0 THEN live[k - 1]
            ELSE Append(live[k - 1], entries[k])
    IN  live

Live(entries) == LiveUpTo(entries)[Len(entries)]

LiveInBlocks(i) ==
    LET live[n \in 0 .. Len(Content[i])] ==
            IF n = 0 THEN << >> ELSE live[n - 1] \o Live(EntriesOf(Content[i][n]))
    IN  live

\* The entries in use of each directory, in the order of its blocks.
Listing == [i \in DOMAIN Disk |-> LiveInBlocks(i)[Len(Content[i])]]

\* The inode of the first entry with the name, or 0.
InodeUnder(entries, name) ==
    LET at == {k \in DOMAIN entries : entries[k].name = name}
    IN  IF at = {} THEN 0 ELSE entries[Min(at)].inode

\* The inode that a directory has under each name, or 0.
Children ==
    [i \in DOMAIN Disk |-> [name \in Names |->
        IF Disk[i].kind = "dir" THEN InodeUnder(Listing[i], name) ELSE 0]]

Child(i, name) == IF i \in DOMAIN Disk THEN Children[i][name] ELSE 0

\* The inodes that the first names of a path lead to, from the root on, or 0.
Reached(names) ==
    LET at[k \in 0 .. Len(names)] == IF k = 0 THEN Root ELSE Child(at[k - 1], names[k])
    IN  at

Resolve(names) == Reached(names)[Len(names)]
=============================================================================
