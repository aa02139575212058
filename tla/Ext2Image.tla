----------------------------- MODULE Ext2Image -----------------------------
(***************************************************************************)
(* An ext2 image as the driver of hw3/ext2_fs/ext2.c reads it.  The image  *)
(* is never written, so it is a constant: what can be read at each byte    *)
(* address or block number.  What the driver looks for at an address where *)
(* there is none of it reads as zeros.                                     *)
(***************************************************************************)
EXTENDS BlockMap, Sequences

CONSTANTS
    BlockSize, InodeSize, DescSize,   \* bytes in a block, an inode, a group descriptor
    HeaderSize,      \* bytes before the end of the super block
    InodesPerGroup,
    DescAt,          \* byte address -> first block of the group's inode table
    InodeAt,         \* byte address -> the inode on the disk
    TableAt,         \* block -> the pointers in it
    EntriesAt,       \* block -> the directory entries in it
    Names,           \* names in paths and directories
    NoName           \* stands for a null pointer to a name

\* numOfIndirEntries: a pointer has four bytes.
Pointers == BlockSize \div 4

MaxSize == Capacity(Pointers) * BlockSize    \* s_maxbytes

\* A path as pathwalk takes it apart: the names between the slashes, and
\* whether another slash follows them.
Path == [names: Seq(Names), slash: BOOLEAN]
NoPath == [names |-> <<NoName>>, slash |-> FALSE]    \* a null pointer

\* text is what the bytes of block say when the inode is a short link.
Kind == {"reg", "dir", "lnk", "other"}
DiskInode == [kind: Kind, size: 0 .. MaxSize, block: [0 .. 14 -> Nat], text: Path]
Inode == [ino: Nat, kind: Kind, size: 0 .. MaxSize, block: [0 .. 14 -> Nat], text: Path]

\* An entry takes len bytes of its block; inode 0 marks it as unused.
Entry == [name: Names, inode: Nat, len: Nat \ {0}]

ASSUME NameAssumption == NoName \notin Names

ASSUME SizeAssumption ==
    /\ BlockSize \in Nat /\ BlockSize >= 4
    /\ {InodeSize, DescSize, HeaderSize, InodesPerGroup} \subseteq Nat \ {0}

ASSUME ImageAssumption ==
    /\ \A a \in DOMAIN DescAt : DescAt[a] \in Nat
    /\ \A a \in DOMAIN InodeAt : InodeAt[a] \in DiskInode
    /\ \A b \in DOMAIN TableAt : TableAt[b] \in [0 .. Pointers - 1 -> Nat]
    /\ \A b \in DOMAIN EntriesAt : EntriesAt[b] \in Seq(Entry)

Read(f, x, zeros) == IF x \in DOMAIN f THEN f[x] ELSE zeros

ZeroInode ==
    [kind |-> "other", size |-> 0, block |-> [p \in 0 .. 14 |-> 0],
     text |-> [names |-> << >>, slash |-> FALSE]]

Table(block)      == Read(TableAt, block, [k \in 0 .. Pointers - 1 |-> 0])
EntriesOf(block)  == Read(EntriesAt, block, << >>)
ByteOf(block, k)  == <<block, k>>

\* The quotient is taken in integers, so ceil has nothing left to round up.
GroupTable == BlockSize * (HeaderSize \div BlockSize)

InMemory(i, disk) ==
    [ino |-> i, kind |-> disk.kind, size |-> disk.size, block |-> disk.block,
     text |-> disk.text]

\* getInodeFromNum and read_inode: by the group's descriptor to its inode table.
ReadInode(i) ==
    LET table == Read(DescAt, GroupTable + ((i - 1) \div InodesPerGroup) * DescSize, 0)
    IN  InMemory(i, Read(InodeAt, BlockSize * table + InodeSize * ((i - 1) % InodesPerGroup),
                         ZeroInode))

\* The block at a location: one read for each level of indirection.
Follow(inode, loc) ==
    LET first == inode.block[loc.ptr]
    IN  CASE loc.ptr < 12 -> first
          [] loc.ptr = 12 -> Table(first)[loc.one]
          [] loc.ptr = 13 -> Table(Table(first)[loc.sec])[loc.one]
          [] loc.ptr = 14 -> Table(Table(Table(first)[loc.third])[loc.sec])[loc.one]
=============================================================================
