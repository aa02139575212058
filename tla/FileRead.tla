------------------------------ MODULE FileRead ------------------------------
(***************************************************************************)
(* readNBytes of hw3/ext2_fs/ext2.c: len bytes of an inode, from the byte  *)
(* o on.  The first block is found by its number, the others by advancing  *)
(* the pointers; in the first block the bytes before o are passed over one *)
(* by one.  The loop is limited by the length and by the size of the file, *)
(* but not by what is left of the file behind o: that is up to the caller. *)
(***************************************************************************)
EXTENDS FileTree

VARIABLE rd    \* the parameters and locals of readNBytes

NoRead ==
    [inode |-> InMemory(0, ZeroInode), from |-> 0, len |-> 0, loc |-> FirstLoc,
     start |-> 0, inBlock |-> 0, got |-> << >>]

ReadTypeOK ==
    rd \in [inode: Inode, from: Nat, len: Nat, loc: Location(Pointers),
            start: 0 .. BlockSize - 1, inBlock: 0 .. BlockSize, got: Seq(Nat \X Nat)]

Reading ==
    /\ Len(rd.got) < rd.len /\ Len(rd.got) < rd.inode.size
    /\ rd.loc.ptr < 15

StartRead(inode, from, len) ==
    rd' = [inode |-> inode, from |-> from, len |-> len,
           loc |-> Located(from \div BlockSize, Pointers),
           start |-> from % BlockSize, inBlock |-> 0, got |-> << >>]

\* Mutation: the bytes to pass over are not reset at the end of the first block.
NextBlockSkipping ==
    /\ Reading
    /\ rd.inBlock >= BlockSize
    /\ rd' = [rd EXCEPT !.loc = Advanced(@, Pointers), !.inBlock = 0]

NextBlock ==
    /\ Reading
    /\ rd.inBlock >= BlockSize
    /\ rd' = [rd EXCEPT !.loc = Advanced(@, Pointers), !.inBlock = 0, !.start = 0]

SkipByte ==
    /\ Reading
    /\ rd.inBlock < BlockSize
    /\ rd.inBlock < rd.start
    /\ rd' = [rd EXCEPT !.inBlock = @ + 1]

\* Mutation: one byte too many is taken from each block.
CopyByteBeyond ==
    /\ Reading
    /\ rd.inBlock <= BlockSize
    /\ rd.inBlock >= rd.start
    /\ rd' = [rd EXCEPT !.got = Append(@, ByteOf(Follow(rd.inode, rd.loc), rd.inBlock)),
                        !.inBlock = @ + 1]

CopyByte ==
    /\ Reading
    /\ rd.inBlock < BlockSize
    /\ rd.inBlock >= rd.start
    /\ rd' = [rd EXCEPT !.got = Append(@, ByteOf(Follow(rd.inode, rd.loc), rd.inBlock)),
                        !.inBlock = @ + 1]

ReadStep == NextBlock \/ SkipByte \/ CopyByte

\* What a caller may ask for: from is a byte that an inode can have.
ReadNext ==
    \/ \E inode \in Inode, from \in 0 .. MaxSize - 1, len \in Nat : StartRead(inode, from, len)
    \/ ReadStep
    \/ rd' = NoRead

ReadInit == rd = NoRead

ReadSpec == ReadInit /\ [][ReadNext]_rd

\* The pointers name the block of the next byte to copy: they are moved by
\* rules of their own, in step with the bytes and across all the levels.
PointersFollowPosition ==
    BlockIndex(rd.loc, Pointers) * BlockSize
        + (IF rd.inBlock < rd.start THEN rd.start ELSE rd.inBlock)
    = rd.from + Len(rd.got)

\* Each byte read is the one that the file has at that position, as long as
\* the position lies within the blocks of the file.
ReadsTheFile ==
    \A k \in DOMAIN rd.got :
        LET n == rd.from + k - 1
        IN  (/\ rd.inode.ino \in DOMAIN Disk
             /\ rd.inode = TrueInode(rd.inode.ino)
             /\ (n \div BlockSize) < Len(Content[rd.inode.ino]))
            => rd.got[k] = FileByte(rd.inode.ino, n)
=============================================================================
