------------------------------ MODULE BlockMap ------------------------------
(***************************************************************************)
(* Where the driver of hw3/ext2_fs/ext2.c looks for the blocks of a file.  *)
(* An inode points to 12 blocks directly and to three trees of indirect    *)
(* blocks, of one, two and three levels, each with N pointers per block.   *)
(* A location names one block: the pointer of the inode (blockPtr) and the *)
(* index in each level (thirdLevelPtr, secLevelPtr, oneLevelPtr); a level  *)
(* that a pointer does not have has index 0.                               *)
(***************************************************************************)
EXTENDS Integers

Loc(p, t, s, o) == [ptr |-> p, third |-> t, sec |-> s, one |-> o]

FirstLoc == Loc(0, 0, 0, 0)
EndLoc   == Loc(15, 0, 0, 0)    \* behind the last block an inode can have

Location(N) ==
    {loc \in [ptr: 0 .. 15, third: 0 .. N - 1, sec: 0 .. N - 1, one: 0 .. N - 1] :
        /\ loc.ptr # 14 => loc.third = 0
        /\ loc.ptr \notin 13 .. 14 => loc.sec = 0
        /\ loc.ptr \notin 12 .. 14 => loc.one = 0}

Single(N) == 12 + N
Double(N) == 12 + N + N * N
Capacity(N) == 12 + N + N * N + N * N * N

\* Where block b of a file is, as readNBytes computes it before its loop.
Located(b, N) ==
    IF b < 12 THEN Loc(b, 0, 0, 0)
    ELSE IF b < Single(N) THEN Loc(12, 0, 0, b - 12)
    ELSE IF b < Double(N) THEN Loc(13, 0, (b - Single(N)) \div N, (b - Single(N)) % N)
    ELSE LET r == b - Double(N)
         IN  Loc(14, r \div (N * N), (r % (N * N)) \div N, (r % (N * N)) % N)

\* Mutation: the last pointer of an indirect block is passed over.
AdvancedEarly(loc, N) ==
    IF loc.ptr < 12 THEN Loc(loc.ptr + 1, 0, 0, 0)
    ELSE IF loc.one + 2 < N THEN [loc EXCEPT !.one = @ + 1]
    ELSE IF loc.ptr >= 13 /\ loc.sec + 1 < N THEN [loc EXCEPT !.one = 0, !.sec = @ + 1]
    ELSE IF loc.ptr = 14 /\ loc.third + 1 < N THEN Loc(14, loc.third + 1, 0, 0)
    ELSE Loc(loc.ptr + 1, 0, 0, 0)

\* The location of the next block: the loops of readNBytes and of
\* findDentryWithName carry from level to level and then to the next pointer.
Advanced(loc, N) ==
    IF loc.ptr < 12 THEN Loc(loc.ptr + 1, 0, 0, 0)
    ELSE IF loc.one + 1 < N THEN [loc EXCEPT !.one = @ + 1]
    ELSE IF loc.ptr >= 13 /\ loc.sec + 1 < N THEN [loc EXCEPT !.one = 0, !.sec = @ + 1]
    ELSE IF loc.ptr = 14 /\ loc.third + 1 < N THEN Loc(14, loc.third + 1, 0, 0)
    ELSE Loc(loc.ptr + 1, 0, 0, 0)

\* The reference: the number, within its file, of the block at a location.
BlockIndex(loc, N) ==
    IF loc.ptr <= 12 THEN loc.ptr + loc.one
    ELSE IF loc.ptr = 13 THEN Single(N) + loc.sec * N + loc.one
    ELSE IF loc.ptr = 14 THEN Double(N) + loc.third * (N * N) + loc.sec * N + loc.one
    ELSE Capacity(N)
=============================================================================
