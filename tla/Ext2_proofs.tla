----------------------------- MODULE Ext2_proofs -----------------------------
(***************************************************************************)
(* The two loops over the blocks of an inode, for every block size, image, *)
(* file and directory: readNBytes reads the file it is given, and          *)
(* findDentryWithName passes over no entry of the directory it scans.      *)
(*                                                                         *)
(* First the block map, for every number N of pointers in an indirect      *)
(* block: the location computed for a block has indices within their       *)
(* tables and denotes that block, and the carries of the loops lead from   *)
(* the location of a block to that of the next one.                        *)
(***************************************************************************)
EXTENDS FileRead, DirScan, SequenceTheorems, FiniteSetTheorems, WellFoundedInduction, TLAPS

LEMMA DivMod ==
    ASSUME NEW a \in Nat, NEW d \in Nat \ {0}
    PROVE  /\ a \div d \in Nat
           /\ (a % d) \in 0 .. d - 1
           /\ a = ((a \div d) * d) + (a % d)
  BY SMT

LEMMA DivBelow ==
    ASSUME NEW a \in Nat, NEW d \in Nat \ {0}, NEW k \in Nat, a < k * d
    PROVE  a \div d < k
  BY SMT

LEMMA NatTimes ==
    ASSUME NEW a \in Nat, NEW b \in Nat
    PROVE  a * b \in Nat
  BY SMT

LEMMA SizesAreNat ==
    ASSUME NEW N \in Nat \ {0}
    PROVE  /\ N * N \in Nat \ {0} /\ N * N * N \in Nat \ {0}
           /\ N * N * N = N * (N * N)
           /\ Single(N) \in Nat /\ Double(N) \in Nat /\ Capacity(N) \in Nat
           /\ Double(N) = Single(N) + N * N /\ Capacity(N) = Double(N) + N * (N * N)
  BY SMT DEF Single, Double, Capacity

LEMMA LocationFields ==
    ASSUME NEW N \in Nat \ {0}, NEW loc \in Location(N)
    PROVE  /\ loc.ptr \in 0 .. 15
           /\ loc.third \in 0 .. N - 1 /\ loc.sec \in 0 .. N - 1 /\ loc.one \in 0 .. N - 1
           /\ loc = Loc(loc.ptr, loc.third, loc.sec, loc.one)
           /\ loc.ptr \notin 12 .. 14 => loc.one = 0
           /\ loc.ptr \notin 13 .. 14 => loc.sec = 0
           /\ loc.ptr # 14 => loc.third = 0
           /\ loc.ptr = 15 => loc = EndLoc
  BY SMT DEF Location, Loc, FirstLoc, EndLoc

LEMMA BlockIndexType ==
    ASSUME NEW N \in Nat \ {0}, NEW loc \in Location(N)
    PROVE  BlockIndex(loc, N) \in Nat
  <1>s. /\ N * N \in Nat \ {0} /\ N * N * N \in Nat \ {0}
        /\ N * N * N = N * (N * N)
        /\ Single(N) \in Nat /\ Double(N) \in Nat /\ Capacity(N) \in Nat
        /\ Double(N) = Single(N) + N * N /\ Capacity(N) = Double(N) + N * (N * N)
    BY SizesAreNat
  <1>l. /\ loc.ptr \in 0 .. 15
        /\ loc.third \in 0 .. N - 1 /\ loc.sec \in 0 .. N - 1 /\ loc.one \in 0 .. N - 1
        /\ loc = Loc(loc.ptr, loc.third, loc.sec, loc.one)
        /\ loc.ptr \notin 12 .. 14 => loc.one = 0
        /\ loc.ptr \notin 13 .. 14 => loc.sec = 0
        /\ loc.ptr # 14 => loc.third = 0
    BY LocationFields
  <1> DEFINE P == loc.sec * N
             Q == loc.third * (N * N)
  <1>1. P \in Nat /\ Q \in Nat
    BY <1>s, <1>l, NatTimes
  <1>2. BlockIndex(loc, N) =
          (IF loc.ptr <= 12 THEN loc.ptr + loc.one
           ELSE IF loc.ptr = 13 THEN Single(N) + P + loc.one
           ELSE IF loc.ptr = 14 THEN Double(N) + Q + P + loc.one
           ELSE Capacity(N))
    BY DEF BlockIndex
  <1> HIDE DEF P, Q
  <1>3. QED
    BY <1>1, <1>2, <1>s, <1>l, SMT

(***************************************************************************)
(* The offset of a read is turned into a block by divisions and            *)
(* remainders: every index is inside its table, and the location is that   *)
(* of the block asked for.                                                 *)
(***************************************************************************)
THEOREM LocatedIsRight ==
    ASSUME NEW N \in Nat \ {0}, NEW b \in Nat, b < Capacity(N)
    PROVE  /\ Located(b, N) \in Location(N)
           /\ BlockIndex(Located(b, N), N) = b
           /\ Located(b, N).ptr < 15
  <1>s. /\ N * N \in Nat \ {0} /\ N * N * N \in Nat \ {0}
        /\ N * N * N = N * (N * N)
        /\ Single(N) \in Nat /\ Double(N) \in Nat /\ Capacity(N) \in Nat
        /\ Double(N) = Single(N) + N * N /\ Capacity(N) = Double(N) + N * (N * N)
    BY SizesAreNat
  <1>1. CASE b < 12
    BY <1>1, SMT DEF Located, Location, BlockIndex, Loc, FirstLoc
  <1>2. CASE 12 <= b /\ b < Single(N)
    <2>1. Located(b, N) = Loc(12, 0, 0, b - 12) /\ b - 12 \in 0 .. N - 1
      BY <1>2, SMT DEF Located, Single
    <2>2. QED
      BY <2>1, SMT DEF Location, BlockIndex, Loc
  <1>3. CASE Single(N) <= b /\ b < Double(N)
    <2> DEFINE r == b - Single(N)
    <2>1. r \in Nat /\ r < N * N /\ b = Single(N) + r
      BY <1>3, <1>s, SMT
    <2> HIDE DEF r
    <2>2. r \div N \in 0 .. N - 1 /\ (r % N) \in 0 .. N - 1 /\ r = ((r \div N) * N) + (r % N)
      <3>1. r \div N \in Nat /\ (r % N) \in 0 .. N - 1 /\ r = ((r \div N) * N) + (r % N)
        BY <2>1, DivMod
      <3>2. r \div N < N
        BY <2>1, DivBelow
      <3>3. QED
        BY <3>1, <3>2, SMT
    <2> USE DEF r
    <2>3. Located(b, N) = Loc(13, 0, r \div N, r % N)
      BY <1>3, SMT DEF Located, Single
    <2>4. Located(b, N) \in Location(N) /\ Located(b, N).ptr = 13
      BY <2>2, <2>3, SMT DEF Location, Loc
    <2>5. BlockIndex(Located(b, N), N) = Single(N) + ((r \div N) * N) + (r % N)
      BY <2>3 DEF BlockIndex, Loc
    <2> HIDE DEF r
    <2>6. QED
      BY <2>1, <2>2, <2>4, <2>5, <1>s, SMT
  <1>4. CASE Double(N) <= b
    <2> DEFINE r == b - Double(N)
               q == r % (N * N)
    <2>1. r \in Nat /\ r < N * (N * N) /\ b = Double(N) + r
      BY <1>4, <1>s, SMT
    <2> HIDE DEF r
    <2>2. r \div (N * N) \in 0 .. N - 1 /\ q \in Nat /\ q < N * N
          /\ r = ((r \div (N * N)) * (N * N)) + q
      <3>1. r \div (N * N) \in Nat /\ q \in 0 .. (N * N) - 1 /\ r = ((r \div (N * N)) * (N * N)) + q
        BY <2>1, <1>s, DivMod
      <3>2. r \div (N * N) < N
        BY <2>1, <1>s, DivBelow
      <3> HIDE DEF q
      <3>3. QED
        BY <3>1, <3>2, <1>s, SMT
    <2> HIDE DEF q
    <2>3. q \div N \in 0 .. N - 1 /\ (q % N) \in 0 .. N - 1 /\ q = ((q \div N) * N) + (q % N)
      <3>1. q \div N \in Nat /\ (q % N) \in 0 .. N - 1 /\ q = ((q \div N) * N) + (q % N)
        BY <2>2, DivMod
      <3>2. q \div N < N
        BY <2>2, DivBelow
      <3>3. QED
        BY <3>1, <3>2, SMT
    <2> USE DEF r, q
    <2>4. Located(b, N) = Loc(14, r \div (N * N), q \div N, q % N)
      BY <1>4, <1>s, SMT DEF Located, Single, Double
    <2>5. Located(b, N) \in Location(N) /\ Located(b, N).ptr = 14
      BY <2>2, <2>3, <2>4 DEF Location, Loc
    <2>6. BlockIndex(Located(b, N), N)
            = Double(N) + ((r \div (N * N)) * (N * N)) + ((q \div N) * N) + (q % N)
      BY <2>4 DEF BlockIndex, Loc
    <2> HIDE DEF r, q
    <2> DEFINE X == (r \div (N * N)) * (N * N)
               Y == (q \div N) * N
    <2>7. X \in Nat /\ Y \in Nat /\ (q % N) \in Nat
      BY <2>2, <2>3, <1>s, NatTimes, SMT
    <2>8. r = X + q /\ q = Y + (q % N) /\ BlockIndex(Located(b, N), N) = Double(N) + X + Y + (q % N)
      BY <2>2, <2>3, <2>6
    <2> HIDE DEF X, Y
    <2>9. QED
      BY <2>1, <2>2, <2>5, <2>7, <2>8, <1>s, SMT
  <1>5. QED
    BY <1>1, <1>2, <1>3, <1>4, <1>s, SMT DEF Single, Double

(***************************************************************************)
(* The carries of the two loops: one step leads to the location of the     *)
(* next block of the file, and behind the last block to the end.           *)
(***************************************************************************)
THEOREM AdvancedIsNext ==
    ASSUME NEW N \in Nat \ {0}, NEW loc \in Location(N), loc.ptr < 15
    PROVE  /\ Advanced(loc, N) \in Location(N)
           /\ BlockIndex(Advanced(loc, N), N) = BlockIndex(loc, N) + 1
  <1> DEFINE next == Advanced(loc, N)
  <1>s. /\ N * N \in Nat \ {0} /\ N * N * N \in Nat \ {0}
        /\ N * N * N = N * (N * N)
        /\ Single(N) \in Nat /\ Double(N) \in Nat /\ Capacity(N) \in Nat
        /\ Double(N) = Single(N) + N * N /\ Capacity(N) = Double(N) + N * (N * N)
    BY SizesAreNat
  <1>l. /\ loc.ptr \in 0 .. 15
        /\ loc.third \in 0 .. N - 1 /\ loc.sec \in 0 .. N - 1 /\ loc.one \in 0 .. N - 1
        /\ loc = Loc(loc.ptr, loc.third, loc.sec, loc.one)
        /\ loc.ptr \notin 12 .. 14 => loc.one = 0
        /\ loc.ptr \notin 13 .. 14 => loc.sec = 0
        /\ loc.ptr # 14 => loc.third = 0
    BY LocationFields
  <1> DEFINE P == loc.sec * N
             Q == loc.third * (N * N)
  <1>i. /\ P \in Nat /\ Q \in Nat
        /\ BlockIndex(loc, N) =
             (IF loc.ptr <= 12 THEN loc.ptr + loc.one
              ELSE IF loc.ptr = 13 THEN Single(N) + P + loc.one
              ELSE IF loc.ptr = 14 THEN Double(N) + Q + P + loc.one
              ELSE Capacity(N))
    BY <1>s, <1>l, NatTimes DEF BlockIndex
  <1> HIDE DEF P, Q
  <1>1. CASE loc.ptr < 12
    <2>1. next = Loc(loc.ptr + 1, 0, 0, 0) /\ loc.one = 0
      BY <1>1, <1>l DEF Advanced
    <2>2. next \in Location(N)
      BY <2>1, <1>1, <1>l, SMT DEF Location, Loc
    <2>3. QED
      BY <2>1, <2>2, <1>1, <1>l, SMT DEF BlockIndex, Loc
  <1>2. CASE loc.ptr >= 12 /\ loc.one + 1 < N
    <2>1. next = Loc(loc.ptr, loc.third, loc.sec, loc.one + 1)
      BY <1>2, <1>l, SMT DEF Advanced, Loc
    <2>2. next \in Location(N)
      BY <2>1, <1>2, <1>l, SMT DEF Location, Loc
    <2>3. BlockIndex(next, N) =
            (IF loc.ptr <= 12 THEN loc.ptr + (loc.one + 1)
             ELSE IF loc.ptr = 13 THEN Single(N) + P + (loc.one + 1)
             ELSE IF loc.ptr = 14 THEN Double(N) + Q + P + (loc.one + 1)
             ELSE Capacity(N))
      BY <2>1 DEF BlockIndex, Loc, P, Q
    <2>4. QED
      <3>1. Single(N) \in Nat /\ Double(N) \in Nat /\ loc.ptr \in 12 .. 14 /\ loc.one \in Nat
        BY <1>2, <1>l, <1>s, loc.ptr < 15, SMT
      <3>2. QED
        BY <2>2, <2>3, <1>i, <3>1, SMT
  <1>3. CASE loc.ptr >= 13 /\ loc.one + 1 >= N /\ loc.sec + 1 < N
    <2>1. next = Loc(loc.ptr, loc.third, loc.sec + 1, 0) /\ loc.one = N - 1
      <3>1. loc.one = N - 1
        BY <1>3, <1>l, SMT
      <3>2. next = [loc EXCEPT !.one = 0, !.sec = @ + 1]
        BY <1>3, <1>l, SMT DEF Advanced
      <3>3. QED
        BY <3>1, <3>2, <1>l DEF Loc
    <2>2. next \in Location(N)
      BY <2>1, <1>3, <1>l, SMT DEF Location, Loc
    <2> DEFINE R == (loc.sec + 1) * N
    <2>3. R = P + N
      BY <1>l, SMT DEF P
    <2>4. BlockIndex(next, N) =
            (IF loc.ptr <= 12 THEN loc.ptr + 0
             ELSE IF loc.ptr = 13 THEN Single(N) + R + 0
             ELSE IF loc.ptr = 14 THEN Double(N) + Q + R + 0
             ELSE Capacity(N))
      BY <2>1 DEF BlockIndex, Loc, Q
    <2> HIDE DEF R
    <2>5. /\ Single(N) \in Nat /\ Double(N) \in Nat /\ loc.ptr \in 13 .. 14
          /\ N \in Nat /\ loc.one = N - 1
      BY <2>1, <1>3, <1>l, <1>s, SMT
    <2>6. QED
      BY <2>2, <2>3, <2>4, <2>5, <1>i, SMT
  <1>4. CASE loc.ptr = 14 /\ loc.one + 1 >= N /\ loc.sec + 1 >= N /\ loc.third + 1 < N
    <2>1. next = Loc(14, loc.third + 1, 0, 0) /\ loc.one = N - 1 /\ loc.sec = N - 1
      BY <1>4, <1>l, SMT DEF Advanced, Loc
    <2>2. next \in Location(N)
      BY <2>1, <1>4, <1>l, SMT DEF Location, Loc
    <2>3. /\ (loc.third + 1) * (N * N) = loc.third * (N * N) + N * N
          /\ (N - 1) * N = N * N - N /\ loc.third * (N * N) \in Nat
      BY <1>l, <1>s, SMT
    <2>4. BlockIndex(next, N) = Double(N) + (loc.third + 1) * (N * N)
      <3>1. (loc.third + 1) * (N * N) \in Nat /\ 0 * N = 0
        BY <1>l, <1>s, SMT
      <3>2. QED
        BY <2>1, <3>1, <1>s, SMT DEF BlockIndex, Loc
    <2>5. QED
      BY <2>1, <2>2, <2>3, <2>4, <1>i, <1>4, <1>l, <1>s, SMT DEF P, Q
  <1>5. CASE /\ loc.ptr >= 12 /\ loc.one + 1 >= N
             /\ loc.ptr >= 13 => loc.sec + 1 >= N
             /\ loc.ptr = 14 => loc.third + 1 >= N
    <2>1. next = Loc(loc.ptr + 1, 0, 0, 0) /\ loc.one = N - 1
          /\ (loc.ptr >= 13 => loc.sec = N - 1) /\ (loc.ptr = 14 => loc.third = N - 1)
      BY <1>5, <1>l, SMT DEF Advanced, Loc
    <2>2. next \in Location(N)
      BY <2>1, <1>5, <1>l, SMT DEF Location, Loc, EndLoc
    <2>3. (N - 1) * N = N * N - N /\ (N - 1) * (N * N) = N * (N * N) - N * N /\ 0 * N = 0 /\ 0 * (N * N) = 0
      BY <1>s, SMT
    <2>4. /\ BlockIndex(Loc(13, 0, 0, 0), N) = Single(N)
          /\ BlockIndex(Loc(14, 0, 0, 0), N) = Double(N)
          /\ BlockIndex(Loc(15, 0, 0, 0), N) = Capacity(N)
      <3>1. /\ BlockIndex(Loc(13, 0, 0, 0), N) = Single(N) + 0 * N + 0
            /\ BlockIndex(Loc(14, 0, 0, 0), N) = Double(N) + 0 * (N * N) + 0 * N + 0
            /\ BlockIndex(Loc(15, 0, 0, 0), N) = Capacity(N)
        BY SMT DEF BlockIndex, Loc
      <3>2. QED
        BY <3>1, <2>3, <1>s, SMT
    <2>5. /\ loc.ptr >= 13 => P = N * N - N
          /\ loc.ptr = 14 => Q = N * (N * N) - N * N
      BY <2>1, <2>3 DEF P, Q
    <2>6. loc.ptr \in {12, 13, 14}
      BY <1>5, <1>l, SMT
    <2> DEFINE M == N * N
               C == N * (N * N)
    <2>7. /\ Single(N) = 12 + N /\ Double(N) = Single(N) + M /\ Capacity(N) = Double(N) + C
          /\ M \in Nat /\ C \in Nat /\ N \in Nat
          /\ loc.ptr >= 13 => P = M - N
          /\ loc.ptr = 14 => Q = C - M
      BY <2>5, <1>s, NatTimes DEF Single
    <2>8. next = Loc(loc.ptr + 1, 0, 0, 0) /\ loc.one = N - 1
      BY <2>1
    <2> HIDE DEF M, C
    <2>9. QED
      BY <2>2, <2>4, <2>6, <2>7, <2>8, <1>i, SMT
  <1>6. QED
    BY <1>1, <1>2, <1>3, <1>4, <1>5, <1>l, SMT

-----------------------------------------------------------------------------
LEMMA Sizes ==
    /\ BlockSize \in Nat \ {0}
    /\ Pointers \in Nat \ {0}
    /\ Capacity(Pointers) \in Nat /\ MaxSize \in Nat
    /\ MaxSize = Capacity(Pointers) * BlockSize
  <1>1. BlockSize \in Nat \ {0}
    BY SizeAssumption
  <1>2. Pointers \in Nat \ {0}
    BY SizeAssumption, SMT DEF Pointers
  <1>3. Capacity(Pointers) \in Nat
    BY <1>2, SizesAreNat
  <1> QED
    BY <1>1, <1>2, <1>3, NatTimes DEF MaxSize

\* The quotient and the remainder of a number that is given as a sum.
LEMMA DivOf ==
    ASSUME NEW q \in Nat, NEW d \in Nat \ {0}, NEW r \in 0 .. d - 1,
           NEW a, a = q * d + r
    PROVE  a \div d = q /\ a % d = r
  <1>1. a \in Nat
    BY NatTimes, SMT
  <1>2. /\ a \div d \in Nat /\ a % d \in 0 .. d - 1
        /\ a = ((a \div d) * d) + (a % d)
    BY <1>1, DivMod
  <1>3. q * d + r = ((a \div d) * d) + (a % d)
    BY <1>2
  <1>4. a \div d = q
    BY <1>2, <1>3, SMT
  <1> QED
    BY <1>2, <1>4, SMT

LEMMA DivOfSum ==
    \A q \in Nat : \A d \in Nat \ {0} : \A r \in 0 .. d - 1 :
        (q * d + r) \div d = q /\ (q * d + r) % d = r
  BY DivOf

LEMMA ZeroInodeType == InMemory(0, ZeroInode) \in Inode
  <1>1. << >> \in Seq(Names)
    BY SMT
  <1> QED
    BY <1>1, Sizes DEF InMemory, ZeroInode, Inode, Kind, Path

LEMMA TableType ==
    ASSUME NEW block
    PROVE  Table(block) \in [0 .. Pointers - 1 -> Nat]
  BY ImageAssumption DEF Table, Read

\* Every location below the end leads to a block number.
LEMMA FollowType ==
    ASSUME NEW inode \in Inode, NEW loc \in Location(Pointers), loc.ptr < 15
    PROVE  Follow(inode, loc) \in Nat
  <1>1. /\ loc.ptr \in 0 .. 14
        /\ loc.third \in 0 .. Pointers - 1 /\ loc.sec \in 0 .. Pointers - 1
        /\ loc.one \in 0 .. Pointers - 1
    BY Sizes, LocationFields, SMT
  <1>2. inode.block[loc.ptr] \in Nat
    BY <1>1 DEF Inode
  <1>3. \A b : \A k \in 0 .. Pointers - 1 : Table(b)[k] \in Nat
    BY TableType
  <1>4. loc.ptr < 12 \/ loc.ptr = 12 \/ loc.ptr = 13 \/ loc.ptr = 14
    BY <1>1, SMT
  <1> QED
    BY <1>1, <1>2, <1>3, <1>4, SMTT(30) DEF Follow

LEMMA FirstLocType == FirstLoc \in Location(Pointers)
  BY Sizes, SMT DEF FirstLoc, Loc, Location

LEMMA NoReadType ==
    ASSUME rd = NoRead
    PROVE  ReadTypeOK
  <1>1. << >> \in Seq(Nat \X Nat)
    BY SMT
  <1>2. 0 \in 0 .. BlockSize - 1 /\ 0 \in 0 .. BlockSize
    BY Sizes, SMT
  <1> QED
    BY <1>1, <1>2, ZeroInodeType, FirstLocType DEF NoRead, ReadTypeOK

\* The block of a byte that a file can have is one that its inode can reach.
LEMMA BlockInRange ==
    ASSUME NEW from \in 0 .. MaxSize - 1
    PROVE  /\ from \div BlockSize \in Nat /\ from % BlockSize \in 0 .. BlockSize - 1
           /\ from = ((from \div BlockSize) * BlockSize) + (from % BlockSize)
           /\ from \div BlockSize < Capacity(Pointers)
  <1>1. from \in Nat /\ from < Capacity(Pointers) * BlockSize
    BY Sizes, SMT
  <1>2. /\ from \div BlockSize \in Nat /\ from % BlockSize \in 0 .. BlockSize - 1
        /\ from = ((from \div BlockSize) * BlockSize) + (from % BlockSize)
    BY <1>1, Sizes, DivMod
  <1>3. from \div BlockSize < Capacity(Pointers)
    BY <1>1, Sizes, DivBelow
  <1> QED
    BY <1>2, <1>3

LEMMA StartReadType ==
    ASSUME NEW inode \in Inode, NEW from \in 0 .. MaxSize - 1, NEW len \in Nat,
           StartRead(inode, from, len)
    PROVE  ReadTypeOK'
  <1>1. Located(from \div BlockSize, Pointers) \in Location(Pointers)
    BY BlockInRange, Sizes, LocatedIsRight
  <1>2. << >> \in Seq(Nat \X Nat) /\ 0 \in 0 .. BlockSize /\ from \in Nat
    BY Sizes, SMT
  <1> QED
    BY <1>1, <1>2, BlockInRange DEF StartRead, ReadTypeOK

LEMMA ReadStepType ==
    ASSUME ReadTypeOK, ReadStep
    PROVE  ReadTypeOK'
  <1> USE DEF ReadTypeOK
  <1>0. Reading /\ rd.loc.ptr < 15
    BY DEF ReadStep, NextBlock, SkipByte, CopyByte, Reading
  <1>1. CASE NextBlock
    <2>1. Advanced(rd.loc, Pointers) \in Location(Pointers)
      BY <1>0, Sizes, AdvancedIsNext
    <2>2. 0 \in 0 .. BlockSize - 1 /\ 0 \in 0 .. BlockSize
      BY Sizes, SMT
    <2> QED
      BY <1>1, <2>1, <2>2 DEF NextBlock
  <1>2. CASE SkipByte
    <2>1. rd.inBlock + 1 \in 0 .. BlockSize
      BY <1>2, Sizes, SMT DEF SkipByte
    <2> QED
      BY <1>2, <2>1 DEF SkipByte
  <1>3. CASE CopyByte
    <2>1. rd.inBlock + 1 \in 0 .. BlockSize /\ rd.inBlock \in Nat
      BY <1>3, Sizes, SMT DEF CopyByte
    <2>2. ByteOf(Follow(rd.inode, rd.loc), rd.inBlock) \in Nat \X Nat
      BY <1>0, <2>1, FollowType DEF ByteOf
    <2>3. Append(rd.got, ByteOf(Follow(rd.inode, rd.loc), rd.inBlock)) \in Seq(Nat \X Nat)
      BY <2>2, AppendProperties
    <2> QED
      BY <1>3, <2>1, <2>3 DEF CopyByte
  <1> QED
    BY <1>1, <1>2, <1>3 DEF ReadStep

\* readNBytes never leaves the block it has read, and never points outside of
\* a table.
THEOREM ReadTypeCorrect == ReadSpec => []ReadTypeOK
  <1>1. ReadInit => ReadTypeOK
    BY NoReadType DEF ReadInit
  <1>2. ReadTypeOK /\ [ReadNext]_rd => ReadTypeOK'
    <2> SUFFICES ASSUME ReadTypeOK, [ReadNext]_rd
                 PROVE  ReadTypeOK'
      OBVIOUS
    <2>1. CASE \E inode \in Inode, from \in 0 .. MaxSize - 1, len \in Nat :
                    StartRead(inode, from, len)
      BY <2>1, StartReadType
    <2>2. CASE ReadStep
      BY <2>2, ReadStepType
    <2>3. CASE rd' = NoRead
      <3>1. << >> \in Seq(Nat \X Nat) /\ 0 \in 0 .. BlockSize - 1 /\ 0 \in 0 .. BlockSize
        BY Sizes, SMT
      <3> QED
        BY <2>3, <3>1, ZeroInodeType, FirstLocType DEF NoRead, ReadTypeOK
    <2>4. CASE UNCHANGED rd
      BY <2>4 DEF ReadTypeOK
    <2> QED
      BY <2>1, <2>2, <2>3, <2>4 DEF ReadNext
  <1> QED
    BY <1>1, <1>2, PTL DEF ReadSpec

-----------------------------------------------------------------------------
LEMMA NoReadPosition ==
    ASSUME rd = NoRead
    PROVE  PointersFollowPosition
  <1>1. BlockIndex(FirstLoc, Pointers) = 0
    BY SMT DEF BlockIndex, FirstLoc, Loc
  <1>2. 0 * BlockSize = 0
    BY Sizes, SMT
  <1> QED
    BY <1>1, <1>2, SMT DEF NoRead, PointersFollowPosition

LEMMA StartReadPosition ==
    ASSUME NEW inode \in Inode, NEW from \in 0 .. MaxSize - 1, NEW len \in Nat,
           StartRead(inode, from, len)
    PROVE  PointersFollowPosition'
  <1> DEFINE b == from \div BlockSize
             k == from % BlockSize
  <1>1. BlockIndex(Located(b, Pointers), Pointers) = b
    BY BlockInRange, Sizes, LocatedIsRight
  <1>2. /\ rd'.loc = Located(b, Pointers) /\ rd'.start = k /\ rd'.inBlock = 0
        /\ rd'.from = from /\ Len(rd'.got) = 0
    BY SMT DEF StartRead
  <1>3. b \in Nat /\ k \in 0 .. BlockSize - 1 /\ from = b * BlockSize + k
    BY BlockInRange
  <1>4. BlockIndex(rd'.loc, Pointers) * BlockSize
            + (IF rd'.inBlock < rd'.start THEN rd'.start ELSE rd'.inBlock)
        = b * BlockSize + k
    <2> HIDE DEF b, k
    <2>1. (IF rd'.inBlock < rd'.start THEN rd'.start ELSE rd'.inBlock) = k
      BY <1>2, <1>3, SMT
    <2> QED
      BY <1>1, <1>2, <2>1
  <1> QED
    BY <1>2, <1>3, <1>4, SMT DEF PointersFollowPosition

LEMMA ReadStepPosition ==
    ASSUME ReadTypeOK, ReadStep, PointersFollowPosition
    PROVE  PointersFollowPosition'
  <1> DEFINE here == BlockIndex(rd.loc, Pointers)
             room == here * BlockSize
  <1>0. Reading /\ rd.loc.ptr < 15
    BY DEF ReadStep, NextBlock, SkipByte, CopyByte, Reading
  <1>1. /\ here \in Nat /\ room \in Nat /\ rd.from \in Nat /\ Len(rd.got) \in Nat
        /\ rd.inBlock \in 0 .. BlockSize /\ rd.start \in 0 .. BlockSize - 1
        /\ BlockSize \in Nat
    <2>1. here \in Nat
      BY Sizes, BlockIndexType DEF ReadTypeOK
    <2>2. Len(rd.got) \in Nat
      BY LenProperties DEF ReadTypeOK
    <2> QED
      BY <2>1, <2>2, Sizes, NatTimes DEF ReadTypeOK
  <1>2. room + (IF rd.inBlock < rd.start THEN rd.start ELSE rd.inBlock)
        = rd.from + Len(rd.got)
    BY DEF PointersFollowPosition
  <1>3. CASE NextBlock
    <2>1. BlockIndex(Advanced(rd.loc, Pointers), Pointers) = here + 1
      BY <1>0, Sizes, AdvancedIsNext DEF ReadTypeOK
    <2>2. /\ rd'.loc = Advanced(rd.loc, Pointers) /\ rd'.inBlock = 0 /\ rd'.start = 0
          /\ rd'.from = rd.from /\ rd'.got = rd.got /\ rd.inBlock >= BlockSize
      BY <1>3 DEF NextBlock, ReadTypeOK
    <2>3. (here + 1) * BlockSize = room + BlockSize
      BY <1>1, SMT
    <2> HIDE DEF room, here
    <2>4. room + BlockSize = rd.from + Len(rd.got)
      <3>1. \A x \in 0 .. BlockSize - 1 : \A y \in 0 .. BlockSize :
                y >= BlockSize => (IF y < x THEN x ELSE y) = BlockSize
        BY Sizes, SMT
      <3>2. (IF rd.inBlock < rd.start THEN rd.start ELSE rd.inBlock) = BlockSize
        BY <2>2, <3>1 DEF ReadTypeOK
      <3> QED
        BY <1>2, <3>2
    <2>5. BlockIndex(rd'.loc, Pointers) * BlockSize = room + BlockSize
      BY <2>1, <2>2, <2>3
    <2>6. (IF rd'.inBlock < rd'.start THEN rd'.start ELSE rd'.inBlock) = 0
      BY <2>2, SMT
    <2> QED
      BY <1>1, <2>2, <2>4, <2>5, <2>6, SMT DEF PointersFollowPosition
  <1>4. CASE SkipByte
    <2>1. /\ rd'.loc = rd.loc /\ rd'.inBlock = rd.inBlock + 1 /\ rd'.start = rd.start
          /\ rd'.from = rd.from /\ rd'.got = rd.got /\ rd.inBlock < rd.start
      BY <1>4 DEF SkipByte, ReadTypeOK
    <2> HIDE DEF room, here
    <2>2. (IF rd'.inBlock < rd'.start THEN rd'.start ELSE rd'.inBlock)
          = (IF rd.inBlock < rd.start THEN rd.start ELSE rd.inBlock)
      BY <1>1, <2>1, SMT
    <2> QED
      BY <2>1, <2>2 DEF PointersFollowPosition
  <1>5. CASE CopyByte
    <2>1. /\ rd'.loc = rd.loc /\ rd'.inBlock = rd.inBlock + 1 /\ rd'.start = rd.start
          /\ rd'.from = rd.from /\ rd.inBlock >= rd.start
          /\ rd'.got = Append(rd.got, ByteOf(Follow(rd.inode, rd.loc), rd.inBlock))
      BY <1>5 DEF CopyByte, ReadTypeOK
    <2>2. Len(rd'.got) = Len(rd.got) + 1
      BY <2>1, SMT DEF ReadTypeOK
    <2>3. BlockIndex(rd'.loc, Pointers) * BlockSize = room
      BY <2>1
    <2> HIDE DEF room, here
    <2>4. (IF rd.inBlock < rd.start THEN rd.start ELSE rd.inBlock) = rd.inBlock
      BY <1>1, <2>1, SMT
    <2>5. (IF rd'.inBlock < rd'.start THEN rd'.start ELSE rd'.inBlock) = rd.inBlock + 1
      BY <1>1, <2>1, SMT
    <2>6. room + rd.inBlock = rd.from + Len(rd.got)
      BY <1>2, <2>4
    <2>7. room + (rd.inBlock + 1) = rd.from + (Len(rd.got) + 1)
      <3> DEFINE k == rd.inBlock
                 f == rd.from
                 l == Len(rd.got)
      <3>1. k \in Nat /\ f \in Nat /\ l \in Nat /\ room \in Nat
        BY <1>1, SMT
      <3>2. room + k = f + l
        BY <2>6
      <3> HIDE DEF k, f, l
      <3>3. room + (k + 1) = f + (l + 1)
        BY <3>1, <3>2, SMT
      <3> QED
        BY <3>3 DEF k, f, l
    <2> QED
      BY <2>1, <2>2, <2>3, <2>5, <2>7 DEF PointersFollowPosition
  <1> QED
    BY <1>3, <1>4, <1>5 DEF ReadStep

\* The pointers always name the block of the next byte.
THEOREM PointersCorrect == ReadSpec => []PointersFollowPosition
  <1>1. ReadInit => PointersFollowPosition
    BY NoReadPosition DEF ReadInit
  <1>2. ReadTypeOK /\ PointersFollowPosition /\ [ReadNext]_rd => PointersFollowPosition'
    <2> SUFFICES ASSUME ReadTypeOK, PointersFollowPosition, [ReadNext]_rd
                 PROVE  PointersFollowPosition'
      OBVIOUS
    <2>1. CASE \E inode \in Inode, from \in 0 .. MaxSize - 1, len \in Nat :
                    StartRead(inode, from, len)
      BY <2>1, StartReadPosition
    <2>2. CASE ReadStep
      BY <2>2, ReadStepPosition
    <2>3. CASE rd' = NoRead
      <3>1. BlockIndex(FirstLoc, Pointers) = 0
        BY SMT DEF BlockIndex, FirstLoc, Loc
      <3>2. 0 * BlockSize = 0
        BY Sizes, SMT
      <3> QED
        BY <2>3, <3>1, <3>2, SMT DEF NoRead, PointersFollowPosition
    <2>4. CASE UNCHANGED rd
      BY <2>4 DEF PointersFollowPosition
    <2> QED
      BY <2>1, <2>2, <2>3, <2>4 DEF ReadNext
  <1> QED
    BY <1>1, <1>2, ReadTypeCorrect, PTL DEF ReadSpec

-----------------------------------------------------------------------------
LEMMA NoReadReads ==
    ASSUME rd.got = << >>
    PROVE  ReadsTheFile
  BY SMT DEF ReadsTheFile

\* The byte that is copied is the one at the position of the pointers.
LEMMA CopyByteReads ==
    ASSUME ReadTypeOK, PointersFollowPosition, ReadsTheFile, CopyByte
    PROVE  ReadsTheFile'
  <1> DEFINE i    == rd.inode.ino
             here == BlockIndex(rd.loc, Pointers)
             room == here * BlockSize
             n    == rd.from + Len(rd.got)
             byte == ByteOf(Follow(rd.inode, rd.loc), rd.inBlock)
  <1>1. /\ here \in Nat /\ room \in Nat /\ rd.from \in Nat /\ Len(rd.got) \in Nat
        /\ rd.inBlock \in 0 .. BlockSize - 1 /\ BlockSize \in Nat \ {0}
        /\ rd.inBlock >= rd.start
        /\ rd.loc \in Location(Pointers)
    <2>1. here \in Nat
      BY Sizes, BlockIndexType DEF ReadTypeOK
    <2>2. Len(rd.got) \in Nat
      BY LenProperties DEF ReadTypeOK
    <2>3. rd.inBlock \in 0 .. BlockSize - 1 /\ rd.inBlock >= rd.start
      BY Sizes, SMT DEF ReadTypeOK, CopyByte
    <2> QED
      BY <2>1, <2>2, <2>3, Sizes, NatTimes DEF ReadTypeOK
  <1>2. n = room + rd.inBlock
    <2>1. (IF rd.inBlock < rd.start THEN rd.start ELSE rd.inBlock) = rd.inBlock
      BY <1>1, SMT DEF ReadTypeOK
    <2> QED
      BY <2>1 DEF PointersFollowPosition
  <1>3. n \div BlockSize = here /\ n % BlockSize = rd.inBlock
    <2>1. n = here * BlockSize + rd.inBlock
      BY <1>2
    <2>3. here \in Nat /\ rd.inBlock \in 0 .. BlockSize - 1 /\ BlockSize \in Nat \ {0}
      BY <1>1
    <2> HIDE DEF here, n
    <2> QED
      BY <2>1, <2>3, DivOfSum, ZenonT(60)
  <1>4. /\ rd' = [rd EXCEPT !.got = Append(rd.got, byte), !.inBlock = rd.inBlock + 1]
        /\ rd'.inode = rd.inode /\ rd'.from = rd.from /\ rd'.got = Append(rd.got, byte)
    BY DEF CopyByte, ReadTypeOK
  <1>5. /\ DOMAIN rd'.got = DOMAIN rd.got \union {Len(rd.got) + 1}
        /\ \A k \in DOMAIN rd.got : rd'.got[k] = rd.got[k]
        /\ rd'.got[Len(rd.got) + 1] = byte
    <2> HIDE DEF byte
    <2>1. rd.got \in Seq(Nat \X Nat)
      BY DEF ReadTypeOK
    <2> QED
      BY <1>4, <2>1, SMTT(40)
  <1>6. (/\ i \in DOMAIN Disk /\ rd.inode = TrueInode(i) /\ (n \div BlockSize) < Len(Content[i]))
        => byte = FileByte(i, n)
    <2> SUFFICES ASSUME i \in DOMAIN Disk, rd.inode = TrueInode(i), here < Len(Content[i])
                 PROVE  byte = FileByte(i, n)
      BY <1>3
    <2>1. Follow(TrueInode(i), rd.loc) = Content[i][here + 1]
      BY <1>1, LayoutAssumption
    <2> QED
      BY <1>3, <2>1 DEF FileByte
  <1> SUFFICES ASSUME NEW k \in DOMAIN rd'.got,
                      i \in DOMAIN Disk, rd.inode = TrueInode(i),
                      ((rd.from + k - 1) \div BlockSize) < Len(Content[i])
               PROVE  rd'.got[k] = FileByte(i, rd.from + k - 1)
    BY <1>4 DEF ReadsTheFile
  <1>7. CASE k \in DOMAIN rd.got
    BY <1>5, <1>7 DEF ReadsTheFile
  <1>8. CASE k = Len(rd.got) + 1
    <2>1. rd.from + k - 1 = n
      BY <1>1, <1>8, SMT
    <2> QED
      BY <1>5, <1>6, <1>8, <2>1
  <1> QED
    BY <1>5, <1>7, <1>8

\* What is read are the bytes of the file, in order, from the offset on.
THEOREM ReadsRight == ReadSpec => []ReadsTheFile
  <1>1. ReadInit => ReadsTheFile
    BY NoReadReads DEF ReadInit, NoRead
  <1>2. ReadTypeOK /\ PointersFollowPosition /\ ReadsTheFile /\ [ReadNext]_rd
        => ReadsTheFile'
    <2> SUFFICES ASSUME ReadTypeOK, PointersFollowPosition, ReadsTheFile, [ReadNext]_rd
                 PROVE  ReadsTheFile'
      OBVIOUS
    <2>1. CASE CopyByte
      BY <2>1, CopyByteReads
    <2>2. CASE rd'.got = << >>
      BY <2>2, SMT DEF ReadsTheFile
    <2>3. CASE NextBlock \/ SkipByte \/ UNCHANGED rd
      <3>1. rd'.inode = rd.inode /\ rd'.from = rd.from /\ rd'.got = rd.got
        BY <2>3 DEF NextBlock, SkipByte, ReadTypeOK
      <3> QED
        BY <3>1 DEF ReadsTheFile
    <2>4. (\E inode \in Inode, from \in 0 .. MaxSize - 1, len \in Nat :
                StartRead(inode, from, len)) \/ rd' = NoRead
          => rd'.got = << >>
      BY DEF StartRead, NoRead
    <2> QED
      BY <2>1, <2>2, <2>3, <2>4 DEF ReadNext, ReadStep
  <1> QED
    BY <1>1, <1>2, ReadTypeCorrect, PointersCorrect, PTL DEF ReadSpec

-----------------------------------------------------------------------------
(***************************************************************************)
(* The scan of a directory.  FileTree defines what a directory lists and   *)
(* where a path leads by functions on numbers that refer to themselves.    *)
(* That there are such functions, and only one of each, follows from the   *)
(* least number at which there were none, or at which two differed; the    *)
(* values of each are then those of its definition.                        *)
(***************************************************************************)

\* Every set of numbers that is not empty has a least one.
LEMMA LeastNumber ==
    ASSUME NEW S \in SUBSET Nat, S # {}
    PROVE  \E k \in S : \A j \in S : k <= j
  <1>1. PICK k \in S : \A j \in S : <<j, k>> \notin OpToRel(<, Nat)
    BY WFMin, NatLessThanWellFounded
  <1>2. \A j \in S : ~ j < k
    BY <1>1 DEF OpToRel
  <1> QED
    BY <1>2

\* Two functions that go on alike from number to number are alike.
GoOnAlike(f, g, n) == f[0] = g[0] /\ \A k \in 1 .. n : f[k - 1] = g[k - 1] => f[k] = g[k]

LEMMA Alike ==
    ASSUME NEW n \in Nat, NEW f, NEW g, GoOnAlike(f, g, n)
    PROVE  \A k \in 0 .. n : f[k] = g[k]
  <1> DEFINE Bad == {k \in 0 .. n : f[k] # g[k]}
  <1> SUFFICES ASSUME Bad # {} PROVE FALSE
    OBVIOUS
  <1>1. PICK k \in Bad : \A j \in Bad : k <= j
    <2>1. Bad \in SUBSET Nat
      OBVIOUS
    <2> HIDE DEF Bad
    <2> QED
      BY <2>1, LeastNumber
  <1>2. k \in 1 .. n /\ k - 1 \in 0 .. n /\ ~ k <= k - 1
    <2>1. k # 0
      BY DEF GoOnAlike
    <2> QED
      BY <2>1, SMT
  <1>3. k - 1 \notin Bad
    BY <1>1, <1>2
  <1>4. f[k - 1] = g[k - 1]
    BY <1>2, <1>3
  <1> QED
    BY <1>2, <1>4 DEF GoOnAlike

\* A function on numbers may be defined by its first value and by steps.
Runs(f, n, b, step) == f[0] = b /\ \A k \in 1 .. n : f[k] = step[k][f[k - 1]]

LEMMA StepsHaveFunction ==
    ASSUME NEW n \in Nat, NEW S, NEW b \in S, NEW step \in [1 .. n -> [S -> S]]
    PROVE  \E f \in [0 .. n -> S] : Runs(f, n, b, step)
  <1> USE DEF Runs
  <1> DEFINE Bad == {m \in 0 .. n : ~ \E f \in [0 .. m -> S] : Runs(f, m, b, step)}
  <1> SUFFICES ASSUME Bad # {} PROVE FALSE
    <2>1. Bad = {} => n \notin Bad
      OBVIOUS
    <2> QED
      BY <2>1
  <1>1. PICK m \in Bad : \A j \in Bad : m <= j
    <2>1. Bad \in SUBSET Nat
      OBVIOUS
    <2> HIDE DEF Bad
    <2> QED
      BY <2>1, LeastNumber
  <1>2. m # 0
    <2> DEFINE f == [k \in 0 .. 0 |-> b]
    <2>1. f \in [0 .. 0 -> S] /\ f[0] = b
      OBVIOUS
    <2>2. Runs(f, 0, b, step)
      BY <2>1
    <2> QED
      BY <2>1, <2>2
  <1>3. m \in 1 .. n /\ m - 1 \in 0 .. n /\ ~ m <= m - 1
    BY <1>2, SMT
  <1>4. PICK f \in [0 .. m - 1 -> S] : Runs(f, m - 1, b, step)
    <2>1. m - 1 \notin Bad
      BY <1>1, <1>3
    <2> QED
      BY <1>3, <2>1
  <1> DEFINE g == [k \in 0 .. m |-> IF k = m THEN step[m][f[m - 1]] ELSE f[k]]
  <1>5. m - 1 \in 0 .. m - 1 /\ f[m - 1] \in S /\ step[m] \in [S -> S]
    BY <1>3, SMT
  <1>6. g \in [0 .. m -> S]
    <2>1. \A k \in 0 .. m : k # m => k \in 0 .. m - 1
      BY <1>3, SMT
    <2> QED
      BY <1>5, <2>1
  <1>7. g[m] = step[m][f[m - 1]] /\ \A k \in 0 .. m - 1 : g[k] = f[k]
    <2>1. m \in 0 .. m /\ \A k \in 0 .. m - 1 : k \in 0 .. m /\ k # m
      BY <1>3, SMT
    <2> QED
      BY <2>1
  <1>8. Runs(g, m, b, step)
    <2>1. 0 \in 0 .. m - 1
      BY <1>3, SMT
    <2>2. ASSUME NEW k \in 1 .. m PROVE g[k] = step[k][g[k - 1]]
      <3>1. k - 1 \in 0 .. m - 1
        BY <1>3, SMT
      <3>2. CASE k = m
        BY <1>7, <3>1, <3>2
      <3>3. CASE k # m
        <4>1. k \in 1 .. m - 1 /\ k \in 0 .. m - 1
          BY <1>3, <3>3, SMT
        <4> QED
          BY <1>4, <1>7, <3>1, <4>1
      <3> QED
        BY <3>2, <3>3
    <2> HIDE DEF g
    <2> QED
      BY <1>4, <1>7, <2>1, <2>2
  <1> HIDE DEF g
  <1> QED
    BY <1>6, <1>8

\* A function that takes those steps wherever it can is of their type.
TakesSteps(g, n, S, b, step) ==
    /\ g = [k \in 0 .. n |-> g[k]]
    /\ g[0] = b
    /\ \A k \in 1 .. n : g[k - 1] \in S => g[k] = step[k][g[k - 1]]

LEMMA StepsDetermine ==
    ASSUME NEW n \in Nat, NEW S, NEW b \in S, NEW step \in [1 .. n -> [S -> S]],
           NEW g, TakesSteps(g, n, S, b, step)
    PROVE  g \in [0 .. n -> S] /\ Runs(g, n, b, step)
  <1>1. PICK f \in [0 .. n -> S] : Runs(f, n, b, step)
    BY StepsHaveFunction
  <1>2. \A k \in 1 .. n : k - 1 \in 0 .. n
    BY SMT
  <1>3. \A k \in 0 .. n : f[k] = g[k]
    <2>1. GoOnAlike(f, g, n)
      BY <1>1, <1>2 DEF GoOnAlike, TakesSteps, Runs
    <2> QED
      BY <2>1, Alike
  <1>4. g \in [0 .. n -> S]
    <2>1. \A k \in 0 .. n : g[k] \in S
      BY <1>3
    <2> QED
      BY <2>1 DEF TakesSteps
  <1> QED
    BY <1>2, <1>4 DEF Runs, TakesSteps

-----------------------------------------------------------------------------
\* The recursive functions of FileTree.

LEMMA EntriesType ==
    ASSUME NEW b
    PROVE  EntriesOf(b) \in Seq(Entry)
  <1>1. << >> \in Seq(Entry)
    BY SMT
  <1> QED
    BY <1>1, ImageAssumption DEF EntriesOf, Read

LEMMA LiveUpToIs ==
    ASSUME NEW entries \in Seq(Entry), NEW L,
           \A k \in 1 .. Len(entries) : entries[k].inode # 0 => entries[k] \in L
    PROVE  /\ LiveUpTo(entries) \in [0 .. Len(entries) -> Seq(L)]
           /\ LiveUpTo(entries)[0] = << >>
           /\ \A k \in 1 .. Len(entries) :
                LiveUpTo(entries)[k] =
                    IF entries[k].inode = 0 THEN LiveUpTo(entries)[k - 1]
                    ELSE Append(LiveUpTo(entries)[k - 1], entries[k])
  <1> DEFINE n == Len(entries)
             S == Seq(L)
             b == << >>
             Then(k, s) == IF entries[k].inode = 0 THEN s ELSE Append(s, entries[k])
             step == [k \in 1 .. n |-> [s \in S |-> Then(k, s)]]
             Is(f) == f = [k \in 0 .. n |-> IF k = 0 THEN << >>
                                            ELSE IF entries[k].inode = 0 THEN f[k - 1]
                                            ELSE Append(f[k - 1], entries[k])]
             g == LiveUpTo(entries)
  <1>1. n \in Nat /\ b \in S
    BY LenProperties
  <1>2. \A k \in 1 .. n : \A s \in S : Then(k, s) \in S
    BY AppendProperties
  <1>3. step \in [1 .. n -> [S -> S]]
    BY <1>2
  <1>4. /\ \A k \in 1 .. n : k - 1 \in 0 .. n /\ k \in 0 .. n /\ k # 0
        /\ \A k \in 0 .. n : k # 0 => k \in 1 .. n
        /\ 0 \in 0 .. n
    BY <1>1, SMT
  <1>5. \A k \in 1 .. n : \A s \in S : step[k][s] = Then(k, s)
    OBVIOUS
  <1>6. \E f : Is(f)
    <2> HIDE DEF n, S, b, step
    <2>1. PICK f \in [0 .. n -> S] : Runs(f, n, b, step)
      BY <1>1, <1>3, StepsHaveFunction
    <2>2. f[0] = b /\ \A k \in 1 .. n : f[k] = Then(k, f[k - 1])
      BY <1>4, <1>5, <2>1 DEF Runs
    <2>3. Is(f)
      BY <1>4, <2>1, <2>2 DEF b
    <2> QED
      BY <2>3
  <1>7. Is(g)
    <2>1. g = CHOOSE f : Is(f)
      BY DEF LiveUpTo
    <2> HIDE DEF Is, g
    <2> QED
      BY <1>6, <2>1
  <1> HIDE DEF n, S, g, step
  <1>8. TakesSteps(g, n, S, b, step)
    BY <1>4, <1>5, <1>7 DEF TakesSteps
  <1>9. g \in [0 .. n -> S] /\ Runs(g, n, b, step)
    <2> HIDE DEF b
    <2> QED
      BY <1>1, <1>3, <1>8, StepsDetermine
  <1>10. \A k \in 1 .. n : g[k] = Then(k, g[k - 1])
    BY <1>4, <1>5, <1>9 DEF Runs
  <1> QED
    BY <1>9, <1>10 DEF n, S, g, Runs

LEMMA LiveInBlocksIs ==
    ASSUME NEW i, Content[i] \in Seq(Nat), NEW L,
           \A k \in 1 .. Len(Content[i]) : Live(EntriesOf(Content[i][k])) \in Seq(L)
    PROVE  /\ LiveInBlocks(i) \in [0 .. Len(Content[i]) -> Seq(L)]
           /\ LiveInBlocks(i)[0] = << >>
           /\ \A k \in 1 .. Len(Content[i]) :
                LiveInBlocks(i)[k] = LiveInBlocks(i)[k - 1] \o Live(EntriesOf(Content[i][k]))
  <1> DEFINE n == Len(Content[i])
             S == Seq(L)
             b == << >>
             Then(k, s) == s \o Live(EntriesOf(Content[i][k]))
             step == [k \in 1 .. n |-> [s \in S |-> Then(k, s)]]
             Is(f) == f = [k \in 0 .. n |-> IF k = 0 THEN << >>
                                            ELSE f[k - 1] \o Live(EntriesOf(Content[i][k]))]
             g == LiveInBlocks(i)
  <1>1. n \in Nat /\ b \in S
    BY LenProperties
  <1>2. \A k \in 1 .. n : \A s \in S : Then(k, s) \in S
    BY ConcatProperties
  <1>3. step \in [1 .. n -> [S -> S]]
    BY <1>2
  <1>4. /\ \A k \in 1 .. n : k - 1 \in 0 .. n /\ k \in 0 .. n /\ k # 0
        /\ \A k \in 0 .. n : k # 0 => k \in 1 .. n
        /\ 0 \in 0 .. n
    BY <1>1, SMT
  <1>5. \A k \in 1 .. n : \A s \in S : step[k][s] = Then(k, s)
    OBVIOUS
  <1>6. \E f : Is(f)
    <2> HIDE DEF n, S, b, step
    <2>1. PICK f \in [0 .. n -> S] : Runs(f, n, b, step)
      BY <1>1, <1>3, StepsHaveFunction
    <2>2. f[0] = b /\ \A k \in 1 .. n : f[k] = Then(k, f[k - 1])
      BY <1>4, <1>5, <2>1 DEF Runs
    <2>3. Is(f)
      BY <1>4, <2>1, <2>2 DEF b
    <2> QED
      BY <2>3
  <1>7. Is(g)
    <2>1. g = CHOOSE f : Is(f)
      BY DEF LiveInBlocks
    <2> HIDE DEF Is, g
    <2> QED
      BY <1>6, <2>1
  <1> HIDE DEF n, S, g, step
  <1>8. TakesSteps(g, n, S, b, step)
    BY <1>4, <1>5, <1>7 DEF TakesSteps
  <1>9. g \in [0 .. n -> S] /\ Runs(g, n, b, step)
    <2> HIDE DEF b
    <2> QED
      BY <1>1, <1>3, <1>8, StepsDetermine
  <1>10. \A k \in 1 .. n : g[k] = Then(k, g[k - 1])
    BY <1>4, <1>5, <1>9 DEF Runs
  <1> QED
    BY <1>9, <1>10 DEF n, S, g, Runs

LEMMA LiveType ==
    ASSUME NEW entries \in Seq(Entry), NEW L,
           \A k \in 1 .. Len(entries) : entries[k].inode # 0 => entries[k] \in L
    PROVE  Live(entries) \in Seq(L)
  <1>1. Len(entries) \in 0 .. Len(entries)
    BY LenProperties, SMT
  <1> QED
    BY <1>1, LiveUpToIs DEF Live

\* An inode in use has a number other than 0, and the driver finds it.
LEMMA InodeInPlace ==
    ASSUME NEW i \in DOMAIN Disk
    PROVE  i \in Nat \ {0} /\ ReadInode(i) = TrueInode(i)
  <1>1. PICK g \in 0 .. i, k \in 0 .. InodesPerGroup - 1 :
            /\ i = g * InodesPerGroup + k + 1
            /\ HeaderSize + g * DescSize \in DOMAIN DescAt
            /\ BlockSize * DescAt[HeaderSize + g * DescSize] + InodeSize * k \in DOMAIN InodeAt
            /\ InodeAt[BlockSize * DescAt[HeaderSize + g * DescSize] + InodeSize * k] = Disk[i]
    BY PlaceAssumption
  <1>2. i \in Nat /\ InodesPerGroup \in Nat \ {0} /\ HeaderSize \in Nat
    BY LayoutAssumption, SizeAssumption
  <1>3. g \in Nat /\ k \in Nat
    BY <1>2, SMT
  <1>4. g * InodesPerGroup \in Nat
    BY <1>2, <1>3, NatTimes
  <1>5. i \in Nat \ {0} /\ i - 1 = g * InodesPerGroup + k
    BY <1>1, <1>2, <1>3, <1>4, SMT
  <1>6. (i - 1) \div InodesPerGroup = g /\ (i - 1) % InodesPerGroup = k
    <2> DEFINE a == i - 1
    <2>1. a = g * InodesPerGroup + k /\ k \in 0 .. InodesPerGroup - 1
      BY <1>5
    <2> HIDE DEF a
    <2>3. a \div InodesPerGroup = g /\ a % InodesPerGroup = k
      BY <1>2, <1>3, <2>1, DivOfSum, ZenonT(60)
    <2> QED
      BY <2>3 DEF a
  <1>7. GroupTable = HeaderSize
    <2> DEFINE q == HeaderSize \div BlockSize
    <2>1. q \in Nat /\ HeaderSize = (q * BlockSize) + (HeaderSize % BlockSize)
      BY <1>2, Sizes, DivMod
    <2>2. HeaderSize % BlockSize = 0
      BY PlaceAssumption
    <2>3. q * BlockSize \in Nat /\ BlockSize * q = q * BlockSize
      BY <2>1, Sizes, NatTimes, SMT
    <2>4. GroupTable = BlockSize * q
      BY DEF GroupTable
    <2> HIDE DEF q
    <2> QED
      BY <2>1, <2>2, <2>3, <2>4, SMT
  <1> QED
    BY <1>1, <1>5, <1>6, <1>7 DEF ReadInode, Read, TrueInode

\* The entries in use of a directory.
Known == {e \in Entry : e.inode \in DOMAIN Disk}

LEMMA DirectoryEntries ==
    ASSUME NEW i \in DOMAIN Disk, Disk[i].kind = "dir"
    PROVE  /\ Content[i] \in Seq(Nat)
           /\ \A b \in 1 .. Len(Content[i]) :
                LET entries == EntriesOf(Content[i][b])
                IN  /\ entries \in Seq(Entry)
                    /\ \A k \in 1 .. Len(entries) :
                        entries[k].inode # 0 => entries[k] \in Known
           /\ LiveInBlocks(i) \in [0 .. Len(Content[i]) -> Seq(Known)]
           /\ LiveInBlocks(i)[0] = << >>
           /\ \A k \in 1 .. Len(Content[i]) :
                LiveInBlocks(i)[k] = LiveInBlocks(i)[k - 1] \o Live(EntriesOf(Content[i][k]))
  <1>1. Content[i] \in Seq(Nat)
    BY LayoutAssumption
  <1>2. ASSUME NEW b \in 1 .. Len(Content[i]), NEW entries, entries = EntriesOf(Content[i][b])
        PROVE  /\ entries \in Seq(Entry)
               /\ \A k \in 1 .. Len(entries) : entries[k].inode # 0 => entries[k] \in Known
               /\ Live(entries) \in Seq(Known)
    <2>1. entries \in Seq(Entry)
      BY <1>2, EntriesType
    <2>2. \A k \in 1 .. Len(entries) : entries[k] \in Entry
      BY <2>1, ElementOfSeq
    <2>3. b \in DOMAIN Content[i] /\ DOMAIN entries = 1 .. Len(entries)
      BY <1>1, <2>1, LenProperties
    <2>4. \A k \in DOMAIN entries : entries[k].inode \in DOMAIN Disk \union {0}
      BY <1>2, <2>3, DirectoryAssumption
    <2>5. \A k \in 1 .. Len(entries) : entries[k].inode # 0 => entries[k] \in Known
      BY <2>2, <2>3, <2>4 DEF Known
    <2> QED
      BY <2>1, <2>5, LiveType
  <1>3. \A k \in 1 .. Len(Content[i]) : Live(EntriesOf(Content[i][k])) \in Seq(Known)
    BY <1>2
  <1> QED
    BY <1>1, <1>2, <1>3, LiveInBlocksIs

-----------------------------------------------------------------------------
\* What has been listed of a directory so far is the beginning of its listing.
Starts(s, t) == Len(s) <= Len(t) /\ \A k \in 1 .. Len(s) : t[k] = s[k]

LEMMA StartsOn ==
    ASSUME NEW L, NEW s \in Seq(L), NEW t \in Seq(L), NEW u \in Seq(L)
    PROVE  /\ Starts(s, s)
           /\ Starts(s, t) /\ Starts(t, u) => Starts(s, u)
           /\ Starts(s, s \o t)
           /\ Starts(t, u) => Starts(s \o t, s \o u)
  <1>1. Len(s) \in Nat /\ Len(t) \in Nat /\ Len(u) \in Nat
    BY LenProperties
  <1>2. Starts(s, s) /\ (Starts(s, t) /\ Starts(t, u) => Starts(s, u))
    BY <1>1, SMT DEF Starts
  <1>3. /\ Len(s \o t) = Len(s) + Len(t) /\ Len(s \o u) = Len(s) + Len(u)
        /\ \A k \in 1 .. Len(s) + Len(t) :
                (s \o t)[k] = IF k <= Len(s) THEN s[k] ELSE t[k - Len(s)]
        /\ \A k \in 1 .. Len(s) + Len(u) :
                (s \o u)[k] = IF k <= Len(s) THEN s[k] ELSE u[k - Len(s)]
    BY ConcatProperties
  <1>4. Starts(s, s \o t)
    BY <1>1, <1>3, SMT DEF Starts
  <1>5. ASSUME Starts(t, u) PROVE Starts(s \o t, s \o u)
    <2> DEFINE st == s \o t
               su == s \o u
    <2>1. Len(t) <= Len(u) /\ \A k \in 1 .. Len(t) : u[k] = t[k]
      BY <1>5 DEF Starts
    <2>2. /\ Len(st) = Len(s) + Len(t) /\ Len(su) = Len(s) + Len(u)
          /\ \A k \in 1 .. Len(s) + Len(t) : st[k] = IF k <= Len(s) THEN s[k] ELSE t[k - Len(s)]
          /\ \A k \in 1 .. Len(s) + Len(u) : su[k] = IF k <= Len(s) THEN s[k] ELSE u[k - Len(s)]
      BY <1>3
    <2> HIDE DEF st, su
    <2>3. ASSUME NEW k \in 1 .. Len(s) + Len(t) PROVE su[k] = st[k]
      <3>1. k \in 1 .. Len(s) + Len(u) /\ (~ k <= Len(s) => k - Len(s) \in 1 .. Len(t))
        BY <1>1, <2>1, SMT
      <3> QED
        BY <2>1, <2>2, <3>1
    <2>4. Len(st) <= Len(su)
      BY <1>1, <2>1, <2>2, SMT
    <2>5. Starts(st, su)
      BY <2>2, <2>3, <2>4 DEF Starts
    <2> QED
      BY <2>5 DEF st, su
  <1> QED
    BY <1>2, <1>4, <1>5

LEMMA StartsTrans ==
    ASSUME NEW L, NEW s \in Seq(L), NEW t \in Seq(L), NEW u \in Seq(L),
           Starts(s, t), Starts(t, u)
    PROVE  Starts(s, u)
  BY StartsOn

LEMMA StartsConcat ==
    ASSUME NEW L, NEW s \in Seq(L), NEW t \in Seq(L)
    PROVE  s \o t \in Seq(L) /\ Starts(s, s \o t)
  BY StartsOn, ConcatProperties

\* A sequence that grows at its end begins with what it was at any time.
LEMMA Growing ==
    ASSUME NEW n \in Nat, NEW L, NEW f \in [0 .. n -> Seq(L)], NEW j \in 0 .. n,
           \A k \in 1 .. n : Starts(f[k - 1], f[k])
    PROVE  \A k \in j .. n : Starts(f[j], f[k])
  <1> DEFINE Bad == {k \in j .. n : ~ Starts(f[j], f[k])}
  <1> SUFFICES ASSUME Bad # {} PROVE FALSE
    OBVIOUS
  <1>1. PICK k \in Bad : \A l \in Bad : k <= l
    <2>1. Bad \in SUBSET Nat
      BY SMT
    <2> HIDE DEF Bad
    <2> QED
      BY <2>1, LeastNumber
  <1>2. k \in 0 .. n /\ f[j] \in Seq(L) /\ f[k] \in Seq(L)
    BY SMT
  <1>3. k # j
    BY <1>2, StartsOn
  <1>4. k \in 1 .. n /\ k - 1 \in j .. n /\ k - 1 \in 0 .. n /\ ~ k <= k - 1
    BY <1>3, SMT
  <1>5. Starts(f[j], f[k - 1])
    BY <1>1, <1>4
  <1>6. Starts(f[k - 1], f[k]) /\ f[k - 1] \in Seq(L)
    BY <1>4
  <1> QED
    BY <1>2, <1>5, <1>6, StartsOn

LEMMA KnownSequences ==
    /\ \A s \in Seq(Known) : \A t \in Seq(Known) : s \o t \in Seq(Known)
    /\ \A s \in Seq(Known) : \A e \in Known : Append(s, e) = s \o <<e>>
  BY ConcatProperties, AppendIsConcat

LEMMA BehindIs ==
    ASSUME NEW i \in DOMAIN Disk, Disk[i].kind = "dir"
    PROVE  /\ Listing[i] = Behind(i, Len(Content[i]), 0)
           /\ Behind(i, 0, 0) = << >>
           /\ \A n \in 0 .. Len(Content[i]) :
                Behind(i, n, 0) \in Seq(Known) /\ Starts(Behind(i, n, 0), Listing[i])
           /\ \A n \in 0 .. Len(Content[i]) - 1 :
                LET entries == EntriesOf(Content[i][n + 1])
                IN  /\ Behind(i, n, Len(entries)) = Behind(i, n + 1, 0)
                    /\ \A k \in 1 .. Len(entries) :
                        /\ Behind(i, n, k) \in Seq(Known) /\ Starts(Behind(i, n, k), Listing[i])
                        /\ Behind(i, n, k) =
                            IF entries[k].inode = 0 THEN Behind(i, n, k - 1)
                            ELSE Append(Behind(i, n, k - 1), entries[k])
  <1> DEFINE m == Len(Content[i])
             blocks == LiveInBlocks(i)
             E(n) == EntriesOf(Content[i][n])
             upTo(n) == LiveUpTo(E(n))
  <1>1. /\ m \in Nat /\ blocks \in [0 .. m -> Seq(Known)] /\ blocks[0] = << >>
        /\ \A n \in 1 .. m :
            /\ E(n) \in Seq(Entry) /\ Len(E(n)) \in Nat
            /\ \A k \in 1 .. Len(E(n)) : E(n)[k].inode # 0 => E(n)[k] \in Known
            /\ blocks[n] = blocks[n - 1] \o Live(E(n))
    BY DirectoryEntries, LenProperties
  <1>2. \A n \in 1 .. m :
            /\ upTo(n) \in [0 .. Len(E(n)) -> Seq(Known)]
            /\ upTo(n)[0] = << >>
            /\ \A k \in 1 .. Len(E(n)) :
                upTo(n)[k] = IF E(n)[k].inode = 0 THEN upTo(n)[k - 1]
                             ELSE Append(upTo(n)[k - 1], E(n)[k])
            /\ Live(E(n)) = upTo(n)[Len(E(n))]
    BY <1>1, LiveUpToIs DEF Live
  <1>3. /\ \A n : Behind(i, n, 0) = blocks[n] \o << >>
        /\ \A n \in 0 .. m - 1 : \A k \in 0 .. Len(E(n + 1)) :
                Behind(i, n, k) = blocks[n] \o upTo(n + 1)[k]
    <2>1. \A n \in 0 .. m - 1 : n + 1 \in 1 .. m
      BY <1>1, SMT
    <2> QED
      BY <1>2, <2>1 DEF Behind
  <1>4. \A n \in 0 .. m : Behind(i, n, 0) = blocks[n] /\ blocks[n] \in Seq(Known)
    BY <1>1, <1>3, ConcatEmptySeq
  <1>5. Listing[i] = blocks[m]
    BY DEF Listing
  <1> HIDE DEF blocks, upTo, E
  <1>6. ASSUME NEW n \in 1 .. m
        PROVE  /\ \A k \in 1 .. Len(E(n)) : Starts(upTo(n)[k - 1], upTo(n)[k])
               /\ \A k \in 0 .. Len(E(n)) : Starts(upTo(n)[k], upTo(n)[Len(E(n))])
    <2>1. Len(E(n)) \in Nat /\ upTo(n) \in [0 .. Len(E(n)) -> Seq(Known)]
      BY <1>1, <1>2
    <2>2. ASSUME NEW k \in 1 .. Len(E(n)) PROVE Starts(upTo(n)[k - 1], upTo(n)[k])
      <3> DEFINE s == upTo(n)[k - 1]
      <3>1. k - 1 \in 0 .. Len(E(n)) /\ s \in Seq(Known)
        BY <2>1, SMT
      <3>2. CASE E(n)[k].inode = 0
        BY <1>2, <3>1, <3>2, StartsOn
      <3>3. CASE E(n)[k].inode # 0
        <4>1. upTo(n)[k] = Append(s, E(n)[k]) /\ E(n)[k] \in Known
          BY <1>1, <1>2, <3>3
        <4>2. Append(s, E(n)[k]) = s \o <<E(n)[k]>> /\ <<E(n)[k]>> \in Seq(Known)
          <5> HIDE DEF s
          <5> QED
            BY <3>1, <4>1, AppendIsConcat, SMT
        <4> HIDE DEF s
        <4>3. Starts(s, s \o <<E(n)[k]>>)
          BY <3>1, <4>2, StartsConcat
        <4> QED
          BY <4>1, <4>2, <4>3 DEF s
      <3> QED
        BY <3>2, <3>3
    <2>3. ASSUME NEW k \in 0 .. Len(E(n)) PROVE Starts(upTo(n)[k], upTo(n)[Len(E(n))])
      <3>1. Len(E(n)) \in k .. Len(E(n))
        BY <2>1, SMT
      <3> QED
        BY <2>1, <2>2, <3>1, Growing
    <2> QED
      BY <2>2, <2>3
  <1>7. ASSUME NEW n \in 1 .. m PROVE Starts(blocks[n - 1], blocks[n])
    <2>1. blocks[n - 1] \in Seq(Known) /\ Live(E(n)) \in Seq(Known)
      <3>1. n - 1 \in 0 .. m /\ Len(E(n)) \in 0 .. Len(E(n))
        BY <1>1, SMT
      <3> QED
        BY <1>1, <1>2, <3>1
    <2>2. Starts(blocks[n - 1], blocks[n - 1] \o Live(E(n)))
      BY <2>1, StartsConcat
    <2> QED
      BY <1>1, <2>2
  <1>8. ASSUME NEW n \in 0 .. m PROVE Starts(blocks[n], blocks[m])
    <2>1. m \in n .. m
      BY <1>1, SMT
    <2> QED
      BY <1>1, <1>7, <2>1, Growing
  <1>9. ASSUME NEW n \in 0 .. m - 1
        PROVE  /\ Behind(i, n, Len(E(n + 1))) = Behind(i, n + 1, 0)
               /\ \A k \in 1 .. Len(E(n + 1)) :
                    /\ Behind(i, n, k) \in Seq(Known) /\ Starts(Behind(i, n, k), Listing[i])
                    /\ Behind(i, n, k) =
                        IF E(n + 1)[k].inode = 0 THEN Behind(i, n, k - 1)
                        ELSE Append(Behind(i, n, k - 1), E(n + 1)[k])
    <2>0. n + 1 \in 1 .. m /\ n \in 0 .. m /\ n + 1 \in 0 .. m /\ (n + 1) - 1 = n
      <3>1. m \in Nat
        BY <1>1
      <3> HIDE DEF m
      <3> QED
        BY <3>1, SMT
    <2>1. Len(E(n + 1)) \in Nat /\ Len(E(n + 1)) \in 0 .. Len(E(n + 1))
      BY <1>1, <2>0, SMT
    <2>2. blocks[n + 1] = blocks[n] \o upTo(n + 1)[Len(E(n + 1))]
      BY <1>1, <1>2, <2>0
    <2>3. Behind(i, n, Len(E(n + 1))) = Behind(i, n + 1, 0)
      BY <1>3, <1>4, <2>0, <2>1, <2>2
    <2>4. ASSUME NEW k \in 1 .. Len(E(n + 1))
          PROVE  /\ Behind(i, n, k) \in Seq(Known) /\ Starts(Behind(i, n, k), Listing[i])
                 /\ Behind(i, n, k) =
                        IF E(n + 1)[k].inode = 0 THEN Behind(i, n, k - 1)
                        ELSE Append(Behind(i, n, k - 1), E(n + 1)[k])
      <3> DEFINE s == blocks[n]
                 t == upTo(n + 1)[k]
                 r == upTo(n + 1)[k - 1]
                 u == upTo(n + 1)[Len(E(n + 1))]
                 e == E(n + 1)[k]
      <3>1. k \in 0 .. Len(E(n + 1)) /\ k - 1 \in 0 .. Len(E(n + 1))
        BY <2>1, SMT
      <3>2. s \in Seq(Known) /\ t \in Seq(Known) /\ r \in Seq(Known) /\ u \in Seq(Known)
        BY <1>1, <1>2, <2>0, <2>1, <3>1
      <3>3. Behind(i, n, k) = s \o t /\ Behind(i, n, k - 1) = s \o r
        BY <1>3, <3>1
      <3>4. s \o t \in Seq(Known)
        BY <3>2, ConcatProperties
      <3>5. Starts(s \o t, s \o u)
        BY <1>6, <2>0, <3>1, <3>2, StartsOn
      <3>6. Starts(s \o u, Listing[i])
        BY <1>5, <1>8, <2>0, <2>2
      <3>7. s \o u \in Seq(Known) /\ Listing[i] \in Seq(Known)
        <4>1. m \in 0 .. m
          BY <1>1, SMT
        <4> QED
          BY <1>4, <1>5, <3>2, <4>1, ConcatProperties
      <3>8. Starts(s \o t, Listing[i])
        BY <3>4, <3>5, <3>6, <3>7, StartsTrans
      <3>9. CASE e.inode = 0
        BY <1>2, <2>0, <3>3, <3>4, <3>8, <3>9
      <3>10. CASE e.inode # 0
        <4>1. t = Append(r, e) /\ e \in Known
          BY <1>1, <1>2, <2>0, <3>10
        <4> HIDE DEF s, t, r, e, u
        <4>2. Append(r, e) = r \o <<e>> /\ <<e>> \in Seq(Known) /\ s \o r \in Seq(Known)
          <5>1. <<e>> \in Seq(Known)
            BY <4>1, SMT
          <5>2. Append(r, e) = r \o <<e>>
            BY <3>2, <4>1, KnownSequences
          <5>3. s \o r \in Seq(Known)
            BY <3>2, KnownSequences
          <5> QED
            BY <5>1, <5>2, <5>3
        <4>3. s \o (r \o <<e>>) = (s \o r) \o <<e>>
          BY <3>2, <4>2, ConcatAssociative
        <4>4. Append(s \o r, e) = (s \o r) \o <<e>>
          BY <4>1, <4>2, AppendIsConcat
        <4>5. s \o t = Append(s \o r, e)
          BY <4>1, <4>2, <4>3, <4>4
        <4> QED
          BY <3>3, <3>4, <3>8, <3>10, <4>5 DEF e
      <3> QED
        BY <3>9, <3>10
    <2> QED
      BY <2>3, <2>4
  <1>10. ASSUME NEW n \in 0 .. m
         PROVE  Behind(i, n, 0) \in Seq(Known) /\ Starts(Behind(i, n, 0), Listing[i])
    BY <1>4, <1>5, <1>8
  <1>11. Listing[i] = Behind(i, m, 0) /\ Behind(i, 0, 0) = << >>
    <2>1. m \in 0 .. m /\ 0 \in 0 .. m
      BY <1>1, SMT
    <2> QED
      BY <1>1, <1>4, <1>5, <2>1
  <1> QED
    BY <1>9, <1>10, <1>11 DEF E

-----------------------------------------------------------------------------
\* The first block that a pointer of the inode leads to.
First(p, N) == BlockIndex(Loc(p, 0, 0, 0), N)

LEMMA FirstIs ==
    ASSUME NEW N \in Nat \ {0}
    PROVE  /\ \A p \in 0 .. 12 : First(p, N) = p
           /\ First(13, N) = Single(N) /\ First(14, N) = Double(N) /\ First(15, N) = Capacity(N)
           /\ Single(N) = 12 + N /\ Double(N) = Single(N) + N * N
           /\ Capacity(N) = Double(N) + N * (N * N)
           /\ N * N \in Nat \ {0} /\ N * (N * N) \in Nat \ {0}
           /\ Single(N) \in Nat /\ Double(N) \in Nat /\ Capacity(N) \in Nat
  <1>1. /\ N * N \in Nat \ {0} /\ N * N * N \in Nat \ {0}
        /\ N * N * N = N * (N * N)
        /\ Single(N) \in Nat /\ Double(N) \in Nat /\ Capacity(N) \in Nat
        /\ Double(N) = Single(N) + N * N /\ Capacity(N) = Double(N) + N * (N * N)
    BY SizesAreNat
  <1>2. 0 * N = 0 /\ 0 * (N * N) = 0
    BY <1>1, SMT
  <1>3. /\ \A p \in 0 .. 12 : First(p, N) = p + 0
        /\ First(13, N) = Single(N) + 0 * N + 0
        /\ First(14, N) = Double(N) + 0 * (N * N) + 0 * N + 0
        /\ First(15, N) = Capacity(N)
    BY SMT DEF First, BlockIndex, Loc
  <1> QED
    BY <1>1, <1>2, <1>3, SMT DEF Single

\* The blocks of one pointer come before those of the next one.
LEMMA PointersInOrder ==
    ASSUME NEW N \in Nat \ {0}, NEW loc \in Location(N)
    PROVE  /\ First(loc.ptr, N) <= BlockIndex(loc, N)
           /\ \A p \in loc.ptr + 1 .. 15 : BlockIndex(loc, N) < First(p, N)
  <1>f. /\ \A p \in 0 .. 12 : First(p, N) = p
        /\ First(13, N) = Single(N) /\ First(14, N) = Double(N) /\ First(15, N) = Capacity(N)
        /\ Single(N) = 12 + N /\ Double(N) = Single(N) + N * N
        /\ Capacity(N) = Double(N) + N * (N * N)
        /\ N * N \in Nat \ {0} /\ N * (N * N) \in Nat \ {0}
    BY FirstIs
  <1>l. /\ loc.ptr \in 0 .. 15
        /\ loc.third \in 0 .. N - 1 /\ loc.sec \in 0 .. N - 1 /\ loc.one \in 0 .. N - 1
        /\ loc.ptr \notin 12 .. 14 => loc.one = 0
    BY LocationFields
  <1> DEFINE P == loc.sec * N
             Q == loc.third * (N * N)
             M == N * N
             C == N * (N * N)
             b == BlockIndex(loc, N)
  <1>1. /\ P \in Nat /\ Q \in Nat /\ P + N <= M /\ Q + M <= C
    <2>1. \A d \in Nat : \A x \in 0 .. N - 1 : x * d \in Nat /\ x * d + d <= N * d
      <3> SUFFICES ASSUME NEW d \in Nat, NEW x \in 0 .. N - 1
                   PROVE  x * d \in Nat /\ x * d + d <= N * d
        OBVIOUS
      <3>1. N = x + 1 + (N - 1 - x) /\ N - 1 - x \in Nat /\ x \in Nat
        BY SMT
      <3> DEFINE y == N - 1 - x
      <3>2. N * d = x * d + d + y * d
        BY <3>1, SMT
      <3>3. x * d \in Nat /\ y * d \in Nat
        BY <3>1, NatTimes
      <3> HIDE DEF y
      <3> QED
        BY <3>2, <3>3, SMT
    <2>2. N * N \in Nat
      BY NatTimes
    <2> QED
      BY <1>l, <2>1, <2>2
  <1>2. b = (IF loc.ptr <= 12 THEN loc.ptr + loc.one
             ELSE IF loc.ptr = 13 THEN Single(N) + P + loc.one
             ELSE IF loc.ptr = 14 THEN Double(N) + Q + P + loc.one
             ELSE Capacity(N))
    BY DEF BlockIndex
  <1>3. /\ Single(N) = 12 + N /\ Double(N) = Single(N) + M /\ Capacity(N) = Double(N) + C
        /\ M \in Nat \ {0} /\ C \in Nat \ {0}
    BY <1>f
  <1> HIDE DEF P, Q, M, C, b
  <1>4. First(loc.ptr, N) <= b
    <2>1. loc.ptr <= 12 \/ loc.ptr = 13 \/ loc.ptr = 14 \/ loc.ptr = 15
      BY <1>l, SMT
    <2> QED
      BY <1>f, <1>l, <1>1, <1>2, <1>3, <2>1, SMT
  <1>5. ASSUME NEW p \in loc.ptr + 1 .. 15 PROVE b < First(p, N)
    <2>1. p \in 0 .. 12 \/ p = 13 \/ p = 14 \/ p = 15
      BY <1>l, SMT
    <2>2. loc.ptr < p /\ loc.ptr < 15
      BY <1>l, SMT
    <2>3. loc.ptr < 12 \/ loc.ptr = 12 \/ loc.ptr = 13 \/ loc.ptr = 14
      BY <1>l, <2>2, SMT
    <2>4. b < IF loc.ptr < 12 THEN loc.ptr + 1 ELSE IF loc.ptr = 12 THEN Single(N)
              ELSE IF loc.ptr = 13 THEN Double(N) ELSE Capacity(N)
      BY <1>l, <1>1, <1>2, <1>3, <2>3, SMT
    <2>5. b \in Int
      BY <1>l, <1>1, <1>2, <1>3, <2>3, SMT
    <2> QED
      BY <1>f, <1>l, <1>3, <2>1, <2>2, <2>3, <2>4, <2>5, SMTT(30)
  <1> QED
    BY <1>4, <1>5 DEF b

\* A directory as the scan meets it: no hole before its last block, and none of
\* the inode's pointers leads behind that, unless its size ends there as well.
LEMMA DirectoryShape ==
    ASSUME NEW i \in DOMAIN Disk, Disk[i].kind = "dir"
    PROVE  LET m == Len(Content[i])
           IN  /\ m \in Nat /\ m * BlockSize \in Nat /\ Disk[i].size \in Nat
               /\ m * BlockSize <= Disk[i].size /\ m <= Capacity(Pointers)
               /\ \A loc \in Location(Pointers) : loc.ptr < 15 =>
                    LET n == BlockIndex(loc, Pointers)
                    IN  /\ Disk[i].block[loc.ptr] = 0 => m <= n
                        /\ Disk[i].block[loc.ptr] # 0 /\ m * BlockSize < Disk[i].size => n < m
                        /\ n < m => EntriesOf(Follow(TrueInode(i), loc)) = EntriesOf(Content[i][n + 1])
               /\ \A n \in 0 .. m - 1 : FillBlock(EntriesOf(Content[i][n + 1]))
  <1> DEFINE m == Len(Content[i])
  <1>1. Content[i] \in Seq(Nat) /\ Disk[i] \in DiskInode
    BY LayoutAssumption
  <1>2. m \in Nat /\ Disk[i].size \in Nat /\ Disk[i].size <= MaxSize /\ m * BlockSize \in Nat
    <2>1. m \in Nat /\ DOMAIN Content[i] = 1 .. m
      BY <1>1, LenProperties
    <2>2. Disk[i].size \in 0 .. MaxSize
      BY <1>1 DEF DiskInode
    <2> QED
      BY <2>1, <2>2, Sizes, NatTimes, SMT
  <1>3. /\ \A p \in 0 .. 14 : Disk[i].block[p] # 0 <=> First(p, Pointers) < m
        /\ \/ Disk[i].size = m * BlockSize
           \/ Disk[i].size > m * BlockSize /\ \E p \in 0 .. 15 : First(p, Pointers) = m
        /\ \A b \in DOMAIN Content[i] : FillBlock(EntriesOf(Content[i][b]))
    BY DirectoryAssumption DEF First
  <1> HIDE DEF m
  <1>4. m * BlockSize <= Disk[i].size
    BY <1>2, <1>3, SMT
  <1>5. m <= Capacity(Pointers)
    <2> DEFINE c == Capacity(Pointers)
    <2>1. c \in Nat /\ BlockSize \in Nat \ {0} /\ m * BlockSize <= c * BlockSize
      BY <1>2, <1>4, Sizes, SMT
    <2> HIDE DEF c
    <2>2. CASE m > c
      <3> DEFINE x == m - c - 1
      <3>1. x \in Nat /\ m = c + 1 + x
        BY <1>2, <2>1, <2>2, SMT
      <3>2. m * BlockSize = c * BlockSize + BlockSize + x * BlockSize
        BY <2>1, <3>1, SMT
      <3>3. x * BlockSize \in Nat /\ c * BlockSize \in Nat
        BY <2>1, <3>1, NatTimes
      <3> HIDE DEF x
      <3> QED
        BY <2>1, <3>2, <3>3, SMT
    <2> QED
      BY <1>2, <2>1, <2>2, SMT DEF c
  <1>6. ASSUME NEW loc \in Location(Pointers), loc.ptr < 15, NEW n, n = BlockIndex(loc, Pointers)
        PROVE  /\ Disk[i].block[loc.ptr] = 0 => m <= n
               /\ Disk[i].block[loc.ptr] # 0 /\ m * BlockSize < Disk[i].size => n < m
               /\ n < m => Follow(TrueInode(i), loc) = Content[i][n + 1]
    <2>1. n \in Nat /\ loc.ptr \in 0 .. 14 /\ Pointers \in Nat \ {0}
      <3>1. loc.ptr \in 0 .. 15
        BY Sizes, LocationFields
      <3> QED
        BY <1>6, <3>1, Sizes, BlockIndexType, SMT
    <2>2. /\ First(loc.ptr, Pointers) <= n
          /\ \A p \in loc.ptr + 1 .. 15 : n < First(p, Pointers)
      BY <1>6, <2>1, PointersInOrder
    <2>3. \A p \in 0 .. 15 : First(p, Pointers) \in Nat
      <3>1. ASSUME NEW p \in 0 .. 15 PROVE Loc(p, 0, 0, 0) \in Location(Pointers)
        <4>1. 0 \in 0 .. Pointers - 1
          BY <2>1, SMT
        <4> QED
          BY <4>1 DEF Loc, Location
      <3> QED
        BY <2>1, <3>1, BlockIndexType DEF First
    <2>4. ASSUME Disk[i].block[loc.ptr] = 0 PROVE m <= n
      <3>1. ~ First(loc.ptr, Pointers) < m
        BY <1>3, <2>1, <2>4
      <3>2. First(loc.ptr, Pointers) \in Nat
        BY <2>1, <2>3, SMT
      <3> QED
        BY <1>2, <2>1, <2>2, <3>1, <3>2, SMT
    <2>5. ASSUME Disk[i].block[loc.ptr] # 0, m * BlockSize < Disk[i].size PROVE n < m
      <3>1. First(loc.ptr, Pointers) < m
        BY <1>3, <2>1, <2>5
      <3>2. PICK p \in 0 .. 15 : First(p, Pointers) = m
        BY <1>2, <1>3, <2>5, SMT
      <3>3. CASE p \in loc.ptr + 1 .. 15
        BY <2>2, <3>2, <3>3
      <3>4. CASE p = loc.ptr
        BY <1>2, <3>1, <3>2, <3>4, SMT
      <3>5. CASE p < loc.ptr
        <4> DEFINE pLoc == Loc(p, 0, 0, 0)
        <4>1. pLoc \in Location(Pointers) /\ pLoc.ptr = p
          <5>1. 0 \in 0 .. Pointers - 1
            BY <2>1, SMT
          <5> QED
            BY <5>1 DEF Loc, Location
        <4>2. loc.ptr \in pLoc.ptr + 1 .. 15
          BY <2>1, <3>5, <4>1, SMT
        <4>3. First(p, Pointers) < First(loc.ptr, Pointers)
          BY <2>1, <4>1, <4>2, PointersInOrder DEF First
        <4>4. First(loc.ptr, Pointers) \in Nat
          BY <2>1, <2>3, SMT
        <4> QED
          BY <1>2, <3>1, <3>2, <4>3, <4>4, SMT
      <3> QED
        BY <2>1, <3>3, <3>4, <3>5, SMT
    <2>6. n < m => Follow(TrueInode(i), loc) = Content[i][n + 1]
      BY <1>6, LayoutAssumption DEF m
    <2> QED
      BY <2>4, <2>5, <2>6
  <1>7. \A n \in 0 .. m - 1 : FillBlock(EntriesOf(Content[i][n + 1]))
    <2>1. \A n \in 0 .. m - 1 : n + 1 \in 1 .. m
      BY <1>2, SMT
    <2>2. DOMAIN Content[i] = 1 .. m
      BY <1>1, LenProperties DEF m
    <2> QED
      BY <1>3, <2>1, <2>2
  <1> QED
    BY <1>2, <1>4, <1>5, <1>6, <1>7 DEF m

-----------------------------------------------------------------------------
(***************************************************************************)
(* The inductive invariant of the scan: where it stands in its block and   *)
(* in its directory tells how many bytes it has counted, and what it has   *)
(* found or listed is due to the entries behind it.                        *)
(***************************************************************************)
\* Where the entries of a block end.
Ends(entries, end) ==
    /\ end \in [0 .. Len(entries) -> 0 .. BlockSize]
    /\ end[0] = 0 /\ end[Len(entries)] = BlockSize
    /\ \A k \in 1 .. Len(entries) : end[k] = end[k - 1] + entries[k].len

\* The total is where the scan stands in the directory.
Stands(s, i) ==
    LET n == BlockIndex(s.loc, Pointers)
        m == Len(Content[i])
        entries == EntriesOf(Content[i][n + 1])
    IN  IF n < m THEN /\ s.inBlock \in 0 .. Len(entries)
                      /\ \E end : /\ Ends(entries, end)
                                  /\ s.total = n * BlockSize + end[s.inBlock]
        ELSE s.inBlock = 0 /\ s.total = m * BlockSize

\* The entries in use behind it, and what has been made of them.
Passed(s, i) ==
    LET n == BlockIndex(s.loc, Pointers)
        m == Len(Content[i])
    IN  Behind(i, IF n < m THEN n ELSE m, s.inBlock)

Seen(s, passed) ==
    /\ s.want = NoName => s.listed = passed /\ s.found = NoEntry
    /\ s.found = NoEntry => \A k \in 1 .. Len(passed) : passed[k].name # s.want
    /\ s.found # NoEntry =>
        /\ Len(passed) # 0 /\ s.found = passed[Len(passed)] /\ s.found.name = s.want
        /\ \A k \in 1 .. Len(passed) - 1 : passed[k].name # s.want

InPlace(s) ==
    s.dir.kind = "dir" =>
        /\ s.dir.ino \in DOMAIN Disk /\ s.dir = TrueInode(s.dir.ino)
        /\ Stands(s, s.dir.ino)
        /\ Seen(s, Passed(s, s.dir.ino))

ScanInv == InPlace(scan)

LEMMA TrueInodeIs ==
    ASSUME NEW i \in DOMAIN Disk
    PROVE  /\ TrueInode(i).ino = i /\ TrueInode(i).kind = Disk[i].kind
           /\ TrueInode(i).size = Disk[i].size /\ TrueInode(i).block = Disk[i].block
           /\ TrueInode(i).text = Disk[i].text
           /\ TrueInode(i) \in Inode
  <1>1. Disk[i] \in DiskInode /\ i \in Nat
    BY LayoutAssumption
  <1> QED
    BY <1>1 DEF TrueInode, InMemory, DiskInode, Inode

LEMMA SeenMore ==
    ASSUME NEW s, NEW p \in Seq(Known), NEW e \in Entry, NEW q \in Seq(Known),
           q = IF e.inode = 0 THEN p ELSE Append(p, e),
           Seen(s, p), s.found = NoEntry,
           NEW t, t.want = s.want,
           t.found = IF e.inode # 0 /\ e.name = s.want THEN e ELSE s.found,
           t.listed = IF e.inode # 0 /\ s.want = NoName THEN Append(s.listed, e) ELSE s.listed
    PROVE  Seen(t, q)
  <1>1. e.name # NoName /\ e # NoEntry
    BY NameAssumption DEF Entry, NoEntry
  <1>2. \A k \in 1 .. Len(p) : p[k].name # s.want
    BY DEF Seen
  <1>3. CASE e.inode = 0
    BY <1>3 DEF Seen
  <1>4. CASE e.inode # 0
    <2>1. q = Append(p, e)
      BY <1>4
    <2>2. /\ Len(p) \in Nat /\ Len(q) = Len(p) + 1 /\ q[Len(p) + 1] = e
          /\ \A k \in 1 .. Len(p) : q[k] = p[k]
      <3>1. Len(p) \in Nat
        BY LenProperties
      <3>2. Len(q) = Len(p) + 1 /\ q[Len(p) + 1] = e /\ \A k \in 1 .. Len(p) : q[k] = p[k]
        <4>1. e \in Known
          <5>1. Len(q) = Len(p) + 1 /\ q[Len(q)] = e /\ Len(q) \in 1 .. Len(q)
            BY <2>1, SMT
          <5> QED
            BY <5>1, ElementOfSeq
        <4> QED
          BY <2>1, <4>1, AppendProperties
      <3> QED
        BY <3>1, <3>2
    <2>3. s.want = NoName => t.listed = q /\ t.found = NoEntry
      BY <1>1, <1>4, <2>1 DEF Seen
    <2>4. CASE e.name = s.want
      <3>1. t.found = e /\ t.found # NoEntry
        BY <1>1, <1>4, <2>4
      <3>2. Len(q) # 0 /\ Len(q) - 1 = Len(p) /\ q[Len(q)] = e
        BY <2>2, SMT
      <3>3. \A k \in 1 .. Len(q) - 1 : q[k].name # s.want
        BY <1>2, <2>2, <3>2
      <3> QED
        BY <2>3, <2>4, <3>1, <3>2, <3>3 DEF Seen
    <2>5. CASE e.name # s.want
      <3>1. t.found = NoEntry
        BY <2>5
      <3>2. \A k \in 1 .. Len(q) : q[k].name # s.want
        <4>1. \A k \in 1 .. Len(q) : k \in 1 .. Len(p) \/ k = Len(p) + 1
          BY <2>2, SMT
        <4> QED
          BY <1>2, <2>2, <2>5, <4>1
      <3> QED
        BY <2>3, <3>1, <3>2 DEF Seen
    <2> QED
      BY <2>4, <2>5
  <1> QED
    BY <1>3, <1>4

LEMMA StartScanInv ==
    ASSUME NEW dir \in Inode, NEW want \in Names \union {NoName}, StartScan(dir, want),
           dir.kind = "dir" => dir.ino \in DOMAIN Disk /\ dir = TrueInode(dir.ino)
    PROVE  ScanInv'
  <1>1. /\ scan'.dir = dir /\ scan'.want = want /\ scan'.loc = FirstLoc /\ scan'.inBlock = 0
        /\ scan'.total = 0 /\ scan'.found = NoEntry /\ scan'.listed = << >>
    BY DEF StartScan, NoScan
  <1> SUFFICES ASSUME dir.kind = "dir" PROVE Stands(scan', dir.ino) /\ Seen(scan', Passed(scan', dir.ino))
    BY <1>1 DEF ScanInv, InPlace
  <1> DEFINE i == dir.ino
             m == Len(Content[i])
             entries == EntriesOf(Content[i][1])
  <1>2. i \in DOMAIN Disk /\ Disk[i].kind = "dir"
    BY TrueInodeIs
  <1>3. BlockIndex(scan'.loc, Pointers) = 0
    BY <1>1, SMT DEF BlockIndex, FirstLoc, Loc
  <1>4. /\ m \in Nat /\ BlockSize \in Nat
        /\ \A n \in 0 .. m - 1 : FillBlock(EntriesOf(Content[i][n + 1]))
    BY <1>2, DirectoryShape, Sizes
  <1>5. Behind(i, 0, 0) = << >>
    BY <1>2, BehindIs
  <1>6. Stands(scan', i)
    <2>1. CASE 0 < m
      <3>1. 0 \in 0 .. m - 1 /\ 0 + 1 = 1
        BY <1>4, <2>1, SMT
      <3>2. PICK end : Ends(entries, end)
        BY <1>4, <3>1 DEF FillBlock, Ends
      <3>3. Len(entries) \in Nat /\ 0 \in 0 .. Len(entries)
        BY EntriesType, LenProperties, SMT
      <3>4. 0 = 0 * BlockSize + end[0]
        BY <1>4, <3>2, SMT DEF Ends
      <3> HIDE DEF m, entries
      <3>5. EntriesOf(Content[i][BlockIndex(scan'.loc, Pointers) + 1]) = entries
        BY <1>3, <3>1 DEF entries
      <3> QED
        BY <1>1, <1>3, <2>1, <3>2, <3>3, <3>4, <3>5 DEF Stands, m
    <2>2. CASE ~ 0 < m
      <3>1. m = 0
        BY <1>4, <2>2, SMT
      <3>2. 0 = 0 * BlockSize
        BY <1>4, SMT
      <3> QED
        BY <1>1, <1>3, <2>2, <3>1, <3>2 DEF Stands
    <2> QED
      BY <2>1, <2>2
  <1>7. Passed(scan', i) = << >>
    <2>1. (IF 0 < m THEN 0 ELSE m) = 0
      BY <1>4, SMT
    <2> QED
      BY <1>1, <1>3, <1>5, <2>1 DEF Passed
  <1>8. Seen(scan', << >>)
    BY <1>1, SMT DEF Seen
  <1> QED
    BY <1>6, <1>7, <1>8

\* What a step of the scan meets: a block of the directory that is not behind
\* the last one, unless the pointer is to be passed over.
LEMMA ScanMeets ==
    ASSUME ScanTypeOK, ScanInv, Scanning, scan.dir.kind = "dir",
           NEW i, i = scan.dir.ino, NEW n, n = BlockIndex(scan.loc, Pointers),
           NEW m, m = Len(Content[i])
    PROVE  /\ i \in DOMAIN Disk /\ scan.dir = TrueInode(i) /\ Disk[i].kind = "dir"
           /\ n \in Nat /\ m \in Nat /\ scan.loc.ptr \in 0 .. 14
           /\ Stands(scan, i) /\ Seen(scan, Passed(scan, i))
           /\ scan.dir.block[scan.loc.ptr] = 0 => m <= n
           /\ scan.dir.block[scan.loc.ptr] # 0 =>
                n < m /\ Entries = EntriesOf(Content[i][n + 1])
  <1>1. /\ i \in DOMAIN Disk /\ scan.dir = TrueInode(i) /\ Stands(scan, i)
        /\ Seen(scan, Passed(scan, i))
    BY DEF ScanInv, InPlace
  <1>2. /\ Disk[i].kind = "dir" /\ scan.dir.block = Disk[i].block
        /\ scan.dir.size = Disk[i].size
    BY <1>1, TrueInodeIs
  <1>3. scan.loc \in Location(Pointers)
    BY DEF ScanTypeOK
  <1>4. n \in Nat /\ scan.loc.ptr \in 0 .. 14 /\ scan.loc.ptr < 15
    <2>1. n \in Nat /\ scan.loc.ptr \in 0 .. 15
      BY <1>3, Sizes, BlockIndexType, LocationFields
    <2>2. scan.loc.ptr < 15
      BY DEF Scanning
    <2> QED
      BY <2>1, <2>2, SMT
  <1>5. /\ m \in Nat /\ m * BlockSize \in Nat /\ Disk[i].size \in Nat
        /\ m * BlockSize <= Disk[i].size
        /\ Disk[i].block[scan.loc.ptr] = 0 => m <= n
        /\ Disk[i].block[scan.loc.ptr] # 0 /\ m * BlockSize < Disk[i].size => n < m
        /\ n < m => EntriesOf(Follow(TrueInode(i), scan.loc)) = EntriesOf(Content[i][n + 1])
    BY <1>1, <1>2, <1>3, <1>4, DirectoryShape
  <1>6. ASSUME scan.dir.block[scan.loc.ptr] # 0 PROVE n < m
    <2>1. CASE ~ n < m
      <3>1. scan.inBlock = 0 /\ scan.total = m * BlockSize
        BY <1>1, <2>1 DEF Stands
      <3>2. m * BlockSize < Disk[i].size
        BY <1>2, <3>1 DEF Scanning
      <3> QED
        BY <1>2, <1>5, <1>6, <3>2
    <2> QED
      BY <2>1
  <1> QED
    BY <1>1, <1>2, <1>4, <1>5, <1>6 DEF Entries

LEMMA SkipPointerInv ==
    ASSUME ScanTypeOK, ScanInv, SkipPointer
    PROVE  ScanInv'
  <1> DEFINE i == scan.dir.ino
             n == BlockIndex(scan.loc, Pointers)
             m == Len(Content[i])
             o == BlockIndex(scan'.loc, Pointers)
  <1>0. Scanning /\ scan.dir.kind = "dir" /\ scan.dir.block[scan.loc.ptr] = 0
    BY DEF SkipPointer
  <1>1. /\ i \in DOMAIN Disk /\ scan.dir = TrueInode(i) /\ Disk[i].kind = "dir"
        /\ n \in Nat /\ m \in Nat /\ scan.loc.ptr \in 0 .. 14
        /\ Stands(scan, i) /\ Seen(scan, Passed(scan, i)) /\ m <= n
    BY <1>0, ScanMeets
  <1>2. /\ scan'.dir = scan.dir /\ scan'.want = scan.want /\ scan'.inBlock = scan.inBlock
        /\ scan'.total = scan.total /\ scan'.found = scan.found /\ scan'.listed = scan.listed
        /\ scan'.loc = Loc(scan.loc.ptr + 1, 0, 0, 0)
    BY DEF SkipPointer, ScanTypeOK
  <1>3. n < o
    <2>1. scan.loc.ptr + 1 \in scan.loc.ptr + 1 .. 15
      <3>1. scan.loc.ptr \in 0 .. 14
        BY <1>1
      <3> QED
        BY <3>1, SMT
    <2>2. scan.loc \in Location(Pointers) /\ Pointers \in Nat \ {0}
      BY Sizes DEF ScanTypeOK
    <2>3. n < First(scan.loc.ptr + 1, Pointers)
      BY <2>1, <2>2, PointersInOrder
    <2> QED
      BY <1>2, <2>3 DEF First
  <1>4. o \in Nat
    <2>1. scan.loc.ptr + 1 \in 0 .. 15 /\ 0 \in 0 .. Pointers - 1
      <3>1. scan.loc.ptr + 1 \in 0 .. 15
        <4>1. scan.loc.ptr \in 0 .. 14
          BY <1>1
        <4> QED
          BY <4>1, SMT
      <3>2. 0 \in 0 .. Pointers - 1
        BY Sizes, SMT
      <3> QED
        BY <3>1, <3>2
    <2>2. scan'.loc \in Location(Pointers)
      BY <1>2, <2>1 DEF Loc, Location
    <2> QED
      BY <2>2, Sizes, BlockIndexType
  <1> HIDE DEF n, m, o
  <1>5. ~ n < m /\ ~ o < m
    BY <1>1, <1>3, <1>4, SMT
  <1>6. Stands(scan', i)
    BY <1>1, <1>2, <1>5 DEF Stands, n, m, o
  <1>7. Passed(scan', i) = Passed(scan, i)
    BY <1>2, <1>5 DEF Passed, n, m, o
  <1>8. Seen(scan', Passed(scan', i))
    BY <1>1, <1>2, <1>7 DEF Seen
  <1> QED
    BY <1>1, <1>2, <1>6, <1>8 DEF ScanInv, InPlace

LEMMA ReadEntryInv ==
    ASSUME ScanTypeOK, ScanInv, ReadEntry
    PROVE  ScanInv'
  <1> DEFINE i == scan.dir.ino
             n == BlockIndex(scan.loc, Pointers)
             m == Len(Content[i])
             entries == EntriesOf(Content[i][n + 1])
             k == scan.inBlock
             e == entries[k + 1]
  <1>0. Scanning /\ scan.dir.kind = "dir" /\ scan.dir.block[scan.loc.ptr] # 0
    BY DEF ReadEntry
  <1>1. /\ i \in DOMAIN Disk /\ scan.dir = TrueInode(i) /\ Disk[i].kind = "dir"
        /\ n \in Nat /\ m \in Nat
        /\ Stands(scan, i) /\ Seen(scan, Passed(scan, i)) /\ n < m /\ Entries = entries
    BY <1>0, ScanMeets
  <1>2. /\ scan'.dir = scan.dir /\ scan'.want = scan.want /\ scan'.loc = scan.loc
        /\ scan'.inBlock = k + 1 /\ scan'.total = scan.total + e.len
        /\ scan'.found = IF e.inode # 0 /\ e.name = scan.want THEN e ELSE scan.found
        /\ scan'.listed = IF e.inode # 0 /\ scan.want = NoName THEN Append(scan.listed, e)
                          ELSE scan.listed
        /\ k < Len(entries) /\ k \in Nat
    <2> HIDE DEF e
    <2>1. e = Entries[scan.inBlock + 1]
      BY <1>1 DEF e
    <2> HIDE DEF entries
    <2> QED
      BY <1>1, <2>1 DEF ReadEntry, ScanTypeOK
  <1>3. PICK end : Ends(entries, end) /\ scan.total = n * BlockSize + end[k]
    BY <1>1 DEF Stands
  <1>4. entries \in Seq(Entry) /\ Len(entries) \in Nat
    BY EntriesType, LenProperties
  <1> HIDE DEF n, m, entries
  <1>5. k + 1 \in 1 .. Len(entries) /\ k \in 0 .. Len(entries) /\ k + 1 \in 0 .. Len(entries)
        /\ (k + 1) - 1 = k
    BY <1>2, <1>4, SMT
  <1>6. e \in Entry
    BY <1>4, <1>5, ElementOfSeq
  <1> HIDE DEF e
  <1>7. scan'.total = n * BlockSize + end[k + 1]
    <2>1. end[k + 1] = end[k] + e.len /\ end[k] \in 0 .. BlockSize
      BY <1>3, <1>5 DEF Ends, e
    <2>2. n * BlockSize \in Nat /\ e.len \in Nat
      BY <1>1, <1>6, Sizes, NatTimes DEF Entry
    <2> DEFINE a == n * BlockSize
               b == end[k]
               l == e.len
    <2>3. a \in Nat /\ b \in Nat /\ l \in Nat
      BY <2>1, <2>2, SMT
    <2>4. scan'.total = (a + b) + l /\ end[k + 1] = b + l
      BY <1>2, <1>3, <2>1
    <2> HIDE DEF a, b, l
    <2>5. (a + b) + l = a + (b + l)
      BY <2>3, SMT
    <2> QED
      BY <2>4, <2>5 DEF a, b, l
  <1>8. Stands(scan', i)
    BY <1>1, <1>2, <1>3, <1>5, <1>7 DEF Stands, n, m, entries
  <1>9. Passed(scan, i) = Behind(i, n, k) /\ Passed(scan', i) = Behind(i, n, k + 1)
    BY <1>1, <1>2 DEF Passed, n, m
  <1>10. /\ Behind(i, n, k) \in Seq(Known) /\ Behind(i, n, k + 1) \in Seq(Known)
         /\ Behind(i, n, k + 1) = IF e.inode = 0 THEN Behind(i, n, k)
                                  ELSE Append(Behind(i, n, k), e)
    <2>1. n \in 0 .. m /\ n \in 0 .. m - 1
      BY <1>1, SMT
    <2>2. \A j \in 1 .. Len(entries) :
            /\ Behind(i, n, j) \in Seq(Known)
            /\ Behind(i, n, j) = IF entries[j].inode = 0 THEN Behind(i, n, j - 1)
                                 ELSE Append(Behind(i, n, j - 1), entries[j])
      BY <1>1, <2>1, BehindIs DEF m, entries
    <2>3. Behind(i, n, k) \in Seq(Known)
      <3>1. CASE k = 0
        BY <1>1, <2>1, <3>1, BehindIs DEF m
      <3>2. CASE k # 0
        <4>1. k \in 1 .. Len(entries)
          BY <1>5, <3>2, SMT
        <4> QED
          BY <2>2, <4>1
      <3> QED
        BY <3>1, <3>2
    <2> QED
      BY <1>5, <2>2, <2>3 DEF e
  <1>11. scan.found = NoEntry
    BY <1>0 DEF Scanning
  <1>12. Seen(scan', Passed(scan', i))
    <2> DEFINE p == Behind(i, n, k)
               q == Behind(i, n, k + 1)
    <2>1. p \in Seq(Known) /\ q \in Seq(Known) /\ q = (IF e.inode = 0 THEN p ELSE Append(p, e))
          /\ Seen(scan, p)
      BY <1>1, <1>9, <1>10
    <2> HIDE DEF p, q
    <2>2. Seen(scan', q)
      BY <1>2, <1>6, <1>11, <2>1, SeenMore
    <2> QED
      BY <1>9, <2>2 DEF q
  <1> QED
    BY <1>1, <1>2, <1>8, <1>12 DEF ScanInv, InPlace

LEMMA LeaveBlockInv ==
    ASSUME ScanTypeOK, ScanInv, LeaveBlock
    PROVE  ScanInv'
  <1> DEFINE i == scan.dir.ino
             n == BlockIndex(scan.loc, Pointers)
             m == Len(Content[i])
             entries == EntriesOf(Content[i][n + 1])
             next == EntriesOf(Content[i][n + 2])
             k == scan.inBlock
  <1>0. Scanning /\ scan.dir.kind = "dir" /\ scan.dir.block[scan.loc.ptr] # 0
    BY DEF LeaveBlock
  <1>1. /\ i \in DOMAIN Disk /\ scan.dir = TrueInode(i) /\ Disk[i].kind = "dir"
        /\ n \in Nat /\ m \in Nat /\ n + 1 \in Nat
        /\ Stands(scan, i) /\ Seen(scan, Passed(scan, i)) /\ n < m /\ Entries = entries
    <2>1. /\ i \in DOMAIN Disk /\ scan.dir = TrueInode(i) /\ Disk[i].kind = "dir"
          /\ n \in Nat /\ m \in Nat
          /\ Stands(scan, i) /\ Seen(scan, Passed(scan, i)) /\ n < m /\ Entries = entries
      BY <1>0, ScanMeets
    <2> HIDE DEF n
    <2>2. n + 1 \in Nat
      BY <2>1, SMT
    <2> QED
      BY <2>1, <2>2
  <1>2. /\ scan'.dir = scan.dir /\ scan'.want = scan.want /\ scan'.inBlock = 0
        /\ scan'.total = scan.total /\ scan'.found = scan.found /\ scan'.listed = scan.listed
        /\ scan'.loc = Advanced(scan.loc, Pointers)
        /\ k >= Len(entries)
    <2> HIDE DEF entries
    <2> QED
      BY <1>1 DEF LeaveBlock, ScanTypeOK
  <1>3. BlockIndex(scan'.loc, Pointers) = n + 1
    BY <1>0, <1>2, Sizes, AdvancedIsNext DEF Scanning, ScanTypeOK
  <1>4. PICK end : Ends(entries, end) /\ scan.total = n * BlockSize + end[k]
    BY <1>1 DEF Stands
  <1>5. k \in 0 .. Len(entries) /\ Len(entries) \in Nat
    <2>1. k \in 0 .. Len(entries)
      BY <1>1 DEF Stands
    <2> QED
      BY <2>1, EntriesType, LenProperties
  <1>6. k = Len(entries)
    <2> HIDE DEF entries
    <2> QED
      BY <1>2, <1>5, SMT
  <1>7. Behind(i, n, k) = Behind(i, n + 1, 0)
    <2>1. n \in 0 .. m - 1
      BY <1>1, SMT
    <2> QED
      BY <1>1, <1>6, <2>1, BehindIs
  <1>8. scan'.total = (n + 1) * BlockSize
    <2>1. scan'.total = n * BlockSize + BlockSize
      BY <1>2, <1>4, <1>6 DEF Ends
    <2> HIDE DEF n
    <2>2. (n + 1) * BlockSize = n * BlockSize + BlockSize
      BY <1>1, Sizes, SMT
    <2> QED
      BY <2>1, <2>2
  <1>9. Stands(scan', i)
    <2>1. CASE n + 1 < m
      <3>1. n + 1 \in 0 .. m - 1 /\ (n + 1) + 1 = n + 2
        <4> HIDE DEF n, m
        <4> QED
          BY <1>1, <2>1, SMT
      <3>2. FillBlock(EntriesOf(Content[i][(n + 1) + 1]))
        BY <1>1, <3>1, DirectoryShape
      <3>3. PICK start : Ends(next, start)
        BY <3>1, <3>2 DEF FillBlock, Ends
      <3>4. 0 \in 0 .. Len(next)
        BY EntriesType, LenProperties, SMT
      <3>5. (n + 1) * BlockSize = (n + 1) * BlockSize + start[0]
        <4> DEFINE a == (n + 1) * BlockSize
        <4>1. a \in Nat /\ start[0] = 0
          BY <1>1, <3>3, Sizes, NatTimes DEF Ends
        <4> HIDE DEF a
        <4>2. a = a + start[0]
          BY <4>1, SMT
        <4> QED
          BY <4>2 DEF a
      <3>6. EntriesOf(Content[i][BlockIndex(scan'.loc, Pointers) + 1]) = next
        BY <1>3, <3>1
      <3> HIDE DEF n, m, next
      <3>7. \E s : Ends(next, s) /\ scan'.total = (n + 1) * BlockSize + s[0]
        BY <1>8, <3>3, <3>5
      <3> QED
        BY <1>2, <1>3, <2>1, <3>4, <3>6, <3>7 DEF Stands, m
    <2>2. CASE ~ n + 1 < m
      <3>1. n + 1 = m
        <4> HIDE DEF n, m
        <4> QED
          BY <1>1, <2>2, SMT
      <3> QED
        BY <1>2, <1>3, <1>8, <2>2, <3>1 DEF Stands
    <2> QED
      BY <2>1, <2>2
  <1>10. Passed(scan, i) = Behind(i, n, k)
    BY <1>1 DEF Passed
  <1>11. Passed(scan', i) = Behind(i, n + 1, 0)
    <2>1. (IF n + 1 < m THEN n + 1 ELSE m) = n + 1
      <3> HIDE DEF n, m
      <3> QED
        BY <1>1, SMT
    <2> QED
      BY <1>2, <1>3, <2>1 DEF Passed
  <1>12. Seen(scan', Passed(scan', i))
    <2>1. Passed(scan', i) = Passed(scan, i)
      BY <1>7, <1>10, <1>11
    <2> QED
      BY <1>1, <1>2, <2>1 DEF Seen
  <1> QED
    BY <1>1, <1>2, <1>9, <1>12 DEF ScanInv, InPlace

LEMMA ScanStepInv ==
    ASSUME ScanTypeOK, ScanInv, ScanStep
    PROVE  ScanInv'
  BY SkipPointerInv, ReadEntryInv, LeaveBlockInv DEF ScanStep

LEMMA PassedIs ==
    ASSUME ScanTypeOK, ScanInv, scan.dir.kind = "dir", NEW i, i = scan.dir.ino
    PROVE  /\ i \in DOMAIN Disk /\ scan.dir = TrueInode(i) /\ Disk[i].kind = "dir"
           /\ Stands(scan, i) /\ Seen(scan, Passed(scan, i))
           /\ Passed(scan, i) \in Seq(Known) /\ Starts(Passed(scan, i), Listing[i])
           /\ BlockIndex(scan.loc, Pointers) \in Nat
  <1> DEFINE n == BlockIndex(scan.loc, Pointers)
             m == Len(Content[i])
             k == scan.inBlock
  <1>1. /\ i \in DOMAIN Disk /\ scan.dir = TrueInode(i) /\ Stands(scan, i)
        /\ Seen(scan, Passed(scan, i))
    BY DEF ScanInv, InPlace
  <1>2. Disk[i].kind = "dir"
    BY <1>1, TrueInodeIs
  <1>3. n \in Nat /\ m \in Nat
    <2>1. n \in Nat
      BY Sizes, BlockIndexType DEF ScanTypeOK
    <2> QED
      BY <1>1, <1>2, <2>1, DirectoryShape
  <1>4. Passed(scan, i) \in Seq(Known) /\ Starts(Passed(scan, i), Listing[i])
    <2>1. CASE n < m
      <3>1. Passed(scan, i) = Behind(i, n, k)
        BY <2>1 DEF Passed
      <3>2. k \in 0 .. Len(EntriesOf(Content[i][n + 1]))
        BY <1>1, <2>1 DEF Stands
      <3> HIDE DEF n, m
      <3>3. n \in 0 .. m /\ n \in 0 .. m - 1
        BY <1>3, <2>1, SMT
      <3>4. CASE k = 0
        BY <1>1, <1>2, <3>1, <3>3, <3>4, BehindIs DEF m
      <3>5. CASE k # 0
        <4>1. k \in 1 .. Len(EntriesOf(Content[i][n + 1]))
          BY <3>2, <3>5, SMT
        <4> QED
          BY <1>1, <1>2, <3>1, <3>3, <4>1, BehindIs DEF m
      <3> QED
        BY <3>4, <3>5
    <2>2. CASE ~ n < m
      <3>1. Passed(scan, i) = Behind(i, m, 0)
        BY <1>1, <2>2 DEF Passed, Stands
      <3>2. m \in 0 .. m
        BY <1>3, SMT
      <3> QED
        BY <1>1, <1>2, <3>1, <3>2, BehindIs
    <2> QED
      BY <2>1, <2>2
  <1> QED
    BY <1>1, <1>2, <1>3, <1>4

\* The inode under a name is that of the first entry with the name.
LEMMA ChildIs ==
    ASSUME NEW i \in DOMAIN Disk, Disk[i].kind = "dir", NEW name \in Names
    PROVE  /\ (\A k \in DOMAIN Listing[i] : Listing[i][k].name # name) => Child(i, name) = 0
           /\ \A k \in DOMAIN Listing[i] :
                (/\ Listing[i][k].name = name /\ k \in Nat
                 /\ \A j \in DOMAIN Listing[i] : Listing[i][j].name = name => k <= j)
                => Child(i, name) = Listing[i][k].inode
  <1> DEFINE at == {k \in DOMAIN Listing[i] : Listing[i][k].name = name}
  <1>1. Child(i, name) = IF at = {} THEN 0 ELSE Listing[i][Min(at)].inode
    BY DEF Child, Children, InodeUnder
  <1>2. (\A k \in DOMAIN Listing[i] : Listing[i][k].name # name) => at = {}
    OBVIOUS
  <1>3. DOMAIN Listing[i] \subseteq Nat
    <2>1. Listing[i] \in Seq(Known)
      <3>1. Len(Content[i]) \in 0 .. Len(Content[i])
        BY DirectoryShape, SMT
      <3> QED
        BY <3>1, BehindIs
    <2> QED
      BY <2>1, SMT
  <1>4. ASSUME NEW k \in at, \A j \in at : k <= j PROVE Min(at) = k
    <2>1. at \subseteq Nat
      BY <1>3
    <2>2. PICK x \in at : x = Min(at) /\ \A j \in at : x <= j
      BY <1>4 DEF Min
    <2> HIDE DEF at
    <2>3. x \in Nat /\ k \in Nat /\ x <= k /\ k <= x
      BY <1>4, <2>1, <2>2
    <2>4. x = k
      BY <2>3, SMT
    <2> QED
      BY <2>2, <2>4
  <1> QED
    BY <1>1, <1>2, <1>4

LEMMA FoundIs ==
    ASSUME ScanTypeOK, ScanInv, scan.dir.kind = "dir", NEW i, i = scan.dir.ino,
           scan.found # NoEntry
    PROVE  scan.found \in Known /\ scan.found.inode = Child(i, scan.want) /\ scan.want \in Names
  <1> DEFINE p == Passed(scan, i)
             l == Listing[i]
             n == Len(p)
  <1>1. /\ i \in DOMAIN Disk /\ Disk[i].kind = "dir" /\ Seen(scan, p)
        /\ p \in Seq(Known) /\ Starts(p, l)
    BY PassedIs
  <1>2. l \in Seq(Known)
    <2>1. Len(Content[i]) \in 0 .. Len(Content[i])
      BY <1>1, DirectoryShape, SMT
    <2> QED
      BY <1>1, <2>1, BehindIs
  <1> HIDE DEF p, l
  <1>3. /\ n # 0 /\ scan.found = p[n] /\ scan.found.name = scan.want
        /\ \A k \in 1 .. n - 1 : p[k].name # scan.want
    BY <1>1 DEF Seen
  <1>4. n \in Nat /\ Len(l) \in Nat /\ DOMAIN l = 1 .. Len(l)
    BY <1>1, <1>2, LenProperties
  <1>5. n \in 1 .. n /\ n \in 1 .. Len(l) /\ \A k \in 1 .. n - 1 : k \in 1 .. n
    BY <1>1, <1>3, <1>4, SMT DEF Starts
  <1>6. scan.found \in Known /\ l[n] = scan.found
    BY <1>1, <1>3, <1>5, ElementOfSeq DEF Starts
  <1>7. scan.want \in Names
    BY <1>3, <1>6 DEF Known, Entry
  <1>8. \A j \in DOMAIN l : l[j].name = scan.want => n <= j
    <2> SUFFICES ASSUME NEW j \in 1 .. Len(l), l[j].name = scan.want PROVE n <= j
      BY <1>4
    <2>1. CASE j \in 1 .. n - 1
      BY <1>1, <1>3, <1>5, <2>1 DEF Starts
    <2>2. CASE j \notin 1 .. n - 1
      BY <1>4, <2>2, SMT
    <2> QED
      BY <2>1, <2>2
  <1>9. Child(i, scan.want) = l[n].inode
    <2>1. n \in DOMAIN l /\ l[n].name = scan.want /\ n \in Nat
      BY <1>3, <1>4, <1>5, <1>6
    <2>2. \A k \in DOMAIN l :
            (/\ l[k].name = scan.want /\ k \in Nat
             /\ \A j \in DOMAIN l : l[j].name = scan.want => k <= j)
            => Child(i, scan.want) = l[k].inode
      BY <1>1, <1>7, ChildIs DEF l
    <2> HIDE DEF n
    <2> QED
      BY <1>8, <2>1, <2>2
  <1> QED
    BY <1>6, <1>7, <1>9

\* A scan that is over without an entry has seen the whole directory.
LEMMA NoneFound ==
    ASSUME ScanTypeOK, ScanInv, scan.dir.kind = "dir", NEW i, i = scan.dir.ino,
           ~Scanning, scan.found = NoEntry
    PROVE  /\ scan.want = NoName => scan.listed = Listing[i]
           /\ scan.want \in Names => Child(i, scan.want) = 0
  <1> DEFINE p == Passed(scan, i)
             n == BlockIndex(scan.loc, Pointers)
             m == Len(Content[i])
  <1>1. /\ i \in DOMAIN Disk /\ Disk[i].kind = "dir" /\ scan.dir = TrueInode(i)
        /\ Stands(scan, i) /\ Seen(scan, p) /\ p \in Seq(Known) /\ n \in Nat
    BY PassedIs
  <1>2. /\ m \in Nat /\ m * BlockSize \in Nat /\ Disk[i].size \in Nat
        /\ m * BlockSize <= Disk[i].size /\ m <= Capacity(Pointers)
        /\ Listing[i] = Behind(i, m, 0)
        /\ scan.dir.size = Disk[i].size
    BY <1>1, DirectoryShape, BehindIs, TrueInodeIs
  <1>3. ~ n < m
    <2> SUFFICES ASSUME n < m PROVE FALSE
      OBVIOUS
    <2>1. scan.loc.ptr \in 0 .. 15
      BY Sizes, LocationFields DEF ScanTypeOK
    <2>2. CASE ~ scan.loc.ptr < 15
      <3>1. scan.loc.ptr = 15
        BY <2>1, <2>2, SMT
      <3>2. n = Capacity(Pointers)
        BY <3>1 DEF BlockIndex
      <3> HIDE DEF n, m
      <3> QED
        BY <1>1, <1>2, <3>2, SMT
    <2>3. CASE scan.inBlock = 0 /\ ~ scan.total < scan.dir.size
      <3>1. PICK end : /\ Ends(EntriesOf(Content[i][n + 1]), end)
                       /\ scan.total = n * BlockSize + end[scan.inBlock]
        BY <1>1 DEF Stands
      <3>2. scan.total = n * BlockSize + 0
        BY <2>3, <3>1 DEF Ends
      <3> DEFINE d == m - n - 1
                 e == d * BlockSize
                 f == n * BlockSize
      <3> HIDE DEF n, m
      <3>3. d \in Nat /\ m = n + 1 + d
        BY <1>1, <1>2, SMT
      <3>4. m * BlockSize = f + BlockSize + e
        <4> HIDE DEF d
        <4> QED
          BY <1>1, <3>3, Sizes, SMT
      <3>5. e \in Nat /\ f \in Nat
        BY <1>1, <3>3, Sizes, NatTimes
      <3>6. scan.total = f
        <4>1. scan.total = f + 0
          BY <3>2
        <4> HIDE DEF f
        <4> QED
          BY <3>5, <4>1, SMT
      <3> HIDE DEF d, e, f
      <3> QED
        BY <1>2, <2>3, <3>4, <3>5, <3>6, Sizes, SMT
    <2> QED
      BY <2>2, <2>3 DEF Scanning
  <1>4. p = Listing[i]
    BY <1>1, <1>2, <1>3 DEF Passed, Stands
  <1>5. DOMAIN Listing[i] = 1 .. Len(p)
    BY <1>1, <1>4, LenProperties
  <1> HIDE DEF p
  <1>6. scan.want = NoName => scan.listed = Listing[i]
    BY <1>1, <1>4 DEF Seen
  <1>7. \A k \in 1 .. Len(p) : p[k].name # scan.want
    BY <1>1 DEF Seen
  <1>8. scan.want \in Names => Child(i, scan.want) = 0
    BY <1>1, <1>4, <1>5, <1>7, ChildIs
  <1> QED
    BY <1>6, <1>8

\* The invariant of the scan gives the property that the runs check.
LEMMA Thorough ==
    ASSUME ScanTypeOK, ScanInv
    PROVE  ScanIsThorough
  <1> SUFFICES ASSUME scan.dir.kind = "dir" PROVE ScanIsThorough
    BY DEF ScanIsThorough
  <1> DEFINE i == scan.dir.ino
             n == BlockIndex(scan.loc, Pointers)
             m == Len(Content[i])
             l == IF n < m THEN n ELSE m
             p == Behind(i, l, scan.inBlock)
  <1>1. /\ i \in DOMAIN Disk /\ Disk[i].kind = "dir" /\ Stands(scan, i)
        /\ Seen(scan, p) /\ p \in Seq(Known) /\ n \in Nat
    <2>1. p = Passed(scan, i)
      BY DEF Passed
    <2> HIDE DEF p
    <2> QED
      BY <2>1, PassedIs
  <1>2. m \in Nat
    BY <1>1, DirectoryShape
  <1>3. Min({n, m}) = l
    <2> HIDE DEF n, m
    <2>1. l \in {n, m} /\ \A y \in {n, m} : l <= y
      BY <1>1, <1>2, SMT
    <2>2. \A x \in {n, m} : (\A y \in {n, m} : x <= y) => x = l
      BY <1>1, <1>2, SMT
    <2> HIDE DEF l
    <2> QED
      BY <2>1, <2>2 DEF Min
  <1>4. scan.inBlock = 0 => scan.total = l * BlockSize
    <2> SUFFICES ASSUME scan.inBlock = 0 PROVE scan.total = l * BlockSize
      OBVIOUS
    <2>1. CASE n < m
      <3>1. PICK end : /\ Ends(EntriesOf(Content[i][n + 1]), end)
                       /\ scan.total = n * BlockSize + end[scan.inBlock]
        BY <1>1, <2>1 DEF Stands
      <3>2. scan.total = n * BlockSize + 0
        BY <3>1 DEF Ends
      <3> DEFINE f == n * BlockSize
      <3>3. f \in Nat
        BY <1>1, Sizes, NatTimes
      <3>4. scan.total = f + 0
        BY <3>2
      <3> HIDE DEF f
      <3>5. scan.total = f
        BY <3>3, <3>4, SMT
      <3> QED
        BY <2>1, <3>5 DEF f
    <2>2. CASE ~ n < m
      BY <1>1, <2>2 DEF Stands
    <2> QED
      BY <2>1, <2>2
  <1> HIDE DEF p
  <1>5. scan.found # NoEntry => scan.found.inode = Child(i, scan.want)
    BY FoundIs
  <1>6. IF scan.want = NoName THEN scan.listed = p
        ELSE \A k \in DOMAIN p : p[k].name = scan.want => scan.found = p[k]
    <2>1. CASE scan.want = NoName
      BY <1>1, <2>1 DEF Seen
    <2>2. CASE scan.want # NoName
      <3> SUFFICES ASSUME NEW k \in 1 .. Len(p), p[k].name = scan.want PROVE scan.found = p[k]
        BY <1>1, <2>2, LenProperties
      <3>1. Len(p) \in Nat
        BY <1>1, LenProperties
      <3>2. scan.found # NoEntry
        BY <1>1 DEF Seen
      <3>3. scan.found = p[Len(p)] /\ \A j \in 1 .. Len(p) - 1 : p[j].name # scan.want
        BY <1>1, <3>2 DEF Seen
      <3>4. k = Len(p)
        <4>1. k \notin 1 .. Len(p) - 1
          BY <3>3
        <4> QED
          BY <3>1, <4>1, SMT
      <3> QED
        BY <3>3, <3>4
    <2> QED
      BY <2>1, <2>2
  <1> HIDE DEF l
  <1> QED
    BY <1>1, <1>3, <1>4, <1>5, <1>6 DEF ScanIsThorough, p

-----------------------------------------------------------------------------
\* Paths: what a name, and then a sequence of names, leads to.
Place == DOMAIN Disk \union {0}

LEMMA PlaceType == Place \subseteq Nat /\ Root \in DOMAIN Disk /\ 0 \notin DOMAIN Disk
  BY LayoutAssumption, InodeInPlace DEF Place

LEMMA ChildType ==
    ASSUME NEW i, NEW name \in Names
    PROVE  /\ Child(i, name) \in Place
           /\ (i \notin DOMAIN Disk \/ Disk[i].kind # "dir") => Child(i, name) = 0
  <1>1. CASE i \notin DOMAIN Disk
    BY <1>1 DEF Child, Place
  <1>2. CASE i \in DOMAIN Disk /\ Disk[i].kind # "dir"
    BY <1>2 DEF Child, Children, Place
  <1>3. CASE i \in DOMAIN Disk /\ Disk[i].kind = "dir"
    <2> DEFINE l == Listing[i]
               at == {k \in DOMAIN l : l[k].name = name}
    <2>1. l \in Seq(Known)
      <3>1. Len(Content[i]) \in 0 .. Len(Content[i])
        BY <1>3, DirectoryShape, SMT
      <3> QED
        BY <1>3, <3>1, BehindIs
    <2>2. CASE at = {}
      BY <1>3, <2>2, ChildIs DEF Place
    <2>3. CASE at # {}
      <3>1. at \in SUBSET Nat /\ DOMAIN l = 1 .. Len(l)
        <4> HIDE DEF l
        <4> QED
          BY <2>1, LenProperties, SMT
      <3>2. PICK k \in at : \A j \in at : k <= j
        <4> HIDE DEF at
        <4> QED
          BY <2>3, <3>1, LeastNumber
      <3>3. Child(i, name) = l[k].inode
        BY <1>3, <3>1, <3>2, ChildIs
      <3>4. l[k] \in Known
        BY <2>1, <3>1, <3>2, ElementOfSeq
      <3> QED
        BY <1>3, <3>3, <3>4 DEF Known, Place
    <2> QED
      BY <2>2, <2>3
  <1> QED
    BY <1>1, <1>2, <1>3

LEMMA ReachedIs ==
    ASSUME NEW names \in Seq(Names)
    PROVE  /\ Reached(names) \in [0 .. Len(names) -> Place]
           /\ Reached(names)[0] = Root
           /\ \A k \in 1 .. Len(names) :
                Reached(names)[k] = Child(Reached(names)[k - 1], names[k])
  <1> DEFINE n == Len(names)
             S == Place
             b == Root
             Then(k, s) == Child(s, names[k])
             step == [k \in 1 .. n |-> [s \in S |-> Then(k, s)]]
             Is(f) == f = [k \in 0 .. n |-> IF k = 0 THEN Root ELSE Child(f[k - 1], names[k])]
             g == Reached(names)
  <1>1. n \in Nat /\ b \in S
    BY LenProperties, PlaceType DEF Place
  <1>2. \A k \in 1 .. n : \A s \in S : Then(k, s) \in S
    BY ElementOfSeq, ChildType
  <1>3. step \in [1 .. n -> [S -> S]]
    BY <1>2
  <1>4. /\ \A k \in 1 .. n : k - 1 \in 0 .. n /\ k \in 0 .. n /\ k # 0
        /\ \A k \in 0 .. n : k # 0 => k \in 1 .. n
        /\ 0 \in 0 .. n
    BY <1>1, SMT
  <1>5. \A k \in 1 .. n : \A s \in S : step[k][s] = Then(k, s)
    OBVIOUS
  <1>6. \E f : Is(f)
    <2> HIDE DEF n, S, b, step
    <2>1. PICK f \in [0 .. n -> S] : Runs(f, n, b, step)
      BY <1>1, <1>3, StepsHaveFunction
    <2>2. f[0] = b /\ \A k \in 1 .. n : f[k] = Then(k, f[k - 1])
      BY <1>4, <1>5, <2>1 DEF Runs
    <2>3. Is(f)
      BY <1>4, <2>1, <2>2 DEF b
    <2> QED
      BY <2>3
  <1>7. Is(g)
    <2>1. g = CHOOSE f : Is(f)
      BY DEF Reached
    <2> HIDE DEF Is, g
    <2> QED
      BY <1>6, <2>1
  <1> HIDE DEF n, S, g, step
  <1>8. TakesSteps(g, n, S, b, step)
    BY <1>4, <1>5, <1>7 DEF TakesSteps
  <1>9. g \in [0 .. n -> S] /\ Runs(g, n, b, step)
    <2> HIDE DEF b
    <2> QED
      BY <1>1, <1>3, <1>8, StepsDetermine
  <1>10. \A k \in 1 .. n : g[k] = Then(k, g[k - 1])
    BY <1>4, <1>5, <1>9 DEF Runs
  <1> QED
    BY <1>9, <1>10 DEF n, S, g, Runs

\* From nowhere no name leads on.
LEMMA ReachedNothing ==
    ASSUME NEW names \in Seq(Names), NEW j \in 0 .. Len(names), Reached(names)[j] = 0
    PROVE  Resolve(names) = 0
  <1> DEFINE n == Len(names)
             at == Reached(names)
             Bad == {k \in j .. n : at[k] # 0}
  <1>1. /\ n \in Nat
        /\ \A k \in 1 .. n : at[k] = Child(at[k - 1], names[k])
        /\ \A k \in 1 .. n : names[k] \in Names
    BY LenProperties, ReachedIs, ElementOfSeq
  <1>2. CASE Bad = {}
    <2>1. n \in j .. n
      BY <1>1, SMT
    <2> QED
      BY <1>2, <2>1 DEF Resolve
  <1>3. CASE Bad # {}
    <2>1. PICK k \in Bad : \A l \in Bad : k <= l
      <3>1. Bad \in SUBSET Nat
        BY SMT
      <3> HIDE DEF Bad
      <3> QED
        BY <1>3, <3>1, LeastNumber
    <2>2. k \in 1 .. n /\ k - 1 \in j .. n /\ ~ k <= k - 1
      <3>1. k # j /\ k \in j .. n
        OBVIOUS
      <3> HIDE DEF Bad, at
      <3> QED
        BY <1>1, <3>1, SMT
    <2>3. at[k - 1] = 0
      BY <2>1, <2>2
    <2>4. at[k] = 0
      BY <1>1, <2>2, <2>3, ChildType, PlaceType
    <2> QED
      BY <2>4
  <1> QED
    BY <1>2, <1>3

LEMMA ResolveType ==
    ASSUME NEW names \in Seq(Names)
    PROVE  Resolve(names) \in Place
  <1>1. Len(names) \in 0 .. Len(names)
    BY LenProperties, SMT
  <1> QED
    BY <1>1, ReachedIs DEF Resolve
=============================================================================
