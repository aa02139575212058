------------------------- MODULE FileBrowser_proofs -------------------------
(***************************************************************************)
(* The shell calls readNBytes as FileRead allows, so what is proved of it  *)
(* there holds of every command, for every image and all commands.         *)
(***************************************************************************)
EXTENDS FileBrowser, Ext2_proofs

Inv == TypeOK /\ CallInv

LEMMA ReadInodeType ==
    ASSUME NEW i \in Nat
    PROVE  ReadInode(i) \in Inode
  <1> DEFINE a == BlockSize * Read(DescAt, GroupTable + ((i - 1) \div InodesPerGroup) * DescSize, 0)
                    + InodeSize * ((i - 1) % InodesPerGroup)
             disk == Read(InodeAt, a, ZeroInode)
  <1>1. ZeroInode \in DiskInode
    <2>1. << >> \in Seq(Names)
      BY SMT
    <2> QED
      BY <2>1, Sizes DEF ZeroInode, DiskInode, Kind, Path
  <1>2. disk \in DiskInode
    <2> HIDE DEF a
    <2> QED
      BY <1>1, ImageAssumption DEF Read
  <1>3. ReadInode(i) = InMemory(i, disk)
    BY DEF ReadInode
  <1> HIDE DEF disk
  <1> QED
    BY <1>2, <1>3 DEF InMemory, Inode, DiskInode

LEMMA NoInodeType == NoInode \in Inode
  BY ZeroInodeType DEF NoInode

\* Values of the variables when no function is running.
LEMMA IdleTypes ==
    /\ NoWalk \in [path: Path \union {NoPath}, rest: Seq(Names), at: Inode, link: BOOLEAN]
    /\ NoWalk.link = FALSE
    /\ NoFile \in [inode: Inode, offset: Nat]
    /\ NoScan \in [dir: Inode, want: Names \union {NoName}, loc: Location(Pointers),
                   inBlock: Nat, total: Nat, found: Entry \union {NoEntry}, listed: Seq(Entry)]
    /\ NoRead \in [inode: Inode, from: Nat, len: Nat, loc: Location(Pointers),
                   start: 0 .. BlockSize - 1, inBlock: 0 .. BlockSize, got: Seq(Nat \X Nat)]
  <1>1. << >> \in Seq(Names) /\ << >> \in Seq(Entry) /\ << >> \in Seq(Nat \X Nat)
    BY SMT
  <1>2. 0 \in 0 .. BlockSize - 1 /\ 0 \in 0 .. BlockSize
    BY Sizes, SMT
  <1> QED
    BY <1>1, <1>2, NoInodeType, ZeroInodeType, FirstLocType
    DEF NoWalk, NoFile, NoScan, NoRead

\* A command that ends, or that crashes, leaves nothing behind.
LEMMA EndInv ==
    ASSUME Inv,
           pc' \in {"idle", "crashed"}, status' \in {"none", "ok", "failed"},
           Release, UNCHANGED <<cmd, root>>
    PROVE  Inv' /\ [ReadNext]_rd
  <1>1. TypeOK'
    BY IdleTypes DEF Inv, TypeOK, Release, ScanTypeOK, ReadTypeOK
  <1>2. CallInv'
    BY IdleTypes DEF CallInv, Release
  <1> QED
    BY <1>1, <1>2 DEF Inv, Release, ReadNext

LEMMA FinishInv ==
    ASSUME Inv, NEW answer \in {"ok", "failed"}, \E printed : Finish(answer, printed)
    PROVE  Inv' /\ [ReadNext]_rd
  BY EndInv DEF Finish

LEMMA CrashInv ==
    ASSUME Inv, Crash
    PROVE  Inv' /\ [ReadNext]_rd
  <1>1. cmd' = cmd /\ root' = root /\ status' = status /\ pc' = "crashed" /\ Release
    BY DEF Crash, shell
  <1>2. status \in {"none", "ok", "failed"}
    BY DEF Inv, TypeOK
  <1> QED
    BY <1>1, <1>2, EndInv

LEMMA ScanStepType ==
    ASSUME ScanTypeOK, ScanStep
    PROVE  ScanTypeOK'
  <1> USE DEF ScanTypeOK
  <1>0. Scanning /\ scan.loc.ptr < 15 /\ scan.loc.ptr \in 0 .. 14
    <2>1. Scanning
      BY DEF ScanStep, SkipPointer, ReadEntry, LeaveBlock
    <2> QED
      <3>1. scan.loc.ptr \in 0 .. 15
        BY Sizes, LocationFields
      <3>2. scan.loc.ptr < 15
        BY <2>1 DEF Scanning
      <3> QED
        BY <2>1, <3>1, <3>2, SMT
  <1>1. CASE SkipPointer
    <2>1. Loc(scan.loc.ptr + 1, 0, 0, 0) \in Location(Pointers)
      <3>1. scan.loc.ptr + 1 \in 0 .. 15
        <4>1. \A p \in 0 .. 14 : p + 1 \in 0 .. 15
          BY SMT
        <4> QED
          BY <1>0, <4>1
      <3>2. 0 \in 0 .. Pointers - 1
        BY Sizes, SMT
      <3> QED
        BY <3>1, <3>2, SMTT(30) DEF Loc, Location
    <2> QED
      BY <1>1, <2>1 DEF SkipPointer
  <1>2. CASE ReadEntry
    <2>1. Entries \in Seq(Entry)
      <3>1. << >> \in Seq(Entry)
        BY SMT
      <3> QED
        BY <3>1, ImageAssumption DEF Entries, EntriesOf, Read
    <2> DEFINE e == Entries[scan.inBlock + 1]
    <2>2. e \in Entry
      <3>1. scan.inBlock \in Nat /\ scan.inBlock < Len(Entries)
        BY <1>2 DEF ReadEntry
      <3> QED
        BY <2>1, <3>1, SMT
    <2>3. scan.inBlock + 1 \in Nat /\ scan.total + e.len \in Nat
      BY <2>2, SMT DEF Entry
    <2>4. Append(scan.listed, e) \in Seq(Entry)
      BY <2>2, AppendProperties
    <2>5. scan' = [scan EXCEPT
                !.inBlock = scan.inBlock + 1,
                !.total = scan.total + e.len,
                !.found = IF e.inode # 0 /\ e.name = scan.want THEN e ELSE scan.found,
                !.listed = IF e.inode # 0 /\ scan.want = NoName
                           THEN Append(scan.listed, e) ELSE scan.listed]
      BY <1>2 DEF ReadEntry
    <2> HIDE DEF e
    <2> QED
      BY <2>2, <2>3, <2>4, <2>5
  <1>3. CASE LeaveBlock
    <2>1. Advanced(scan.loc, Pointers) \in Location(Pointers)
      BY <1>0, Sizes, AdvancedIsNext
    <2> QED
      BY <1>3, <2>1 DEF LeaveBlock
  <1> QED
    BY <1>1, <1>2, <1>3 DEF ScanStep

LEMMA StartScanType ==
    ASSUME NEW dir \in Inode, NEW want \in Names \union {NoName}, StartScan(dir, want)
    PROVE  ScanTypeOK'
  BY IdleTypes DEF StartScan, ScanTypeOK

LEMMA NotNoPath ==
    ASSUME TypeOK, cmd.path # NoPath
    PROVE  cmd \in Command /\ cmd.path \in Path /\ cmd.offset \in Nat
  BY CommandAssumption DEF TypeOK, NoCommand

LEMMA BeginWalkType ==
    ASSUME TypeOK, NEW path \in Path, NEW link \in BOOLEAN, BeginWalk(path, link),
           UNCHANGED <<shell, file, scan, rd>>
    PROVE  TypeOK' /\ walk'.link = link
  <1>1. path.names \in Seq(Names)
    BY DEF Path
  <1> QED
    BY <1>1 DEF BeginWalk, TypeOK, shell, ScanTypeOK, ReadTypeOK

\* The steps of main and of ls, and then those of pathwalk, leave rd alone.
LEMMA MainInv ==
    ASSUME Inv, Mount \/ ReadLine \/ Exit \/ WalkThePath \/ ListDirectory \/ ListStep
    PROVE  Inv' /\ [ReadNext]_rd
  <1> USE DEF Inv
  <1>1. CASE Mount
    <2>1. ReadInode(2) \in Inode
      BY ReadInodeType
    <2> QED
      BY <1>1, <2>1 DEF Mount, TypeOK, CallInv, ScanTypeOK, ReadTypeOK
  <1>2. CASE ReadLine
    BY <1>2 DEF ReadLine, TypeOK, CallInv, ScanTypeOK, ReadTypeOK
  <1>3. CASE Exit
    BY <1>3 DEF Exit, shell, TypeOK, CallInv, ScanTypeOK, ReadTypeOK
  <1>4. CASE WalkThePath
    <2>1. cmd.path \in Path /\ BeginWalk(cmd.path, FALSE) /\ UNCHANGED <<shell, file, scan, rd>>
      BY <1>4, NotNoPath DEF WalkThePath
    <2>2. TypeOK' /\ walk'.link = FALSE /\ pc' = "walk" /\ rd' = rd /\ cmd' = cmd
      BY <2>1, BeginWalkType DEF BeginWalk, shell
    <2> QED
      BY <1>4, <2>2 DEF CallInv, WalkThePath
  <1>5. CASE ListDirectory
    <2>1. ScanTypeOK'
      BY <1>5, StartScanType DEF ListDirectory, TypeOK
    <2> QED
      BY <1>5, <2>1 DEF ListDirectory, shell, TypeOK, CallInv, ReadTypeOK
  <1>6. CASE ListStep
    <2>1. ScanTypeOK'
      BY <1>6, ScanStepType DEF ListStep, TypeOK
    <2> QED
      BY <1>6, <2>1 DEF ListStep, shell, TypeOK, CallInv, ReadTypeOK
  <1> QED
    BY <1>1, <1>2, <1>3, <1>4, <1>5, <1>6

LEMMA PathInv ==
    ASSUME Inv, WalkStep
    PROVE  Inv' /\ [ReadNext]_rd
  <1> USE DEF Inv
  <1>1. CASE Lookup
    <2>1. Head(walk.rest) \in Names
      BY <1>1, HeadTailProperties DEF Lookup, TypeOK
    <2>2. ScanTypeOK'
      BY <1>1, <2>1, StartScanType DEF Lookup, TypeOK
    <2> QED
      BY <1>1, <2>2 DEF Lookup, shell, TypeOK, CallInv, ReadTypeOK
  <1>2. CASE LookupStep
    <2>1. ScanTypeOK'
      BY <1>2, ScanStepType DEF LookupStep, TypeOK
    <2> QED
      BY <1>2, <2>1 DEF LookupStep, shell, TypeOK, CallInv, ReadTypeOK
  <1>3. CASE LookupInFile
    BY <1>3, CrashInv DEF LookupInFile
  <1>4. CASE NameFound
    <2>1. scan.found.inode \in Nat
      BY DEF TypeOK, ScanTypeOK, Entry, NoEntry
    <2>2. ReadInode(scan.found.inode) \in Inode
      BY <2>1, ReadInodeType
    <2>3. Tail(walk.rest) \in Seq(Names)
      BY <1>4, HeadTailProperties DEF NameFound, CallInv, TypeOK
    <2>4. ScanTypeOK'
      BY <1>4, IdleTypes DEF NameFound, ScanTypeOK
    <2> QED
      BY <1>4, <2>2, <2>3, <2>4 DEF NameFound, shell, TypeOK, CallInv, ReadTypeOK
  <1>5. CASE NameMissing
    <2>1. CASE walk.link
      BY <1>5, <2>1, CrashInv DEF NameMissing
    <2>2. CASE ~walk.link
      BY <1>5, <2>2, FinishInv DEF NameMissing
    <2> QED
      BY <2>1, <2>2
  <1>6. CASE PathEnds
    <2>1. CASE walk.path.slash
      BY <1>6, <2>1, CrashInv DEF PathEnds
    <2>2. CASE ~walk.path.slash
      <3>1. /\ pc' = IF walk.link THEN "follow" ELSE "found"
            /\ UNCHANGED <<shell, walk, file, scan, rd>>
        BY <1>6, <2>2 DEF PathEnds
      <3>2. pc' \in {"follow", "found"} /\ (pc' = "follow" => walk.link)
        BY <3>1
      <3>3. TypeOK'
        BY <3>1, <3>2 DEF shell, TypeOK, ScanTypeOK, ReadTypeOK
      <3>4. CallInv'
        BY <1>6, <3>1, <3>2 DEF PathEnds, shell, CallInv
      <3> QED
        BY <3>1, <3>3, <3>4
    <2> QED
      BY <2>1, <2>2
  <1> QED
    BY <1>1, <1>2, <1>3, <1>4, <1>5, <1>6 DEF WalkStep

\* What cat asks readNBytes for is within the file that it has opened.
LEMMA ReadSizeType ==
    ASSUME TypeOK, file.offset < file.inode.size
    PROVE  file.offset \in 0 .. MaxSize - 1 /\ ReadSize \in Nat
  <1>1. file.offset \in Nat /\ file.inode.size \in 0 .. MaxSize
    BY DEF TypeOK, Inode
  <1>2. Chunk \in Nat
    BY CommandAssumption
  <1> QED
    BY <1>1, <1>2, Sizes, SMT DEF ReadSize

LEMMA StartReadInv ==
    ASSUME Inv, pc' = "copy", UNCHANGED <<shell, walk, file, scan>>,
           file.offset < file.inode.size, cmd.path # NoPath,
           NEW inode \in Inode, StartRead(inode, file.offset, ReadSize)
    PROVE  Inv' /\ [ReadNext]_rd
  <1>1. file.offset \in 0 .. MaxSize - 1 /\ ReadSize \in Nat
    BY ReadSizeType DEF Inv
  <1>2. ReadTypeOK'
    BY <1>1, StartReadType
  <1>3. TypeOK'
    BY <1>2 DEF Inv, shell, TypeOK, ScanTypeOK
  <1>5. CallInv'
    BY DEF Inv, shell, CallInv
  <1>4. ReadNext
    BY <1>1 DEF ReadNext
  <1> QED
    BY <1>3, <1>4, <1>5 DEF Inv

LEMMA CatInv ==
    ASSUME Inv, CatStep
    PROVE  Inv' /\ [ReadNext]_rd
  <1> USE DEF Inv
  <1>1. CASE Open
    <2>1. cmd.offset \in Nat
      BY CommandAssumption DEF TypeOK, NoCommand
    <2>2. file' \in [inode: Inode, offset: Nat]
      BY <1>1, <2>1 DEF Open, TypeOK
    <2> QED
      BY <1>1, <2>2, IdleTypes DEF Open, shell, TypeOK, CallInv, ScanTypeOK, ReadTypeOK
  <1>2. CASE CatEnds
    BY <1>2, FinishInv DEF CatEnds
  <1>3. CASE ReadOpened
    BY <1>3, StartReadInv DEF ReadOpened, TypeOK, CallInv
  <1>4. CASE WalkToLink
    <2>1. file.inode.kind = "lnk" /\ file.offset < file.inode.size
      BY <1>4 DEF WalkToLink
    <2>2. cmd.path # NoPath /\ cmd.path \in Path
      BY <1>4, NotNoPath DEF WalkToLink, CallInv
    <2>3. /\ TypeOK' /\ walk'.link = TRUE /\ pc' = "walk"
          /\ rd' = rd /\ file' = file /\ cmd' = cmd
      BY <1>4, <2>2, BeginWalkType DEF WalkToLink, BeginWalk, shell
    <2> QED
      BY <2>1, <2>2, <2>3 DEF CallInv
  <1>5. CASE FollowLink
    <2>1. CASE walk.at.size <= 60
      <3>1. walk.at.text \in Path /\ BeginWalk(walk.at.text, TRUE)
            /\ UNCHANGED <<shell, file, scan, rd>>
        BY <1>5, <2>1 DEF FollowLink, TypeOK, Inode
      <3>2. /\ TypeOK' /\ walk'.link = TRUE /\ pc' = "walk"
            /\ rd' = rd /\ file' = file /\ cmd' = cmd
        BY <3>1, BeginWalkType DEF BeginWalk, shell
      <3> QED
        BY <1>5, <3>2 DEF FollowLink, CallInv
    <2>2. CASE ~(walk.at.size <= 60)
      BY <1>5, <2>2, CrashInv DEF FollowLink
    <2> QED
      BY <2>1, <2>2
  <1>6. CASE FollowEnds
    BY <1>6, FinishInv DEF FollowEnds
  <1>7. CASE ReadTarget
    <2>1. file.offset < file.inode.size /\ cmd.path # NoPath
      BY <1>7 DEF ReadTarget, CallInv
    <2> QED
      BY <1>7, <2>1, StartReadInv DEF ReadTarget, TypeOK
  <1>8. CASE Copy
    <2>1. ReadTypeOK' /\ ReadStep
      BY <1>8, ReadStepType DEF Copy, TypeOK
    <2> QED
      BY <1>8, <2>1 DEF Copy, shell, TypeOK, CallInv, ScanTypeOK, ReadNext
  <1>9. CASE ReadReturns
    <2>1. CASE rd.got = << >>
      BY <1>9, <2>1, FinishInv DEF ReadReturns
    <2>2. CASE rd.got # << >>
      <3>1. file.offset + Len(rd.got) \in Nat
        <4>1. Len(rd.got) \in Nat
          BY LenProperties DEF TypeOK, ReadTypeOK
        <4> QED
          BY <4>1, SMT DEF TypeOK
      <3>2. /\ pc' = "read" /\ walk' = NoWalk /\ rd' = NoRead
            /\ file' = [file EXCEPT !.offset = file.offset + Len(rd.got)]
            /\ UNCHANGED <<cmd, root, status, scan>>
        BY <1>9, <2>2 DEF ReadReturns
      <3>3. file' \in [inode: Inode, offset: Nat]
        BY <3>1, <3>2 DEF TypeOK
      <3>4. TypeOK'
        BY <3>2, <3>3, IdleTypes DEF TypeOK, ScanTypeOK, ReadTypeOK
      <3>5. CallInv'
        BY <1>9, <3>2, IdleTypes DEF ReadReturns, CallInv
      <3> QED
        BY <3>2, <3>4, <3>5 DEF ReadNext
    <2> QED
      BY <2>1, <2>2
  <1> QED
    BY <1>1, <1>2, <1>3, <1>4, <1>5, <1>6, <1>7, <1>8, <1>9 DEF CatStep

LEMMA EndingInv ==
    ASSUME Inv, Help \/ NoPathGiven \/ Stat \/ Readlink \/ ListFile \/ ListEnds
    PROVE  Inv' /\ [ReadNext]_rd
  <1>1. Crash \/ \E answer \in {"ok", "failed"} : \E printed : Finish(answer, printed)
    BY DEF Help, NoPathGiven, Stat, Readlink, ListFile, ListEnds
  <1> QED
    BY <1>1, CrashInv, FinishInv

LEMMA InitInv == Init => Inv
  <1> SUFFICES ASSUME Init
               PROVE  Inv
    OBVIOUS
  <1>1. ReadTypeOK
    BY NoReadType DEF Init, ReadInit
  <1> QED
    BY <1>1, IdleTypes, NoInodeType DEF Init, Inv, TypeOK, CallInv, ScanTypeOK

LEMMA StepInv == Inv /\ [Next]_vars => Inv' /\ [ReadNext]_rd
  <1> SUFFICES ASSUME Inv, [Next]_vars
               PROVE  Inv' /\ [ReadNext]_rd
    OBVIOUS
  <1>1. CASE UNCHANGED vars
    BY <1>1 DEF vars, Inv, TypeOK, CallInv, ScanTypeOK, ReadTypeOK
  <1>2. CASE Next
    BY <1>2, MainInv, PathInv, CatInv, EndingInv DEF Next, ShellStep
  <1> QED
    BY <1>1, <1>2

\* All the variables of the shell keep their types, and the locations of the
\* two loops over blocks stay within the pointers of an inode and its tables.
THEOREM TypeCorrect == Spec => []TypeOK
  <1>1. Inv => TypeOK
    BY DEF Inv
  <1> QED
    BY InitInv, StepInv, <1>1, PTL DEF Spec

\* The shell uses readNBytes as FileRead describes it: with an inode, an offset
\* that a file can have and a length.
THEOREM ShellReads == Spec => ReadSpec
  <1>1. Init => ReadInit
    BY DEF Init
  <1> QED
    BY InitInv, StepInv, <1>1, PTL DEF Spec, ReadSpec

\* So the pointers follow the position and what is read is the file, whatever
\* commands are entered.
THEOREM ShellReadsRight == Spec => []PointersFollowPosition /\ []ReadsTheFile
  BY ShellReads, PointersCorrect, ReadsRight, PTL

-----------------------------------------------------------------------------
\* Links: where they lead, one after the other.
LEMMA HopType ==
    ASSUME NEW i \in Place
    PROVE  /\ Hop(i) \in Place
           /\ ~IsLink(i) => Hop(i) = i
           /\ IsLink(i) => i \in DOMAIN Disk /\ Disk[i].text.names \in Seq(Names)
                           /\ Hop(i) = Resolve(Disk[i].text.names)
  <1>1. CASE IsLink(i)
    <2>1. i \in DOMAIN Disk /\ Disk[i] \in DiskInode
      BY <1>1, LayoutAssumption DEF IsLink
    <2>2. Disk[i].text.names \in Seq(Names)
      BY <2>1 DEF DiskInode, Path
    <2> QED
      BY <1>1, <2>1, <2>2, ResolveType DEF Hop
  <1>2. CASE ~IsLink(i)
    BY <1>2 DEF Hop
  <1> QED
    BY <1>1, <1>2

Inodes == Cardinality(DOMAIN Disk)

LEMMA InodesType == Inodes \in Nat
  BY LayoutAssumption, FS_CardinalityType DEF Inodes

LEMMA LeadsIs ==
    ASSUME NEW i \in Place
    PROVE  /\ Leads(i) \in [0 .. Inodes -> Place]
           /\ Leads(i)[0] = i
           /\ \A k \in 1 .. Inodes : Leads(i)[k] = Hop(Leads(i)[k - 1])
  <1> DEFINE n == Inodes
             S == Place
             b == i
             step == [k \in 1 .. n |-> [s \in S |-> Hop(s)]]
             Is(f) == f = [k \in 0 .. n |-> IF k = 0 THEN i ELSE Hop(f[k - 1])]
             g == Leads(i)
  <1>1. n \in Nat /\ b \in S
    BY InodesType
  <1>3. step \in [1 .. n -> [S -> S]]
    BY HopType
  <1>4. /\ \A k \in 1 .. n : k - 1 \in 0 .. n /\ k \in 0 .. n /\ k # 0
        /\ \A k \in 0 .. n : k # 0 => k \in 1 .. n
        /\ 0 \in 0 .. n
    BY <1>1, SMT
  <1>5. \A k \in 1 .. n : \A s \in S : step[k][s] = Hop(s)
    OBVIOUS
  <1>6. \E f : Is(f)
    <2> HIDE DEF n, S, b, step
    <2>1. PICK f \in [0 .. n -> S] : Runs(f, n, b, step)
      BY <1>1, <1>3, StepsHaveFunction
    <2>2. f[0] = b /\ \A k \in 1 .. n : f[k] = Hop(f[k - 1])
      BY <1>4, <1>5, <2>1 DEF Runs
    <2>3. Is(f)
      BY <1>4, <2>1, <2>2 DEF b
    <2> QED
      BY <2>3
  <1>7. Is(g)
    <2>1. g = CHOOSE f : Is(f)
      BY DEF Leads, Inodes
    <2> HIDE DEF Is, g
    <2> QED
      BY <1>6, <2>1
  <1> HIDE DEF n, S, g, step
  <1>8. TakesSteps(g, n, S, b, step)
    BY <1>4, <1>5, <1>7 DEF TakesSteps
  <1>9. g \in [0 .. n -> S] /\ Runs(g, n, b, step)
    <2> HIDE DEF b
    <2> QED
      BY <1>1, <1>3, <1>8, StepsDetermine
  <1>10. \A k \in 1 .. n : g[k] = Hop(g[k - 1])
    BY <1>4, <1>5, <1>9 DEF Runs
  <1> QED
    BY <1>9, <1>10 DEF n, S, g, Runs

\* Links that end have ended after as many steps as there are inodes.
LEMMA LinksSettle ==
    ASSUME NEW i \in Place, NEW n \in 0 .. Inodes, ~IsLink(Leads(i)[n])
    PROVE  Target(i) = Leads(i)[n]
  <1> DEFINE to == Leads(i)
             f == [k \in 0 .. Inodes - n |-> to[n + k]]
             g == [k \in 0 .. Inodes - n |-> to[n]]
  <1>1. /\ \A k \in 1 .. Inodes : to[k] = Hop(to[k - 1])
        /\ to[n] \in Place /\ Inodes \in Nat
    BY LeadsIs, InodesType
  <1>2. Hop(to[n]) = to[n]
    BY <1>1, HopType
  <1> HIDE DEF to
  <1>3. ASSUME NEW k \in 1 .. Inodes - n PROVE f[k] = Hop(f[k - 1])
    <2>1. /\ k \in 0 .. Inodes - n /\ k - 1 \in 0 .. Inodes - n
          /\ n + k \in 1 .. Inodes /\ (n + k) - 1 = n + (k - 1)
      BY <1>1, SMT
    <2> QED
      BY <1>1, <2>1
  <1>4. GoOnAlike(f, g, Inodes - n)
    <2>1. 0 \in 0 .. Inodes - n /\ n + 0 = n
      BY <1>1, SMT
    <2>2. \A k \in 1 .. Inodes - n : k \in 0 .. Inodes - n /\ k - 1 \in 0 .. Inodes - n
      BY <1>1, SMT
    <2>3. f[0] = g[0]
      BY <2>1
    <2>4. \A k \in 1 .. Inodes - n : g[k] = to[n] /\ g[k - 1] = to[n]
      BY <2>2
    <2> HIDE DEF f, g
    <2> QED
      BY <1>2, <1>3, <2>3, <2>4 DEF GoOnAlike
  <1>5. Inodes - n \in Nat /\ Inodes - n \in 0 .. Inodes - n /\ n + (Inodes - n) = Inodes
    BY <1>1, SMT
  <1>6. f[Inodes - n] = g[Inodes - n]
    <2> HIDE DEF f, g
    <2>1. \A k \in 0 .. Inodes - n : f[k] = g[k]
      BY <1>4, <1>5, Alike
    <2> QED
      BY <1>5, <2>1
  <1>7. to[Inodes] = to[n]
    BY <1>5, <1>6
  <1> QED
    BY <1>7 DEF Target, Inodes, to

\* Links that do not end come round: the inodes they have led to are all.
LEMMA LinksComeRound ==
    ASSUME NEW i \in Place, NEW n \in 0 .. Inodes
    PROVE  \E m \in 0 .. Inodes : Leads(i)[m] = Hop(Leads(i)[n])
  <1> DEFINE to == Leads(i)
  <1>1. /\ \A k \in 1 .. Inodes : to[k] = Hop(to[k - 1])
        /\ to \in [0 .. Inodes -> Place] /\ Inodes \in Nat
    BY LeadsIs, InodesType
  <1>2. CASE n < Inodes
    <2>1. n + 1 \in 1 .. Inodes /\ n + 1 \in 0 .. Inodes /\ (n + 1) - 1 = n
      BY <1>1, <1>2, SMT
    <2> QED
      BY <1>1, <2>1
  <1>3. CASE ~IsLink(to[n])
    BY <1>1, <1>3, HopType
  <1>4. CASE n = Inodes /\ IsLink(to[n])
    <2>1. ASSUME NEW k \in 0 .. Inodes PROVE to[k] \in DOMAIN Disk
      <3>1. IsLink(to[k])
        <4>1. ~IsLink(to[k]) => Target(i) = to[k]
          BY LinksSettle
        <4>2. Target(i) = to[n]
          BY <1>4 DEF Target, Inodes
        <4> QED
          BY <1>4, <4>1, <4>2
      <3> QED
        BY <3>1 DEF IsLink
    <2>2. PICK x \in 0 .. Inodes, y \in 0 .. Inodes : x # y /\ to[x] = to[y]
      <3>1. IsFiniteSet(0 .. Inodes) /\ Cardinality(0 .. Inodes) = Inodes + 1
        <4>1. 0 \in Int /\ Inodes \in Int /\ ~ 0 > Inodes
          BY <1>1, SMT
        <4>2. IsFiniteSet(0 .. Inodes) /\ Cardinality(0 .. Inodes) = Inodes - 0 + 1
          BY <4>1, FS_Interval
        <4> QED
          BY <1>1, <4>2, SMT
      <3>2. IsFiniteSet(DOMAIN Disk) /\ Cardinality(DOMAIN Disk) < Cardinality(0 .. Inodes)
        <4>1. Inodes < Inodes + 1
          BY <1>1, SMT
        <4> QED
          BY <3>1, <4>1, LayoutAssumption DEF Inodes
      <3>3. to \in [0 .. Inodes -> DOMAIN Disk]
        BY <1>1, <2>1
      <3> HIDE DEF to
      <3> QED
        BY <3>1, <3>2, <3>3, FS_PigeonHole
    <2>3. PICK a \in 0 .. Inodes, b \in 0 .. Inodes : a < b /\ to[a] = to[b]
      <3>1. x < y \/ y < x
        BY <2>2, SMT
      <3> QED
        BY <2>2, <3>1
    <2> DEFINE r == Inodes - b
               f == [k \in 0 .. r |-> to[a + k]]
               g == [k \in 0 .. r |-> to[b + k]]
    <2>4. /\ r \in Nat /\ b + r = Inodes /\ r \in 0 .. r
          /\ (a + r) + 1 \in 0 .. Inodes /\ (a + r) + 1 \in 1 .. Inodes /\ ((a + r) + 1) - 1 = a + r
      BY <1>1, <2>3, SMT
    <2> HIDE DEF to
    <2>5. GoOnAlike(f, g, r)
      <3>1. f[0] = g[0]
        <4>1. 0 \in 0 .. r /\ a + 0 = a /\ b + 0 = b
          BY <1>1, <2>4, SMT
        <4> QED
          BY <2>3, <4>1
      <3>2. ASSUME NEW k \in 1 .. r PROVE f[k] = Hop(f[k - 1]) /\ g[k] = Hop(g[k - 1])
        <4>1. /\ k \in 0 .. r /\ k - 1 \in 0 .. r
              /\ a + k \in 1 .. Inodes /\ (a + k) - 1 = a + (k - 1)
              /\ b + k \in 1 .. Inodes /\ (b + k) - 1 = b + (k - 1)
          BY <1>1, <2>3, <2>4, SMT
        <4> QED
          BY <1>1, <4>1
      <3> HIDE DEF f, g, r
      <3> QED
        BY <3>1, <3>2 DEF GoOnAlike
    <2>6. f[r] = g[r]
      <3> HIDE DEF f, g, r
      <3>1. \A k \in 0 .. r : f[k] = g[k]
        BY <2>4, <2>5, Alike
      <3> QED
        BY <2>4, <3>1
    <2>7. to[a + r] = to[Inodes]
      BY <2>4, <2>6
    <2>8. to[(a + r) + 1] = Hop(to[n])
      <3> HIDE DEF r
      <3> QED
        BY <1>1, <1>4, <2>4, <2>7
    <2> HIDE DEF r
    <2> QED
      BY <2>4, <2>8 DEF to
  <1> QED
    BY <1>1, <1>2, <1>3, <1>4, SMT

-----------------------------------------------------------------------------
(***************************************************************************)
(* The inductive invariant of the shell as a whole: what each function has *)
(* been called with, in terms of the command and of the image.             *)
(***************************************************************************)

\* The inode that the path of the command leads to, and where its links lead.
Named == Resolve(cmd.path.names)
Chain == {Leads(Named)[n] : n \in DOMAIN Leads(Named)}
Final == Target(Named)

MainKeeps ==
    /\ pc = "mount" => cmd = NoCommand
    /\ pc # "mount" => root = TrueInode(Root)
    /\ pc \notin {"mount", "idle"} => cmd \in Command
    /\ pc \notin {"mount", "idle", "execute", "exited", "crashed"} =>
            cmd.path # NoPath /\ cmd.name \notin {"help", "exit"}

\* The names left are the end of the path, and the inode is where the others lead.
OnPath ==
    LET names == walk.path.names
        k     == Len(names) - Len(walk.rest)
    IN  /\ walk.path \in Path
        /\ Len(walk.rest) <= Len(names)
        /\ \A j \in 1 .. Len(walk.rest) : walk.rest[j] = names[k + j]
        /\ Reached(names)[k] \in DOMAIN Disk
        /\ walk.at = TrueInode(Reached(names)[k])

\* The path is that of the command, or that of a link to which it leads.
PathIsDue(path, link) ==
    \/ path = cmd.path
    \/ link /\ \E j \in Chain : IsLink(j) /\ path = Disk[j].text

WalkKeeps ==
    /\ pc \in {"walk", "lookup", "found", "list", "follow"} => OnPath /\ PathIsDue(walk.path, walk.link)
    /\ pc \in {"found", "list", "follow"} => walk.rest = << >> /\ ~walk.path.slash
    /\ pc \in {"found", "list"} => ~walk.link
    /\ pc \in {"mount", "idle", "execute", "read"} => ~walk.link

ScanKeeps ==
    /\ pc = "lookup" => scan.dir = walk.at /\ scan.want = Head(walk.rest)
    /\ pc = "list" =>
        scan.dir = walk.at /\ scan.want = NoName /\ scan.dir.kind = "dir" /\ cmd.name = "ls"
    /\ pc \notin {"lookup", "list"} => scan = NoScan
    /\ scan.dir.kind # "dir" => scan = [NoScan EXCEPT !.dir = scan.dir, !.want = scan.want]
    /\ ScanInv

\* cat has opened the file, or pathwalk is called by its fsRead.
Opened == pc \in {"read", "follow", "copy"} \/ walk.link

CatKeeps ==
    /\ cmd.name = "cat" => out \in Seq(Nat \X Nat)
    /\ pc \notin {"idle", "crashed", "exited"} /\ ~Opened => out = << >>
    /\ Opened =>
        /\ cmd.name = "cat" /\ ~cmd.path.slash
        /\ Named \in DOMAIN Disk /\ file.inode = TrueInode(Named)
        /\ file.offset = cmd.offset + Len(out)
        /\ out # << >> => file.offset <= Disk[Named].size /\ Disk[Named].kind # "dir"
    /\ walk.link => Disk[Named].kind = "lnk"

ReadKeeps ==
    /\ pc # "copy" => rd = NoRead
    /\ pc = "copy" =>
        /\ Final \in DOMAIN Disk /\ rd.inode = TrueInode(Final)
        /\ Disk[Final].kind \notin {"lnk", "dir"}
        /\ rd.from = file.offset /\ rd.len = ReadSize /\ Len(rd.got) <= rd.len
        /\ file.offset < file.inode.size

\* What has been printed of a file are its bytes.
OutIsRight ==
    cmd.name = "cat" =>
        \A k \in 1 .. Len(out) :
            cmd.offset + k <= Disk[Final].size => out[k] = FileByte(Final, cmd.offset + k - 1)

BrowserInv == MainKeeps /\ WalkKeeps /\ ScanKeeps /\ CatKeeps /\ ReadKeeps /\ OutIsRight

LEMMA PathGiven ==
    ASSUME TypeOK, cmd.path # NoPath
    PROVE  cmd.path \in Path /\ cmd.path.names \in Seq(Names) /\ Named \in Place
  <1>1. cmd.path \in Path
    BY NotNoPath
  <1>2. cmd.path.names \in Seq(Names)
    BY <1>1 DEF Path
  <1> QED
    BY <1>1, <1>2, ResolveType DEF Named

LEMMA ChainIs ==
    ASSUME Named \in Place
    PROVE  /\ Named \in Chain
           /\ \A j \in Chain : /\ j \in Place /\ Hop(j) \in Chain
                               /\ ~IsLink(j) => Final = j
           /\ \A j \in Chain : \E n \in DOMAIN Leads(Named) : j = Leads(Named)[n]
  <1> DEFINE to == Leads(Named)
  <1>1. to \in [0 .. Inodes -> Place] /\ to[0] = Named /\ Inodes \in Nat
    BY LeadsIs, InodesType
  <1>2. 0 \in 0 .. Inodes
    BY <1>1, SMT
  <1>3. \A m \in 0 .. Inodes : to[m] \in Chain
    BY <1>1 DEF Chain
  <1>4. \A j \in Chain : \E n \in 0 .. Inodes : j = to[n]
    BY <1>1 DEF Chain
  <1>5. ASSUME NEW j \in Chain
        PROVE  j \in Place /\ Hop(j) \in Chain /\ (~IsLink(j) => Final = j)
    <2>1. PICK n \in 0 .. Inodes : j = to[n]
      BY <1>4
    <2>2. \E m \in 0 .. Inodes : to[m] = Hop(to[n])
      BY LinksComeRound
    <2>3. ~IsLink(j) => Final = j
      BY <2>1, LinksSettle DEF Final
    <2> QED
      BY <1>1, <1>3, <2>1, <2>2, <2>3
  <1> QED
    BY <1>1, <1>2, <1>3, <1>4, <1>5

LEMMA SameCommand ==
    ASSUME cmd' = cmd
    PROVE  Named' = Named /\ Chain' = Chain /\ Final' = Final
  BY DEF Named, Chain, Final

LEMMA NoScanKeeps ==
    /\ NoScan.dir.kind # "dir"
    /\ NoScan = [NoScan EXCEPT !.dir = NoScan.dir, !.want = NoScan.want]
    /\ InPlace(NoScan)
  BY DEF NoScan, InMemory, ZeroInode, InPlace

\* A command that ends or crashes keeps the invariant if what it has printed is
\* right.
LEMMA EndKeeps ==
    ASSUME Inv, BrowserInv, pc \notin {"mount", "idle"}, pc' \in {"idle", "crashed"},
           Release, UNCHANGED <<cmd, root>>,
           out' = out \/ out' = << >> \/ cmd.name # "cat"
    PROVE  BrowserInv'
  <1> USE DEF BrowserInv
  <1>1. MainKeeps'
    BY DEF MainKeeps
  <1>2. walk' = NoWalk /\ walk'.link = FALSE /\ file' = NoFile /\ scan' = NoScan /\ rd' = NoRead
    BY DEF Release, NoWalk
  <1>3. WalkKeeps'
    BY <1>2 DEF WalkKeeps
  <1>4. ScanKeeps'
    BY <1>2, NoScanKeeps DEF ScanKeeps, ScanInv
  <1>5. cmd.name = "cat" => out' \in Seq(Nat \X Nat)
    <2>1. << >> \in Seq(Nat \X Nat)
      BY SMT
    <2> QED
      BY <2>1 DEF CatKeeps
  <1>6. CatKeeps'
    BY <1>2, <1>5 DEF CatKeeps, Opened
  <1>7. ReadKeeps'
    BY <1>2 DEF ReadKeeps
  <1>8. OutIsRight'
    <2>1. Final' = Final
      BY SameCommand
    <2>2. CASE out' = << >>
      <3>1. 1 .. Len(<< >>) = {}
        BY SMT
      <3> QED
        BY <2>2, <3>1 DEF OutIsRight
    <2>3. CASE out' = out
      BY <2>1, <2>3 DEF OutIsRight
    <2>4. CASE cmd.name # "cat"
      BY <2>4 DEF OutIsRight
    <2> QED
      BY <2>2, <2>3, <2>4
  <1> QED
    BY <1>1, <1>3, <1>4, <1>6, <1>7, <1>8

LEMMA CrashKeeps ==
    ASSUME Inv, BrowserInv, pc \notin {"mount", "idle"}, Crash
    PROVE  BrowserInv'
  BY EndKeeps DEF Crash, shell

\* pathwalk begins in the root.
LEMMA BeginWalkKeeps ==
    ASSUME BrowserInv, pc # "mount", NEW path \in Path, NEW link \in BOOLEAN,
           BeginWalk(path, link), cmd' = cmd,
           PathIsDue(path, link)
    PROVE  WalkKeeps'
  <1>1. /\ walk'.path = path /\ walk'.rest = path.names /\ walk'.at = root
        /\ walk'.link = link /\ pc' = "walk"
    BY DEF BeginWalk
  <1>2. root = TrueInode(Root)
    BY DEF BrowserInv, MainKeeps
  <1>3. path.names \in Seq(Names)
    BY DEF Path
  <1> DEFINE n == Len(path.names)
  <1>4. n \in Nat /\ n - n = 0 /\ n <= n
    <2>1. n \in Nat
      BY <1>3, LenProperties
    <2> HIDE DEF n
    <2> QED
      BY <2>1, SMT
  <1>5. Reached(path.names)[0] = Root /\ Root \in DOMAIN Disk
    BY <1>3, ReachedIs, PlaceType
  <1>6. OnPath'
    <2>1. \A j \in 1 .. n : 0 + j = j
      BY SMT
    <2> QED
      BY <1>1, <1>2, <1>4, <1>5, <2>1 DEF OnPath
  <1>7. PathIsDue(walk.path, walk.link)'
    BY <1>1, SameCommand DEF PathIsDue
  <1> QED
    BY <1>1, <1>6, <1>7 DEF WalkKeeps

LEMMA MainKeepsAll ==
    ASSUME Inv, BrowserInv, Mount \/ ReadLine \/ Exit \/ WalkThePath
    PROVE  BrowserInv'
  <1> USE DEF BrowserInv
  <1>0. << >> \in Seq(Nat \X Nat) /\ 1 .. Len(<< >>) = {}
    BY SMT
  <1>1. CASE Mount
    <2>1. pc = "mount" /\ pc' = "idle" /\ root' = ReadInode(2)
          /\ UNCHANGED <<cmd, walk, file, status, out, scan, rd>>
      BY <1>1 DEF Mount
    <2>2. root' = TrueInode(Root)
      BY <2>1, PlaceType, InodeInPlace DEF Root
    <2>3. cmd.name # "cat"
      BY <2>1 DEF MainKeeps, NoCommand
    <2>4. MainKeeps' /\ WalkKeeps' /\ ScanKeeps' /\ ReadKeeps' /\ OutIsRight'
      BY <2>1, <2>2, <2>3 DEF MainKeeps, WalkKeeps, ScanKeeps, ScanInv, ReadKeeps, OutIsRight
    <2>5. CatKeeps'
      BY <2>1, <2>3 DEF CatKeeps, Opened, WalkKeeps
    <2> QED
      BY <2>4, <2>5
  <1>2. CASE ReadLine
    <2>1. pc = "idle" /\ pc' = "execute" /\ cmd' \in Command /\ out' = << >>
          /\ UNCHANGED <<root, walk, file, scan, rd>>
      BY <1>2 DEF ReadLine
    <2>2. MainKeeps' /\ WalkKeeps' /\ ScanKeeps' /\ ReadKeeps'
      BY <2>1 DEF MainKeeps, WalkKeeps, ScanKeeps, ScanInv, ReadKeeps
    <2>3. OutIsRight'
      BY <1>0, <2>1 DEF OutIsRight
    <2>4. CatKeeps'
      BY <1>0, <2>1 DEF CatKeeps, Opened, WalkKeeps
    <2> QED
      BY <2>2, <2>3, <2>4
  <1>3. CASE Exit
    <2>1. pc = "execute" /\ pc' = "exited"
          /\ UNCHANGED <<cmd, root, status, out, walk, file, scan, rd>>
      BY <1>3 DEF Exit, shell
    <2>2. MainKeeps' /\ WalkKeeps' /\ ScanKeeps' /\ ReadKeeps'
      BY <2>1 DEF MainKeeps, WalkKeeps, ScanKeeps, ScanInv, ReadKeeps
    <2>3. OutIsRight'
      BY <2>1, SameCommand DEF OutIsRight
    <2>4. CatKeeps'
      BY <2>1, SameCommand DEF CatKeeps, Opened, WalkKeeps
    <2> QED
      BY <2>2, <2>3, <2>4
  <1>4. CASE WalkThePath
    <2>1. /\ pc = "execute" /\ pc' = "walk" /\ BeginWalk(cmd.path, FALSE)
          /\ cmd.path # NoPath /\ cmd.name \notin {"help", "exit"}
          /\ UNCHANGED <<cmd, root, status, out, file, scan, rd>>
      BY <1>4 DEF WalkThePath, BeginWalk, shell
    <2>2. WalkKeeps' /\ walk'.link = FALSE
      <3>1. cmd.path \in Path
        BY <2>1, PathGiven DEF Inv
      <3>2. PathIsDue(cmd.path, FALSE) /\ pc # "mount"
        BY <2>1 DEF PathIsDue
      <3>3. WalkKeeps'
        BY <2>1, <3>1, <3>2, BeginWalkKeeps
      <3> QED
        BY <2>1, <3>3 DEF BeginWalk
    <2>3. MainKeeps' /\ ScanKeeps' /\ ReadKeeps'
      BY <2>1 DEF MainKeeps, ScanKeeps, ScanInv, ReadKeeps
    <2>4. OutIsRight'
      BY <2>1, SameCommand DEF OutIsRight
    <2>5. CatKeeps'
      BY <2>1, <2>2, SameCommand DEF CatKeeps, Opened, WalkKeeps
    <2> QED
      BY <2>2, <2>3, <2>4, <2>5
  <1> QED
    BY <1>1, <1>2, <1>3, <1>4

LEMMA OnPathIs ==
    ASSUME TypeOK, OnPath, NEW names, names = walk.path.names,
           NEW l, l = Len(names) - Len(walk.rest)
    PROVE  /\ names \in Seq(Names) /\ l \in 0 .. Len(names) /\ Len(names) \in Nat
           /\ Len(walk.rest) \in Nat /\ Len(walk.rest) = Len(names) - l
           /\ Reached(names)[l] \in DOMAIN Disk /\ walk.at = TrueInode(Reached(names)[l])
           /\ walk.at.ino = Reached(names)[l] /\ walk.at.kind = Disk[walk.at.ino].kind
           /\ walk.rest = << >> => l = Len(names) /\ walk.at.ino = Resolve(names)
           /\ walk.rest # << >> => l + 1 \in 1 .. Len(names) /\ Head(walk.rest) = names[l + 1]
  <1> DEFINE n == Len(names)
             r == Len(walk.rest)
  <1>1. /\ names \in Seq(Names) /\ walk.rest \in Seq(Names)
        /\ n \in Nat /\ r \in Nat /\ r <= n /\ l = n - r
    <2>1. names \in Seq(Names)
      BY DEF OnPath, Path
    <2>2. walk.rest \in Seq(Names)
      BY DEF TypeOK
    <2> QED
      BY <2>1, <2>2, LenProperties DEF OnPath
  <1>2. l \in 0 .. n /\ r = n - l /\ (r = 0 => l = n) /\ (r # 0 => l + 1 \in 1 .. n /\ 1 \in 1 .. r)
    <2>1. n \in Nat /\ r \in Nat /\ r <= n /\ l = n - r
      BY <1>1
    <2> HIDE DEF n, r
    <2>2. l \in 0 .. n /\ r = n - l
      BY <2>1, SMT
    <2>3. r = 0 => l = n
      BY <2>1, SMT
    <2>4. r # 0 => l + 1 \in 1 .. n /\ 1 \in 1 .. r
      BY <2>1, SMT
    <2> QED
      BY <2>2, <2>3, <2>4
  <1>3. Reached(names)[l] \in DOMAIN Disk /\ walk.at = TrueInode(Reached(names)[l])
    BY DEF OnPath
  <1>4. walk.at.ino = Reached(names)[l] /\ walk.at.kind = Disk[walk.at.ino].kind
    <2> DEFINE i == Reached(names)[l]
    <2>1. TrueInode(i).ino = i /\ TrueInode(i).kind = Disk[i].kind
      BY <1>3, TrueInodeIs
    <2> HIDE DEF i
    <2>2. walk.at = TrueInode(i)
      BY <1>3 DEF i
    <2>3. walk.at.ino = i /\ walk.at.kind = Disk[i].kind
      BY <2>1, <2>2
    <2> QED
      BY <2>3 DEF i
  <1>5. ASSUME walk.rest = << >> PROVE l = n /\ walk.at.ino = Resolve(names)
    <2>1. r = 0
      BY <1>5, EmptySeq
    <2>2. l = n
      BY <1>2, <2>1
    <2> QED
      BY <1>4, <2>2 DEF Resolve
  <1>6. ASSUME walk.rest # << >> PROVE l + 1 \in 1 .. n /\ Head(walk.rest) = names[l + 1]
    <2>1. r # 0
      BY <1>1, <1>6, EmptySeq
    <2>2. \A s \in Seq(Names) : s # << >> => Head(s) = s[1]
      BY SMT
    <2>3. Head(walk.rest) = walk.rest[1]
      BY <1>1, <1>6, <2>2
    <2>4. walk.rest[1] = names[l + 1]
      BY <1>2, <2>1 DEF OnPath
    <2> QED
      BY <1>2, <2>1, <2>3, <2>4
  <1> QED
    BY <1>1, <1>2, <1>3, <1>4, <1>5, <1>6

\* What does not start or end anything changes one part of the invariant only.
LEMMA RestKeeps ==
    ASSUME BrowserInv, pc \notin {"mount", "idle", "execute", "exited", "crashed", "copy"},
           pc' \notin {"mount", "idle", "copy"},
           UNCHANGED <<cmd, root, status, out, file, rd>>
    PROVE  MainKeeps' /\ ReadKeeps' /\ OutIsRight'
  <1>1. MainKeeps'
    BY DEF BrowserInv, MainKeeps
  <1>2. ReadKeeps'
    BY DEF BrowserInv, ReadKeeps
  <1>3. OutIsRight'
    BY SameCommand DEF BrowserInv, OutIsRight
  <1> QED
    BY <1>1, <1>2, <1>3

LEMMA PathKeeps ==
    ASSUME Inv, BrowserInv, WalkStep
    PROVE  BrowserInv'
  <1> USE DEF BrowserInv
  <1>i. TypeOK /\ CallInv
    BY DEF Inv
  <1>s. TypeOK' /\ ScanTypeOK
    BY StepInv DEF Inv, TypeOK, Next, ShellStep
  <1>1. CASE Lookup
    <2>1. /\ pc = "walk" /\ pc' = "lookup" /\ walk.rest # << >>
          /\ StartScan(walk.at, Head(walk.rest))
          /\ UNCHANGED <<cmd, root, status, out, walk, file, rd>>
      BY <1>1 DEF Lookup, shell
    <2>2. OnPath /\ PathIsDue(walk.path, walk.link)
      BY <2>1 DEF WalkKeeps
    <2>3. WalkKeeps'
      BY <2>1, <2>2, SameCommand DEF WalkKeeps, OnPath, PathIsDue
    <2>4. Head(walk.rest) \in Names /\ walk.at \in Inode
      BY <1>i, <2>1, HeadTailProperties DEF TypeOK
    <2>5. ScanInv'
      <3>1. walk.at.ino \in DOMAIN Disk /\ walk.at = TrueInode(walk.at.ino)
        BY <1>i, <2>2, OnPathIs
      <3> QED
        BY <2>1, <2>4, <3>1, StartScanInv
    <2>6. ScanKeeps'
      <3>1. scan' = [NoScan EXCEPT !.dir = walk.at, !.want = Head(walk.rest)]
        BY <2>1 DEF StartScan
      <3>2. /\ scan'.dir = walk.at /\ scan'.want = Head(walk.rest)
        BY <3>1 DEF NoScan
      <3> QED
        BY <2>1, <2>5, <3>1, <3>2 DEF ScanKeeps
    <2>7. CatKeeps'
      BY <2>1, SameCommand DEF CatKeeps, Opened
    <2> QED
      BY <2>1, <2>3, <2>6, <2>7, RestKeeps
  <1>2. CASE LookupStep
    <2>1. /\ pc = "lookup" /\ pc' = pc /\ ScanStep
          /\ UNCHANGED <<cmd, root, status, out, walk, file, rd>>
      BY <1>2 DEF LookupStep, shell
    <2>2. WalkKeeps'
      BY <2>1, SameCommand DEF WalkKeeps, OnPath, PathIsDue
    <2>3. scan'.dir = scan.dir /\ scan'.want = scan.want /\ scan.dir.kind = "dir"
      BY <1>s, <2>1 DEF ScanStep, SkipPointer, ReadEntry, LeaveBlock, ScanTypeOK
    <2>4. ScanKeeps'
      BY <1>s, <2>1, <2>3, ScanStepInv DEF ScanKeeps
    <2>5. CatKeeps'
      BY <2>1, SameCommand DEF CatKeeps, Opened
    <2> QED
      BY <2>1, <2>2, <2>4, <2>5, RestKeeps
  <1>3. CASE LookupInFile
    BY <1>3, CrashKeeps DEF LookupInFile
  <1>4. CASE NameFound
    <2>1. /\ pc = "lookup" /\ pc' = "walk" /\ scan.found # NoEntry /\ scan' = NoScan
          /\ walk' = [walk EXCEPT !.rest = Tail(walk.rest), !.at = ReadInode(scan.found.inode)]
          /\ UNCHANGED <<cmd, root, status, out, file, rd>>
      BY <1>4 DEF NameFound, shell
    <2>2. OnPath /\ PathIsDue(walk.path, walk.link) /\ scan.dir = walk.at /\ scan.want = Head(walk.rest)
          /\ walk.rest # << >>
      BY <1>i, <2>1 DEF WalkKeeps, ScanKeeps, CallInv
    <2>3. scan.dir.kind = "dir" /\ ScanInv
      <3>1. NoScan.found = NoEntry
        BY DEF NoScan
      <3>2. [NoScan EXCEPT !.dir = scan.dir, !.want = scan.want].found = NoEntry
        BY DEF NoScan
      <3> QED
        BY <2>1, <3>2 DEF ScanKeeps
    <2> DEFINE names == walk.path.names
               l == Len(names) - Len(walk.rest)
    <2>4. /\ names \in Seq(Names) /\ l \in 0 .. Len(names) /\ Len(names) \in Nat
          /\ Len(walk.rest) \in Nat /\ Len(walk.rest) = Len(names) - l
          /\ walk.at.ino = Reached(names)[l]
          /\ l + 1 \in 1 .. Len(names) /\ Head(walk.rest) = names[l + 1]
      BY <1>i, <2>2, OnPathIs
    <2>5. scan.found \in Known /\ scan.found.inode = Child(Reached(names)[l], names[l + 1])
      BY <1>s, <2>1, <2>2, <2>3, <2>4, FoundIs
    <2>6. /\ walk'.path = walk.path /\ walk'.link = walk.link /\ walk'.rest = Tail(walk.rest)
          /\ walk'.at = ReadInode(scan.found.inode)
      BY <1>i, <2>1 DEF TypeOK
    <2>7. /\ Len(walk'.rest) = Len(walk.rest) - 1
          /\ \A j \in 1 .. Len(walk'.rest) : walk'.rest[j] = walk.rest[j + 1]
      BY <1>i, <2>2, <2>6, HeadTailProperties DEF TypeOK
    <2>8. Reached(names)[l + 1] = scan.found.inode
      <3>1. (l + 1) - 1 = l
        <4> HIDE DEF l
        <4> QED
          BY <2>4, SMT
      <3> HIDE DEF l
      <3> QED
        BY <2>4, <2>5, <3>1, ReachedIs
    <2>9. scan.found.inode \in DOMAIN Disk /\ walk'.at = TrueInode(scan.found.inode)
      BY <2>5, <2>6, InodeInPlace DEF Known
    <2>10. OnPath'
      <3>1. walk.path \in Path /\ \A j \in 1 .. Len(walk.rest) : walk.rest[j] = names[l + j]
        BY <2>2 DEF OnPath
      <3> DEFINE r == Len(walk.rest)
      <3>2. l + 1 = Len(names) - Len(walk'.rest) /\ Len(walk'.rest) <= Len(names)
        <4>1. r \in Nat /\ Len(names) \in Nat /\ l = Len(names) - r /\ Len(walk'.rest) = r - 1
              /\ r <= Len(names)
          <5>1. r <= Len(names)
            BY <2>2 DEF OnPath
          <5> QED
            BY <2>4, <2>7, <5>1
        <4> HIDE DEF l, r
        <4> QED
          BY <4>1, SMT
      <3>3. ASSUME NEW j \in 1 .. Len(walk'.rest) PROVE walk'.rest[j] = names[(l + 1) + j]
        <4>1. r \in Nat /\ Len(walk'.rest) = r - 1 /\ l \in Nat
          BY <2>4, <2>7, SMT
        <4> HIDE DEF l, r
        <4>2. j + 1 \in 1 .. r /\ l + (j + 1) = (l + 1) + j
          BY <4>1, SMT
        <4> QED
          BY <2>7, <3>1, <4>2 DEF r
      <3> HIDE DEF l
      <3> QED
        BY <2>6, <2>8, <2>9, <3>1, <3>2, <3>3 DEF OnPath
    <2>11. PathIsDue(walk.path, walk.link)'
      BY <2>1, <2>2, <2>6, SameCommand DEF PathIsDue
    <2>12. WalkKeeps'
      BY <2>1, <2>10, <2>11 DEF WalkKeeps
    <2>13. ScanKeeps'
      BY <2>1, NoScanKeeps DEF ScanKeeps, ScanInv
    <2>14. CatKeeps'
      BY <2>1, <2>6, SameCommand DEF CatKeeps, Opened
    <2> QED
      BY <2>1, <2>12, <2>13, <2>14, RestKeeps
  <1>5. CASE NameMissing
    <2>1. pc = "lookup" /\ (Crash \/ Finish("failed", << >>))
      BY <1>5 DEF NameMissing
    <2> QED
      BY <2>1, CrashKeeps, EndKeeps DEF Finish
  <1>6. CASE PathEnds
    <2>1. CASE walk.path.slash
      BY <1>6, <2>1, CrashKeeps DEF PathEnds
    <2>2. CASE ~walk.path.slash
      <3>1. /\ pc = "walk" /\ walk.rest = << >>
            /\ pc' = IF walk.link THEN "follow" ELSE "found"
            /\ UNCHANGED <<cmd, root, status, out, walk, file, scan, rd>>
        BY <1>6, <2>2 DEF PathEnds, shell
      <3>2. WalkKeeps'
        BY <2>2, <3>1, SameCommand DEF WalkKeeps, OnPath, PathIsDue
      <3>3. ScanKeeps'
        BY <3>1 DEF ScanKeeps, ScanInv
      <3>4. CatKeeps'
        BY <3>1, SameCommand DEF CatKeeps, Opened
      <3> QED
        BY <3>1, <3>2, <3>3, <3>4, RestKeeps
    <2> QED
      BY <2>1, <2>2
  <1> QED
    BY <1>1, <1>2, <1>3, <1>4, <1>5, <1>6 DEF WalkStep

LEMMA ListKeeps ==
    ASSUME Inv, BrowserInv, ListDirectory \/ ListStep
    PROVE  BrowserInv'
  <1> USE DEF BrowserInv
  <1>i. TypeOK /\ CallInv /\ ScanTypeOK
    BY DEF Inv, TypeOK
  <1>1. CASE ListDirectory
    <2>1. /\ pc = "found" /\ pc' = "list" /\ walk.at.kind = "dir" /\ cmd.name = "ls"
          /\ StartScan(walk.at, NoName)
          /\ UNCHANGED <<cmd, root, status, out, walk, file, rd>>
      BY <1>1 DEF ListDirectory, shell
    <2>2. OnPath
      BY <2>1 DEF WalkKeeps
    <2>3. WalkKeeps'
      BY <2>1, SameCommand DEF WalkKeeps, OnPath, PathIsDue
    <2>4. ScanInv'
      <3>1. walk.at.ino \in DOMAIN Disk /\ walk.at = TrueInode(walk.at.ino)
        BY <1>i, <2>2, OnPathIs
      <3>2. walk.at \in Inode
        BY <1>i DEF TypeOK
      <3> QED
        BY <2>1, <3>1, <3>2, StartScanInv
    <2>5. ScanKeeps'
      <3>1. scan' = [NoScan EXCEPT !.dir = walk.at, !.want = NoName]
        BY <2>1 DEF StartScan
      <3>2. /\ scan'.dir = walk.at /\ scan'.want = NoName
        BY <3>1 DEF NoScan
      <3> QED
        BY <2>1, <2>4, <3>1, <3>2 DEF ScanKeeps
    <2>6. CatKeeps'
      BY <2>1, SameCommand DEF CatKeeps, Opened
    <2> QED
      BY <2>1, <2>3, <2>5, <2>6, RestKeeps
  <1>2. CASE ListStep
    <2>1. /\ pc = "list" /\ pc' = pc /\ ScanStep
          /\ UNCHANGED <<cmd, root, status, out, walk, file, rd>>
      BY <1>2 DEF ListStep, shell
    <2>2. WalkKeeps'
      BY <2>1, SameCommand DEF WalkKeeps, OnPath, PathIsDue
    <2>3. scan'.dir = scan.dir /\ scan'.want = scan.want /\ scan.dir.kind = "dir"
      BY <1>i, <2>1 DEF ScanStep, SkipPointer, ReadEntry, LeaveBlock, ScanTypeOK
    <2>4. ScanKeeps'
      BY <1>i, <2>1, <2>3, ScanStepInv DEF ScanKeeps
    <2>5. CatKeeps'
      BY <2>1, SameCommand DEF CatKeeps, Opened
    <2> QED
      BY <2>1, <2>2, <2>4, <2>5, RestKeeps
  <1> QED
    BY <1>1, <1>2

LEMMA EndingKeeps ==
    ASSUME Inv, BrowserInv, Help \/ NoPathGiven \/ Stat \/ Readlink \/ ListFile \/ ListEnds
    PROVE  BrowserInv'
  <1>1. pc \notin {"mount", "idle"}
    BY DEF Help, NoPathGiven, Stat, Readlink, ListFile, ListEnds
  <1>2. CASE Crash
    BY <1>1, <1>2, CrashKeeps
  <1>3. CASE ~Crash
    <2>1. \E answer, printed : Finish(answer, printed) /\ (printed = << >> \/ cmd.name # "cat")
      <3>1. CASE Help \/ NoPathGiven
        BY <1>3, <3>1 DEF Help, NoPathGiven
      <3>2. CASE Stat \/ Readlink \/ ListFile
        BY <1>3, <3>2 DEF Stat, Readlink, ListFile
      <3>3. CASE ListEnds
        <4>1. cmd.name # "cat"
          BY <3>3 DEF ListEnds, BrowserInv, ScanKeeps
        <4> QED
          BY <3>3, <4>1 DEF ListEnds
      <3> QED
        BY <3>1, <3>2, <3>3
    <2>2. /\ pc' = "idle" /\ Release /\ UNCHANGED <<cmd, root>>
          /\ out' = << >> \/ cmd.name # "cat"
      BY <2>1 DEF Finish
    <2> QED
      BY <1>1, <2>2, EndKeeps
  <1> QED
    BY <1>2, <1>3

\* Where pathwalk has come to at the end of the path of the command.
LEMMA AtNamed ==
    ASSUME TypeOK, OnPath, walk.rest = << >>, walk.path = cmd.path
    PROVE  Named \in DOMAIN Disk /\ walk.at = TrueInode(Named)
  <1> DEFINE names == walk.path.names
             l == Len(names) - Len(walk.rest)
  <1>1. /\ Reached(names)[l] \in DOMAIN Disk /\ walk.at = TrueInode(Reached(names)[l])
        /\ walk.at.ino = Reached(names)[l] /\ walk.at.ino = Resolve(names)
    BY OnPathIs
  <1> HIDE DEF l
  <1> QED
    BY <1>1 DEF Named

\* Where fsRead has come to at the end of a path: on the way that the links of
\* the command's path lead, and at its end if it is at no link.
LEMMA AtLink ==
    ASSUME Inv, BrowserInv, pc = "follow"
    PROVE  /\ walk.at.ino \in DOMAIN Disk /\ walk.at = TrueInode(walk.at.ino)
           /\ walk.at.ino \in Chain
           /\ walk.at.kind = Disk[walk.at.ino].kind
           /\ walk.at.kind # "lnk" => walk.at.ino = Final
  <1> DEFINE i == walk.at.ino
  <1>1. TypeOK /\ CallInv /\ OnPath /\ PathIsDue(walk.path, walk.link) /\ walk.rest = << >>
    BY DEF Inv, BrowserInv, WalkKeeps
  <1>2. /\ i \in DOMAIN Disk /\ walk.at = TrueInode(i) /\ walk.at.kind = Disk[i].kind
        /\ i = Resolve(walk.path.names)
    BY <1>1, OnPathIs
  <1>3. Named \in Place
    BY <1>1, PathGiven DEF CallInv
  <1>4. i \in Chain
    <2>1. CASE walk.path = cmd.path
      BY <1>2, <1>3, <2>1, ChainIs DEF Named
    <2>2. CASE \E j \in Chain : IsLink(j) /\ walk.path = Disk[j].text
      <3>1. PICK j \in Chain : IsLink(j) /\ walk.path = Disk[j].text
        BY <2>2
      <3>2. j \in Place /\ Hop(j) \in Chain
        BY <1>3, ChainIs
      <3>3. Hop(j) = i
        BY <1>2, <3>1 DEF Hop
      <3> QED
        BY <3>2, <3>3
    <2> QED
      BY <1>1, <2>1, <2>2 DEF PathIsDue
  <1>5. walk.at.kind # "lnk" => i = Final
    BY <1>2, <1>3, <1>4, ChainIs DEF IsLink
  <1> QED
    BY <1>2, <1>4, <1>5

LEMMA OpenKeeps ==
    ASSUME Inv, BrowserInv, Open
    PROVE  BrowserInv'
  <1> USE DEF BrowserInv
  <1>1. /\ pc = "found" /\ pc' = "read" /\ cmd.name = "cat"
        /\ file' = [inode |-> walk.at, offset |-> cmd.offset] /\ walk' = NoWalk
        /\ UNCHANGED <<cmd, root, status, out, scan, rd>>
    BY DEF Open, shell
  <1>2. /\ OnPath /\ walk.rest = << >> /\ ~walk.path.slash /\ ~walk.link /\ out = << >>
        /\ walk.path = cmd.path
    BY <1>1 DEF WalkKeeps, PathIsDue, CatKeeps, Opened
  <1>3. Named \in DOMAIN Disk /\ walk.at = TrueInode(Named)
    BY <1>2, AtNamed DEF Inv
  <1>4. walk'.link = FALSE
    BY <1>1 DEF NoWalk
  <1>5. MainKeeps' /\ WalkKeeps' /\ ScanKeeps'
    BY <1>1, <1>4 DEF MainKeeps, WalkKeeps, ScanKeeps, ScanInv
  <1>6. CatKeeps'
    <2>1. cmd.offset = cmd.offset + Len(out)
      <3>1. cmd.offset \in Nat
        BY CommandAssumption DEF Inv, TypeOK, NoCommand
      <3>2. Len(<< >>) = 0
        BY SMT
      <3> QED
        BY <1>2, <3>1, <3>2, SMT
    <2>2. file'.inode = TrueInode(Named) /\ file'.offset = cmd.offset + Len(out)
      BY <1>1, <1>3, <2>1
    <2>3. out' = << >> /\ out' \in Seq(Nat \X Nat)
      BY <1>1, <1>2 DEF CatKeeps
    <2> QED
      BY <1>1, <1>2, <1>3, <1>4, <2>2, <2>3, SameCommand DEF CatKeeps
  <1>7. ReadKeeps'
    BY <1>1 DEF ReadKeeps
  <1>8. OutIsRight'
    BY <1>1, SameCommand DEF OutIsRight
  <1> QED
    BY <1>5, <1>6, <1>7, <1>8

\* fsRead walks a path, that of the command first.
LEMMA BeginLinkKeeps ==
    ASSUME Inv, BrowserInv, pc \in {"read", "follow"}, NEW path \in Path,
           BeginWalk(path, TRUE), PathIsDue(path, TRUE),
           Disk[Named].kind = "lnk", UNCHANGED <<shell, file, scan, rd>>
    PROVE  BrowserInv'
  <1> USE DEF BrowserInv
  <1>1. pc' = "walk" /\ walk'.link = TRUE /\ UNCHANGED <<cmd, root, status, out, file, scan, rd>>
    BY DEF BeginWalk, shell
  <1>2. WalkKeeps'
    BY <1>1, BeginWalkKeeps
  <1>3. ScanKeeps'
    BY <1>1 DEF ScanKeeps, ScanInv
  <1>4. CatKeeps'
    BY <1>1, SameCommand DEF CatKeeps, Opened
  <1> QED
    BY <1>1, <1>2, <1>3, <1>4, RestKeeps

LEMMA LinkKeeps ==
    ASSUME Inv, BrowserInv, WalkToLink \/ FollowLink
    PROVE  BrowserInv'
  <1>0. CatKeeps /\ TypeOK /\ CallInv
    BY DEF BrowserInv, Inv
  <1>1. CASE WalkToLink
    <2>1. /\ pc = "read" /\ file.inode.kind = "lnk" /\ BeginWalk(cmd.path, TRUE)
          /\ UNCHANGED <<shell, file, scan, rd>>
      BY <1>1 DEF WalkToLink
    <2>2. cmd.path \in Path
      BY <1>0, <2>1, NotNoPath DEF CallInv
    <2>3. Disk[Named].kind = "lnk"
      <3>1. Named \in DOMAIN Disk /\ file.inode = TrueInode(Named)
        BY <1>0, <2>1 DEF CatKeeps, Opened
      <3> QED
        BY <2>1, <3>1, TrueInodeIs
    <2>4. PathIsDue(cmd.path, TRUE)
      BY DEF PathIsDue
    <2> QED
      BY <2>1, <2>2, <2>3, <2>4, BeginLinkKeeps
  <1>2. CASE FollowLink
    <2>1. pc = "follow" /\ walk.at.kind = "lnk"
      BY <1>2 DEF FollowLink
    <2>2. CASE Crash
      BY <2>1, <2>2, CrashKeeps
    <2>3. CASE ~Crash
      <3>1. BeginWalk(walk.at.text, TRUE) /\ UNCHANGED <<shell, file, scan, rd>>
        BY <1>2, <2>3 DEF FollowLink
      <3>2. walk.at.text \in Path
        BY <1>0 DEF TypeOK, Inode
      <3>3. Disk[Named].kind = "lnk"
        BY <1>0, <2>1 DEF CatKeeps, CallInv
      <3>4. PathIsDue(walk.at.text, TRUE)
        <4> DEFINE i == walk.at.ino
        <4>1. i \in DOMAIN Disk /\ walk.at = TrueInode(i) /\ i \in Chain /\ Disk[i].kind = "lnk"
          BY <2>1, AtLink
        <4>2. TrueInode(i).text = Disk[i].text
          BY <4>1, TrueInodeIs
        <4>3. walk.at.text = Disk[i].text
          <5> HIDE DEF i
          <5> QED
            BY <4>1, <4>2
        <4> QED
          BY <4>1, <4>3 DEF PathIsDue, IsLink
      <3> QED
        BY <2>1, <3>1, <3>2, <3>3, <3>4, BeginLinkKeeps
    <2> QED
      BY <2>2, <2>3
  <1> QED
    BY <1>1, <1>2

LEMMA StartReadKeeps ==
    ASSUME Inv, BrowserInv, pc \in {"read", "follow"}, pc' = "copy",
           UNCHANGED <<shell, walk, file, scan>>, file.offset < file.inode.size,
           Final \in DOMAIN Disk, Disk[Final].kind \notin {"lnk", "dir"},
           NEW inode, inode = TrueInode(Final), StartRead(inode, file.offset, ReadSize)
    PROVE  BrowserInv'
  <1> USE DEF BrowserInv
  <1>1. UNCHANGED <<cmd, root, status, out, walk, file, scan>>
    BY DEF shell
  <1>2. MainKeeps' /\ WalkKeeps' /\ ScanKeeps'
    BY <1>1 DEF MainKeeps, WalkKeeps, ScanKeeps, ScanInv
  <1>3. CatKeeps'
    BY <1>1, SameCommand DEF CatKeeps, Opened
  <1>4. ReadKeeps'
    <2>1. ReadSize \in Nat
      BY ReadSizeType DEF Inv
    <2>2. ReadSize' = ReadSize
      BY <1>1 DEF ReadSize
    <2>3. rd'.inode = inode /\ rd'.from = file.offset /\ rd'.len = ReadSize /\ rd'.got = << >>
      BY DEF StartRead
    <2>4. Len(<< >>) = 0 /\ 0 <= ReadSize
      BY <2>1, SMT
    <2> HIDE DEF BrowserInv
    <2> QED
      BY <1>1, <2>2, <2>3, <2>4, SameCommand DEF ReadKeeps
  <1>5. OutIsRight'
    BY <1>1, SameCommand DEF OutIsRight
  <1> QED
    BY <1>2, <1>3, <1>4, <1>5

LEMMA BeginReadKeeps ==
    ASSUME Inv, BrowserInv, ReadOpened \/ ReadTarget
    PROVE  BrowserInv'
  <1>1. CASE ReadOpened
    <2>1. /\ pc = "read" /\ pc' = "copy" /\ file.offset < file.inode.size
          /\ file.inode.kind \notin {"lnk", "dir"}
          /\ StartRead(file.inode, file.offset, ReadSize)
          /\ UNCHANGED <<shell, walk, file, scan>>
      BY <1>1 DEF ReadOpened
    <2>2. Named \in DOMAIN Disk /\ file.inode = TrueInode(Named)
      BY <2>1 DEF BrowserInv, CatKeeps, Opened
    <2>3. Disk[Named].kind = file.inode.kind
      BY <2>2, TrueInodeIs
    <2>4. Final = Named
      <3>1. Named \in Place /\ ~IsLink(Named)
        BY <2>1, <2>2, <2>3 DEF Place, IsLink
      <3> QED
        BY <3>1, ChainIs
    <2> QED
      BY <2>1, <2>2, <2>3, <2>4, StartReadKeeps
  <1>2. CASE ReadTarget
    <2>1. /\ pc = "follow" /\ pc' = "copy" /\ walk.at.kind \notin {"lnk", "dir"}
          /\ StartRead(walk.at, file.offset, ReadSize)
          /\ UNCHANGED <<shell, walk, file, scan>>
      BY <1>2 DEF ReadTarget
    <2>2. file.offset < file.inode.size
      BY <2>1 DEF Inv, CallInv
    <2>3. /\ walk.at.ino = Final /\ Final \in DOMAIN Disk /\ walk.at = TrueInode(Final)
          /\ walk.at.kind = Disk[Final].kind
      BY <2>1, AtLink
    <2> QED
      BY <2>1, <2>2, <2>3, StartReadKeeps
  <1> QED
    BY <1>1, <1>2

LEMMA CopyKeeps ==
    ASSUME Inv, BrowserInv, Copy
    PROVE  BrowserInv'
  <1> USE DEF BrowserInv
  <1>1. pc = "copy" /\ pc' = "copy" /\ ReadStep /\ UNCHANGED <<cmd, root, status, out, walk, file, scan>>
    BY DEF Copy, shell
  <1>2. MainKeeps' /\ WalkKeeps' /\ ScanKeeps'
    BY <1>1 DEF MainKeeps, WalkKeeps, ScanKeeps, ScanInv
  <1>3. CatKeeps'
    BY <1>1, SameCommand DEF CatKeeps, Opened
  <1>4. ReadKeeps'
    <2>1. ReadTypeOK
      BY DEF Inv, TypeOK
    <2>2. rd.got \in Seq(Nat \X Nat) /\ Len(rd.got) \in Nat /\ rd.len \in Nat
      BY <2>1, LenProperties DEF ReadTypeOK
    <2>3. rd'.inode = rd.inode /\ rd'.from = rd.from /\ rd'.len = rd.len
      BY <1>1, <2>1 DEF ReadStep, NextBlock, SkipByte, CopyByte, ReadTypeOK
    <2>4. Len(rd'.got) = Len(rd.got) \/ Len(rd'.got) = Len(rd.got) + 1
      <3>1. CASE NextBlock \/ SkipByte
        BY <2>1, <3>1 DEF NextBlock, SkipByte, ReadTypeOK
      <3>2. CASE CopyByte
        <4>1. PICK x : rd' = [rd EXCEPT !.got = Append(rd.got, x), !.inBlock = rd.inBlock + 1]
          BY <3>2 DEF CopyByte
        <4>2. rd'.got = Append(rd.got, x)
          BY <2>1, <4>1 DEF ReadTypeOK
        <4>3. \A s \in Seq(Nat \X Nat) : Len(Append(s, x)) = Len(s) + 1
          BY SMT
        <4> QED
          BY <2>2, <4>2, <4>3
      <3> QED
        BY <1>1, <3>1, <3>2 DEF ReadStep
    <2>5. Len(rd.got) < rd.len
      BY <1>1 DEF ReadStep, NextBlock, SkipByte, CopyByte, Reading
    <2>6. Len(rd'.got) <= rd.len
      BY <2>2, <2>4, <2>5, SMT
    <2>7. ReadSize' = ReadSize
      BY <1>1 DEF ReadSize
    <2> QED
      BY <1>1, <2>3, <2>6, <2>7, SameCommand DEF ReadKeeps
  <1>5. OutIsRight'
    BY <1>1, SameCommand DEF OutIsRight
  <1> QED
    BY <1>2, <1>3, <1>4, <1>5

\* A file has a block for every byte before its size.
LEMMA BlocksOfFile ==
    ASSUME NEW i \in DOMAIN Disk, Disk[i].kind \notin {"lnk", "dir"},
           NEW n \in Nat, n < Disk[i].size
    PROVE  n \div BlockSize < Len(Content[i])
  <1>1. Disk[i] \in DiskInode /\ Content[i] \in Seq(Nat)
    BY LayoutAssumption
  <1>2. Len(Content[i]) \in Nat
    BY <1>1, LenProperties
  <1>3. Disk[i].size \in Nat /\ Disk[i].kind \in {"reg", "dir", "lnk", "other"}
    BY <1>1, Sizes, SMT DEF DiskInode, Kind
  <1>4. Disk[i].kind = "reg"
    <2>1. CASE Disk[i].kind = "other"
      <3>1. Disk[i].size = 0
        BY <2>1, FileAssumption
      <3> QED
        BY <3>1, SMT
    <2> QED
      BY <1>3, <2>1
  <1>5. Disk[i].size <= Len(Content[i]) * BlockSize
    BY <1>4, FileAssumption
  <1> DEFINE k == Len(Content[i])
             s == Disk[i].size
  <1>6. n < k * BlockSize
    <2>1. k * BlockSize \in Nat
      BY <1>2, Sizes, NatTimes
    <2> DEFINE room == k * BlockSize
    <2> HIDE DEF room, s
    <2> QED
      BY <1>3, <1>5, <2>1, SMT DEF room, s
  <1> HIDE DEF k
  <1> QED
    BY <1>2, <1>6, Sizes, DivBelow DEF k

\* What has been read of the file that the command's links lead to are its bytes.
LEMMA GotIsRight ==
    ASSUME TypeOK, ReadKeeps, ReadsTheFile, pc = "copy", NEW k \in 1 .. Len(rd.got),
           NEW n, n = rd.from + k - 1, n < Disk[Final].size
    PROVE  rd.got[k] = FileByte(Final, n)
  <1>1. /\ Final \in DOMAIN Disk /\ rd.inode = TrueInode(Final)
        /\ Disk[Final].kind \notin {"lnk", "dir"}
    BY DEF ReadKeeps
  <1>2. rd.inode.ino = Final
    BY <1>1, TrueInodeIs
  <1>3. rd.got \in Seq(Nat \X Nat) /\ rd.from \in Nat /\ Len(rd.got) \in Nat
    BY LenProperties DEF TypeOK, ReadTypeOK
  <1>4. n \in Nat
    BY <1>3, SMT
  <1>5. n \div BlockSize < Len(Content[Final])
    BY <1>1, <1>4, BlocksOfFile
  <1>6. k \in DOMAIN rd.got
    BY <1>3, LenProperties
  <1> QED
    BY <1>1, <1>2, <1>5, <1>6 DEF ReadsTheFile

\* What cat has printed together with what it has read are bytes of the file.
LEMMA PrintedIsRight ==
    ASSUME TypeOK, BrowserInv, ReadsTheFile, cmd.name = "cat"
    PROVE  \A k \in 1 .. Len(out \o rd.got) :
               cmd.offset + k <= Disk[Final].size =>
                   (out \o rd.got)[k] = FileByte(Final, cmd.offset + k - 1)
  <1>1. /\ out \in Seq(Nat \X Nat) /\ rd.got \in Seq(Nat \X Nat)
        /\ Len(out) \in Nat /\ Len(rd.got) \in Nat
    BY LenProperties DEF BrowserInv, CatKeeps, TypeOK, ReadTypeOK
  <1>2. /\ Len(out \o rd.got) = Len(out) + Len(rd.got)
        /\ \A k \in 1 .. Len(out) : (out \o rd.got)[k] = out[k]
        /\ \A k \in Len(out) + 1 .. Len(out) + Len(rd.got) :
              (out \o rd.got)[k] = rd.got[k - Len(out)]
    BY <1>1, ConcatProperties
  <1> SUFFICES ASSUME NEW k \in 1 .. Len(out \o rd.got),
                      cmd.offset + k <= Disk[Final].size
               PROVE  (out \o rd.got)[k] = FileByte(Final, cmd.offset + k - 1)
    OBVIOUS
  <1>3. CASE k \in 1 .. Len(out)
    BY <1>2, <1>3 DEF BrowserInv, OutIsRight
  <1>4. CASE k \notin 1 .. Len(out)
    <2> DEFINE a == Len(out)
               b == Len(rd.got)
               s == Disk[Final].size
               j == k - a
               n == cmd.offset + k - 1
    <2>1. k \in a + 1 .. a + b /\ j \in 1 .. b
      <3>1. a \in Nat /\ b \in Nat /\ k \in 1 .. a + b /\ k \notin 1 .. a /\ j = k - a
        BY <1>1, <1>2, <1>4
      <3> HIDE DEF a, b, j
      <3> QED
        BY <3>1, SMT
    <2>2. pc = "copy"
      <3>1. ASSUME rd = NoRead PROVE b = 0
        <4>1. Len(<< >>) = 0
          BY SMT
        <4> QED
          BY <3>1, <4>1 DEF NoRead
      <3>2. b # 0
        BY <2>1, <1>1, SMT
      <3> QED
        BY <3>1, <3>2 DEF BrowserInv, ReadKeeps
    <2>3. /\ rd.from = file.offset /\ file.offset = cmd.offset + a /\ Final \in DOMAIN Disk
          /\ ReadKeeps
      BY <2>2 DEF BrowserInv, ReadKeeps, CatKeeps, Opened
    <2>4. s \in Nat /\ cmd.offset \in Nat
      <3>1. Disk[Final] \in DiskInode
        BY <2>3, LayoutAssumption
      <3>2. s \in Nat
        BY <3>1, Sizes, SMT DEF DiskInode
      <3> QED
        BY <3>2, CommandAssumption DEF TypeOK, NoCommand
    <2>5. n = rd.from + j - 1 /\ n < s
      <3>1. /\ a \in Nat /\ b \in Nat /\ s \in Nat /\ cmd.offset \in Nat
            /\ k \in a + 1 .. a + b /\ cmd.offset + k <= s
            /\ rd.from = cmd.offset + a /\ j = k - a
        BY <1>1, <2>1, <2>3, <2>4
      <3> HIDE DEF a, b, s, j
      <3>2. n = rd.from + j - 1
        BY <3>1, SMT
      <3>3. n < s
        BY <3>1, SMT
      <3> QED
        BY <3>2, <3>3
    <2>6. rd.got[j] = FileByte(Final, n)
      <3> HIDE DEF j, n
      <3> QED
        BY <2>1, <2>2, <2>3, <2>5, GotIsRight
    <2> QED
      BY <1>2, <2>1, <2>6
  <1> QED
    BY <1>3, <1>4

LEMMA ReadReturnsKeeps ==
    ASSUME Inv, BrowserInv, ReadsTheFile, ReadReturns
    PROVE  BrowserInv'
  <1>1. CASE rd.got = << >>
    <2>1. pc = "copy" /\ pc' = "idle" /\ Release /\ out' = out /\ UNCHANGED <<cmd, root>>
      BY <1>1 DEF ReadReturns, Finish
    <2> QED
      BY <2>1, EndKeeps
  <1>2. CASE rd.got # << >>
    <2> USE DEF BrowserInv
    <2>1. /\ pc = "copy" /\ pc' = "read"
          /\ file' = [file EXCEPT !.offset = file.offset + Len(rd.got)]
          /\ out' = out \o rd.got /\ walk' = NoWalk /\ rd' = NoRead
          /\ UNCHANGED <<cmd, root, status, scan>>
      BY <1>2 DEF ReadReturns
    <2>2. walk'.link = FALSE
      BY <2>1 DEF NoWalk
    <2>3. MainKeeps' /\ WalkKeeps' /\ ScanKeeps' /\ ReadKeeps'
      BY <2>1, <2>2 DEF MainKeeps, WalkKeeps, ScanKeeps, ScanInv, ReadKeeps
    <2>4. /\ cmd.name = "cat" /\ ~cmd.path.slash /\ out \in Seq(Nat \X Nat)
          /\ Named \in DOMAIN Disk /\ file.inode = TrueInode(Named)
          /\ file.offset = cmd.offset + Len(out)
      BY <2>1 DEF CatKeeps, Opened
    <2>5. /\ rd.from = file.offset /\ rd.len = ReadSize /\ Len(rd.got) <= rd.len
          /\ file.offset < file.inode.size /\ Disk[Final].kind \notin {"lnk", "dir"}
      BY <2>1 DEF ReadKeeps
    <2>6. rd.got \in Seq(Nat \X Nat) /\ Len(rd.got) \in Nat /\ Len(out) \in Nat
      BY <2>4, LenProperties DEF Inv, TypeOK, ReadTypeOK
    <2>7. /\ out' \in Seq(Nat \X Nat) /\ Len(out') = Len(out) + Len(rd.got)
          /\ \A k \in 1 .. Len(out) : out'[k] = out[k]
          /\ \A k \in Len(out) + 1 .. Len(out) + Len(rd.got) : out'[k] = rd.got[k - Len(out)]
      BY <2>1, <2>4, <2>6, ConcatProperties
    <2>8. /\ file'.inode = file.inode /\ file'.offset = file.offset + Len(rd.got)
          /\ cmd.offset \in Nat /\ file.offset \in Nat /\ file.inode.size \in Nat /\ Chunk \in Nat
      <3>1. cmd.offset \in Nat /\ Chunk \in Nat
        BY CommandAssumption DEF Inv, TypeOK, NoCommand
      <3>2. file.inode \in Inode
        BY DEF Inv, TypeOK
      <3>3. file.inode.size \in Nat
        BY <3>2, Sizes, SMT DEF Inode
      <3> QED
        BY <2>1, <3>1, <3>3 DEF Inv, TypeOK
    <2>9. file'.offset = cmd.offset + Len(out') /\ file'.offset <= file.inode.size
      <3> DEFINE a == Len(out)
                 b == Len(rd.got)
                 s == file.inode.size
                 o == file.offset
      <3>1. /\ a \in Nat /\ b \in Nat /\ s \in Nat /\ o \in Nat /\ cmd.offset \in Nat /\ Chunk \in Nat
            /\ o = cmd.offset + a /\ file'.offset = o + b /\ Len(out') = a + b
            /\ o + Chunk >= s => b <= s - o
            /\ ~(o + Chunk >= s) => b <= Chunk
        BY <2>4, <2>5, <2>6, <2>7, <2>8 DEF ReadSize
      <3> HIDE DEF a, b, s, o
      <3>2. file'.offset = cmd.offset + Len(out')
        <4>1. \A x, y, z \in Nat : (x + y) + z = x + (y + z)
          BY SMT
        <4> QED
          BY <3>1, <4>1
      <3>3. o + b <= s
        BY <3>1, SMTT(30)
      <3> QED
        BY <3>1, <3>2, <3>3 DEF s
    <2>10. Disk[Named].kind # "dir" /\ file.inode.size = Disk[Named].size
      <3>1. ~IsLink(Named) => Final = Named
        BY <2>4, ChainIs DEF Place
      <3> QED
        BY <2>4, <2>5, <3>1, TrueInodeIs DEF IsLink
    <2>11. CatKeeps'
      <3>1. /\ cmd'.name = "cat" /\ ~cmd'.path.slash /\ pc' = "read" /\ walk'.link = FALSE
            /\ Named' \in DOMAIN Disk /\ out' \in Seq(Nat \X Nat)
            /\ file'.offset = cmd'.offset + Len(out')
        BY <2>1, <2>2, <2>4, <2>7, <2>9, SameCommand
      <3>2. /\ file'.inode = TrueInode(Named') /\ file'.offset <= Disk[Named'].size
            /\ Disk[Named'].kind # "dir"
        BY <2>1, <2>4, <2>8, <2>9, <2>10, SameCommand
      <3> QED
        BY <3>1, <3>2 DEF CatKeeps, Opened
    <2>12. OutIsRight'
      <3>1. TypeOK /\ BrowserInv
        BY DEF Inv
      <3>2. \A k \in 1 .. Len(out') : cmd.offset + k <= Disk[Final].size =>
                out'[k] = FileByte(Final, cmd.offset + k - 1)
        BY <2>1, <2>4, <3>1, PrintedIsRight
      <3> QED
        BY <2>1, <3>2, SameCommand DEF OutIsRight
    <2> QED
      BY <2>3, <2>11, <2>12
  <1> QED
    BY <1>1, <1>2

LEMMA CatKeepsAll ==
    ASSUME Inv, BrowserInv, ReadsTheFile, CatStep
    PROVE  BrowserInv'
  <1>1. CASE CatEnds \/ FollowEnds
    <2>1. pc \in {"read", "follow"} /\ pc' = "idle" /\ Release /\ out' = out /\ UNCHANGED <<cmd, root>>
      BY <1>1 DEF CatEnds, FollowEnds, Finish
    <2> QED
      BY <2>1, EndKeeps
  <1> QED
    BY <1>1, OpenKeeps, LinkKeeps, BeginReadKeeps, CopyKeeps, ReadReturnsKeeps DEF CatStep

LEMMA InitBrowserInv == Init => BrowserInv
  <1> SUFFICES ASSUME Init
               PROVE  BrowserInv
    OBVIOUS
  <1>1. /\ pc = "mount" /\ cmd = NoCommand /\ out = << >> /\ walk.link = FALSE
        /\ scan = NoScan /\ rd = NoRead /\ cmd.name # "cat"
    BY DEF Init, ReadInit, NoWalk, NoCommand
  <1>2. MainKeeps /\ WalkKeeps /\ CatKeeps /\ ReadKeeps /\ OutIsRight
    BY <1>1 DEF MainKeeps, WalkKeeps, CatKeeps, Opened, ReadKeeps, OutIsRight
  <1>3. ScanKeeps
    BY <1>1, NoScanKeeps DEF ScanKeeps, ScanInv
  <1> QED
    BY <1>2, <1>3 DEF BrowserInv

LEMMA StepBrowserInv == Inv /\ ReadsTheFile /\ BrowserInv /\ [Next]_vars => BrowserInv'
  <1> SUFFICES ASSUME Inv, ReadsTheFile, BrowserInv, [Next]_vars
               PROVE  BrowserInv'
    OBVIOUS
  <1>1. CASE UNCHANGED vars
    <2>1. UNCHANGED <<pc, cmd, root, walk, file, status, out, scan, rd>>
      BY <1>1 DEF vars
    <2>2. MainKeeps' /\ ScanKeeps' /\ ReadKeeps'
      BY <2>1, SameCommand DEF BrowserInv, MainKeeps, ScanKeeps, ScanInv, ReadKeeps, ReadSize
    <2>3. WalkKeeps'
      BY <2>1, SameCommand DEF BrowserInv, WalkKeeps, OnPath, PathIsDue
    <2>4. CatKeeps' /\ OutIsRight'
      BY <2>1, SameCommand DEF BrowserInv, CatKeeps, Opened, OutIsRight
    <2> QED
      BY <2>2, <2>3, <2>4 DEF BrowserInv
  <1>2. CASE Next
    BY <1>2, MainKeepsAll, PathKeeps, ListKeeps, EndingKeeps, CatKeepsAll DEF Next, ShellStep
  <1> QED
    BY <1>1, <1>2

\* What each function of the shell is called with, and how far it has come, is
\* what the command and the image make due.
THEOREM BrowserInvariant == Spec => []BrowserInv
  <1>1. Spec => []Inv
    BY InitInv, StepInv, PTL DEF Spec
  <1>2. Spec => []ReadsTheFile
    BY ShellReadsRight, PTL
  <1> QED
    BY InitBrowserInv, StepBrowserInv, <1>1, <1>2, PTL DEF Spec

\* findDentryWithName passes over no entry of a directory and over none twice,
\* and what lookup finds is the inode that the directory has under the name.
THEOREM ScanCorrect == Spec => []ScanIsThorough
  <1>1. TypeOK /\ BrowserInv => ScanIsThorough
    BY Thorough DEF TypeOK, BrowserInv, ScanKeeps
  <1> QED
    BY TypeCorrect, BrowserInvariant, <1>1, PTL

\* pathwalk is where the directories of the image lead.
THEOREM WalkCorrect == Spec => []WalkStaysOnPath
  <1>1. BrowserInv => WalkStaysOnPath
    BY DEF BrowserInv, WalkKeeps, OnPath, WalkStaysOnPath
  <1> QED
    BY BrowserInvariant, <1>1, PTL

\* What cat has printed and is about to print are the bytes of the file that
\* its path and the links lead to, in order.
THEOREM PrintsCorrect == Spec => []PrintsInOrder
  <1>1. ASSUME TypeOK, BrowserInv, ReadsTheFile
        PROVE  PrintsInOrder
    <2>1. ASSUME cmd.name = "cat" PROVE DOMAIN (out \o rd.got) = 1 .. Len(out \o rd.got)
      <3>1. out \in Seq(Nat \X Nat) /\ rd.got \in Seq(Nat \X Nat)
        BY <1>1, <2>1 DEF BrowserInv, CatKeeps, TypeOK, ReadTypeOK
      <3> QED
        BY <3>1, ConcatProperties, LenProperties
    <2> QED
      BY <1>1, <2>1, PrintedIsRight DEF PrintsInOrder, Final, Named
  <1>2. TypeOK /\ BrowserInv /\ ReadsTheFile => PrintsInOrder
    BY <1>1
  <1>3. Spec => []ReadsTheFile
    BY ShellReadsRight, PTL
  <1> QED
    BY TypeCorrect, BrowserInvariant, <1>2, <1>3, PTL

-----------------------------------------------------------------------------
(***************************************************************************)
(* The shell implements FileService.  A command ends the program only for  *)
(* one of the reasons named there, and its answer is that of the image.    *)
(***************************************************************************)

\* What is lost on a path that is not sound.
LEMMA UnsoundStops ==
    ASSUME Inv, BrowserInv, pc \in {"walk", "lookup"}, ~SoundPath(walk.path)
    PROVE  MayStop(cmd)
  <1>1. cmd.path # NoPath /\ PathIsDue(walk.path, walk.link)
    BY DEF Inv, CallInv, BrowserInv, WalkKeeps
  <1>2. CASE walk.path = cmd.path
    BY <1>1, <1>2 DEF MayStop
  <1>3. CASE walk.path # cmd.path
    <2>1. walk.link /\ \E j \in Chain : IsLink(j) /\ walk.path = Disk[j].text
      BY <1>1, <1>3 DEF PathIsDue
    <2>2. /\ cmd.name = "cat" /\ IsLink(Named) /\ Named \in Place
      BY <2>1 DEF BrowserInv, CatKeeps, Opened, IsLink, Place
    <2>3. PICK j \in Chain : IsLink(j) /\ walk.path = Disk[j].text
      BY <2>1
    <2>4. PICK n \in DOMAIN Leads(Named) : j = Leads(Named)[n]
      BY <2>2, ChainIs
    <2>5. ~SoundLink(Named)
      BY <2>3, <2>4 DEF SoundLink
    <2> QED
      BY <1>1, <2>2, <2>5 DEF MayStop, Named
  <1> QED
    BY <1>2, <1>3

\* A link that is long or leads nowhere.
LEMMA BrokenLinkStops ==
    ASSUME cmd.name = "cat", cmd.path # NoPath, IsLink(Named), NEW j \in Chain,
           j = 0 \/ (IsLink(j) /\ ~(Disk[j].size <= 60))
    PROVE  MayStop(cmd)
  <1>1. Named \in Place
    BY DEF IsLink, Place
  <1>2. PICK n \in DOMAIN Leads(Named) : j = Leads(Named)[n]
    BY <1>1, ChainIs
  <1>3. ~SoundLink(Named)
    BY <1>2 DEF SoundLink
  <1> QED
    BY <1>3 DEF MayStop, Named

\* When lookup has found nothing, the path leads nowhere.
LEMMA MissingIs ==
    ASSUME Inv, BrowserInv, pc = "lookup", ~Scanning, scan.found = NoEntry
    PROVE  Resolve(walk.path.names) = 0
  <1> DEFINE names == walk.path.names
             l == Len(names) - Len(walk.rest)
             i == walk.at.ino
  <1>1. /\ TypeOK /\ ScanTypeOK /\ OnPath /\ walk.rest # << >>
        /\ scan.dir = walk.at /\ scan.want = Head(walk.rest) /\ ScanInv
    BY DEF Inv, TypeOK, CallInv, BrowserInv, WalkKeeps, ScanKeeps
  <1>2. /\ names \in Seq(Names) /\ l \in 0 .. Len(names) /\ Len(names) \in Nat
        /\ i = Reached(names)[l] /\ i \in DOMAIN Disk /\ walk.at.kind = Disk[i].kind
        /\ l + 1 \in 1 .. Len(names) /\ Head(walk.rest) = names[l + 1]
    BY <1>1, OnPathIs
  <1>3. names[l + 1] \in Names /\ l + 1 \in 0 .. Len(names) /\ (l + 1) - 1 = l
    <2>1. \A k \in 1 .. Len(names) : names[k] \in Names
      BY <1>2, ElementOfSeq
    <2> HIDE DEF l
    <2> QED
      BY <1>2, <2>1, SMT
  <1>4. Child(i, names[l + 1]) = 0
    <2>1. CASE scan.dir.kind = "dir"
      <3>1. scan.want = names[l + 1]
        BY <1>1, <1>2
      <3> HIDE DEF l, i
      <3>2. i = scan.dir.ino
        BY <1>1 DEF i
      <3> QED
        BY <1>1, <1>3, <2>1, <3>1, <3>2, NoneFound
    <2>2. CASE scan.dir.kind # "dir"
      <3>1. Disk[i].kind # "dir"
        BY <1>1, <1>2, <2>2
      <3> HIDE DEF l, i
      <3> QED
        BY <1>3, <3>1, ChildType
    <2> QED
      BY <2>1, <2>2
  <1>5. Reached(names)[l + 1] = 0
    <2> HIDE DEF l
    <2> QED
      BY <1>2, <1>3, <1>4, ReachedIs
  <1> HIDE DEF l
  <1> QED
    BY <1>2, <1>3, <1>5, ReachedNothing

\* A name is looked up in what is no directory only on a path that is not sound.
LEMMA LookupInFileStops ==
    ASSUME Inv, BrowserInv, LookupInFile
    PROVE  MayStop(cmd)
  <1> DEFINE names == walk.path.names
             l == Len(names) - Len(walk.rest)
             i == walk.at.ino
  <1>1. /\ pc = "lookup" /\ Scanning /\ scan.dir.kind # "dir"
    BY DEF LookupInFile
  <1>o. TypeOK /\ OnPath /\ walk.rest # << >>
    BY <1>1 DEF Inv, CallInv, BrowserInv, WalkKeeps
  <1>2. /\ scan.dir = walk.at
        /\ scan = [NoScan EXCEPT !.dir = scan.dir, !.want = scan.want]
    BY <1>1 DEF BrowserInv, ScanKeeps
  <1>3. /\ names \in Seq(Names) /\ l \in 0 .. Len(names) /\ Len(names) \in Nat
        /\ i = Reached(names)[l] /\ i \in DOMAIN Disk
        /\ walk.at.kind = Disk[i].kind /\ l + 1 \in 1 .. Len(names)
    BY <1>o, OnPathIs
  <1>a. walk.at = TrueInode(Reached(names)[l])
    BY <1>o DEF OnPath
  <1>4. Disk[i].size # 0
    <2>1. scan.inBlock = 0 /\ scan.total = 0
      BY <1>2 DEF NoScan
    <2>2. 0 < walk.at.size
      BY <1>1, <1>2, <2>1 DEF Scanning
    <2>3. walk.at.size # 0
      BY <2>2, SMT
    <2>4. walk.at.size = Disk[i].size
      <3>1. TrueInode(i).size = Disk[i].size
        BY <1>3, TrueInodeIs
      <3> HIDE DEF l, i
      <3>2. walk.at = TrueInode(i)
        BY <1>3, <1>a
      <3> QED
        BY <3>1, <3>2
    <2> QED
      BY <2>3, <2>4
  <1>5. l \in 0 .. Len(names) - 1
    <2> HIDE DEF l
    <2> QED
      BY <1>3, SMT
  <1>6. ~SoundPath(walk.path)
    <2>1. Disk[i].kind # "dir"
      BY <1>1, <1>2, <1>3
    <2> HIDE DEF l, i
    <2> QED
      BY <1>3, <1>4, <1>5, <2>1 DEF SoundPath
  <1> QED
    BY <1>1, <1>6, UnsoundStops

LEMMA StopIsDue ==
    ASSUME Inv, BrowserInv, ShellStep, Crash \/ Exit
    PROVE  MayStop(cmd) /\ pc \notin {"mount", "idle", "crashed", "exited"}
  <1>1. CASE Exit
    BY <1>1 DEF Exit, MayStop
  <1>2. CASE Crash /\ WalkStep
    <2>1. CASE LookupInFile
      BY <2>1, LookupInFileStops DEF LookupInFile
    <2>2. CASE NameMissing
      <3>1. pc = "lookup" /\ ~Scanning /\ scan.found = NoEntry
        BY <2>2 DEF NameMissing
      <3>2. walk.link
        BY <1>2, <2>2 DEF NameMissing, Crash, Finish
      <3>3. Resolve(walk.path.names) = 0
        BY <3>1, MissingIs
      <3>4. /\ cmd.path # NoPath /\ PathIsDue(walk.path, walk.link) /\ cmd.name = "cat"
            /\ Named \in DOMAIN Disk /\ IsLink(Named)
        BY <3>1, <3>2 DEF Inv, CallInv, BrowserInv, WalkKeeps, CatKeeps, Opened, IsLink
      <3>5. walk.path # cmd.path
        BY <3>3, <3>4, PlaceType DEF Named
      <3>6. PICK j \in Chain : IsLink(j) /\ walk.path = Disk[j].text
        BY <3>4, <3>5 DEF PathIsDue
      <3>7. Hop(j) = 0
        BY <3>3, <3>6 DEF Hop
      <3>8. 0 \in Chain
        BY <3>4, <3>7, ChainIs DEF Place
      <3> QED
        BY <3>1, <3>4, <3>8, BrokenLinkStops
    <2>3. CASE PathEnds
      <3>1. pc = "walk" /\ walk.path.slash
        BY <1>2, <2>3 DEF PathEnds, Crash
      <3> QED
        BY <3>1, UnsoundStops DEF SoundPath
    <2>4. pc' = "crashed"
      BY <1>2 DEF Crash
    <2>5. CASE Lookup \/ LookupStep \/ NameFound
      BY <2>4, <2>5 DEF Lookup, LookupStep, NameFound
    <2> QED
      BY <1>2, <2>1, <2>2, <2>3, <2>5 DEF WalkStep
  <1>3. CASE Crash /\ CatStep
    <2>1. pc' = "crashed"
      BY <1>3 DEF Crash
    <2>2. FollowLink
      BY <1>3, <2>1 DEF CatStep, Open, CatEnds, ReadOpened, WalkToLink, FollowEnds,
                        ReadTarget, Copy, ReadReturns, Finish, BeginWalk
    <2>3. pc = "follow" /\ walk.at.kind = "lnk" /\ ~(walk.at.size <= 60)
      BY <2>1, <2>2 DEF FollowLink, BeginWalk
    <2> DEFINE j == walk.at.ino
    <2>4. j \in DOMAIN Disk /\ walk.at = TrueInode(j) /\ j \in Chain /\ Disk[j].kind = "lnk"
      BY <2>3, AtLink
    <2>5. IsLink(j) /\ ~(Disk[j].size <= 60)
      <3>1. TrueInode(j).size = Disk[j].size
        BY <2>4, TrueInodeIs
      <3> HIDE DEF j
      <3> QED
        BY <2>3, <2>4, <3>1 DEF IsLink
    <2>6. cmd.path # NoPath /\ cmd.name = "cat" /\ IsLink(Named)
      BY <2>3 DEF Inv, CallInv, BrowserInv, CatKeeps, Opened, IsLink
    <2> QED
      BY <2>3, <2>4, <2>5, <2>6, BrokenLinkStops
  <1>4. CASE Crash /\ ~WalkStep /\ ~CatStep
    <2>1. pc' = "crashed"
      BY <1>4 DEF Crash
    <2>2. NoPathGiven \/ Readlink
      BY <1>4, <2>1 DEF ShellStep, Mount, Exit, Help, WalkThePath, BeginWalk, Stat, ListDirectory,
                        ListFile, ListStep, ListEnds, Finish
    <2>3. CASE NoPathGiven
      BY <2>1, <2>3 DEF NoPathGiven, Finish, MayStop
    <2>4. CASE Readlink
      <3>1. pc = "found" /\ cmd.name = "readlink" /\ ~(walk.at.size <= 60)
        BY <2>1, <2>4 DEF Readlink, Finish
      <3>2. Named \in DOMAIN Disk /\ walk.at = TrueInode(Named) /\ cmd.path # NoPath
        <4>1. OnPath /\ walk.rest = << >> /\ walk.path = cmd.path /\ cmd.path # NoPath
          BY <3>1 DEF BrowserInv, WalkKeeps, PathIsDue, Inv, CallInv
        <4> QED
          BY <4>1, AtNamed DEF Inv
      <3>3. ~(Disk[Named].size <= 60) /\ Disk[Named].size \in Nat
        <4>1. Disk[Named] \in DiskInode
          BY <3>2, LayoutAssumption
        <4>2. Disk[Named].size \in Nat
          BY <4>1, Sizes, SMT DEF DiskInode
        <4> QED
          BY <3>1, <3>2, <4>2, TrueInodeIs
      <3>4. Disk[Named].size > 60 /\ Named # 0
        BY <3>2, <3>3, PlaceType, SMT
      <3> QED
        BY <3>1, <3>2, <3>4 DEF MayStop, Named
    <2> QED
      BY <2>2, <2>3, <2>4
  <1> QED
    BY <1>1, <1>2, <1>3, <1>4

\* What cat has printed when it stops at the end of a file is all of it.
LEMMA AllPrinted ==
    ASSUME Inv, BrowserInv, pc = "read", ~IsLink(Named),
           file.offset >= file.inode.size \/ file.inode.kind = "dir"
    PROVE  out = TrueOutput(cmd, Named)
  <1>1. /\ cmd.name = "cat" /\ Named \in DOMAIN Disk /\ file.inode = TrueInode(Named)
        /\ file.offset = cmd.offset + Len(out) /\ out \in Seq(Nat \X Nat)
        /\ out # << >> => file.offset <= Disk[Named].size /\ Disk[Named].kind # "dir"
    BY DEF BrowserInv, CatKeeps, Opened
  <1>2. /\ file.inode.size = Disk[Named].size /\ file.inode.kind = Disk[Named].kind
    BY <1>1, TrueInodeIs
  <1>3. Final = Named
    BY <1>1, ChainIs DEF Place
  <1> DEFINE a == Len(out)
             s == Disk[Named].size
             kind == Disk[Named].kind
  <1>4. a \in Nat /\ s \in Nat /\ cmd.offset \in Nat /\ kind \in {"reg", "dir", "lnk", "other"}
    <2>1. Disk[Named] \in DiskInode
      BY <1>1, LayoutAssumption
    <2>2. s \in Nat
      BY <2>1, Sizes, SMT DEF DiskInode
    <2>3. kind \in {"reg", "dir", "lnk", "other"}
      BY <2>1 DEF DiskInode, Kind
    <2>4. cmd.offset \in Nat
      BY CommandAssumption DEF Inv, TypeOK, NoCommand
    <2> QED
      BY <1>1, <2>2, <2>3, <2>4, LenProperties
  <1>5. out # << >> => a \in Nat \ {0}
    BY <1>1, <1>4, EmptySeq
  <1>6. CASE kind # "reg"
    <2>1. kind \in {"dir", "other"}
      BY <1>1, <1>4, <1>6 DEF IsLink
    <2>2. out = << >>
      <3>1. CASE kind = "dir"
        BY <1>1, <3>1
      <3>2. CASE kind = "other"
        <4>1. s = 0
          BY <1>1, <3>2, FileAssumption
        <4>2. ASSUME out # << >> PROVE FALSE
          <5>1. a \in Nat \ {0} /\ cmd.offset \in Nat /\ cmd.offset + a <= 0
            BY <1>1, <1>4, <1>5, <4>1, <4>2
          <5> HIDE DEF a
          <5> QED
            BY <5>1, SMT
        <4> QED
          BY <4>2
      <3> QED
        BY <2>1, <3>1, <3>2
    <2>3. TrueOutput(cmd, Named) = << >>
      BY <1>1, <2>1 DEF TrueOutput
    <2> QED
      BY <2>2, <2>3
  <1>7. CASE kind = "reg"
    <2>1. TrueOutput(cmd, Named) = BytesFrom(Named, cmd.offset)
      BY <1>1, <1>7 DEF TrueOutput
    <2>2. cmd.offset + a >= s
      BY <1>1, <1>2, <1>7
    <2>3. 1 .. s - cmd.offset = 1 .. a
      <3>1. CASE out = << >>
        <4>1. a = 0
          <5>1. Len(<< >>) = 0
            BY SMT
          <5> QED
            BY <3>1, <5>1
        <4> HIDE DEF a, s
        <4> QED
          BY <1>4, <2>2, <4>1, SMT
      <3>2. CASE out # << >>
        <4>1. cmd.offset + a <= s
          BY <1>1, <3>2
        <4> HIDE DEF a, s
        <4>2. s - cmd.offset = a
          BY <1>4, <2>2, <4>1, SMT
        <4> QED
          BY <4>2
      <3> QED
        BY <3>1, <3>2
    <2>4. ASSUME NEW k \in 1 .. a PROVE out[k] = FileByte(Named, cmd.offset + k - 1)
      <3>1. cmd.offset + k <= s
        <4>1. out # << >>
          <5>1. \A k1 \in 1 .. Len(<< >>) : FALSE
            BY SMT
          <5> QED
            BY <2>4, <5>1
        <4>2. cmd.offset + a <= s
          BY <1>1, <4>1
        <4> HIDE DEF a, s
        <4> QED
          BY <1>4, <4>2, SMT
      <3> QED
        BY <1>1, <1>3, <3>1 DEF BrowserInv, OutIsRight
    <2>5. out = [k \in 1 .. a |-> FileByte(Named, cmd.offset + k - 1)]
      <3>1. out = [k \in 1 .. a |-> out[k]]
        BY <1>1, LenProperties
      <3> HIDE DEF a
      <3> QED
        BY <2>4, <3>1
    <2> HIDE DEF a, s
    <2> QED
      BY <2>1, <2>3, <2>5 DEF BytesFrom, s
  <1> QED
    BY <1>6, <1>7

\* A read of a file, other than through a link, ends with a byte at least.
LEMMA SomethingRead ==
    ASSUME Inv, BrowserInv, PointersFollowPosition, pc = "copy", ~Reading, ~IsLink(Named)
    PROVE  rd.got # << >>
  <1> SUFFICES ASSUME rd.got = << >>
               PROVE  FALSE
    OBVIOUS
  <1>1. Len(rd.got) = 0
    <2>1. Len(<< >>) = 0
      BY SMT
    <2> QED
      BY <2>1
  <1>2. /\ Named \in DOMAIN Disk /\ file.inode = TrueInode(Named)
        /\ rd.inode = TrueInode(Final) /\ rd.from = file.offset /\ rd.len = ReadSize
        /\ file.offset < file.inode.size
    BY DEF BrowserInv, CatKeeps, Opened, ReadKeeps
  <1>3. Final = Named
    BY <1>2, ChainIs DEF Place
  <1>4. rd.inode = file.inode
    BY <1>2, <1>3
  <1> DEFINE s == file.inode.size
             o == file.offset
             x == IF rd.inBlock < rd.start THEN rd.start ELSE rd.inBlock
  <1>5. s \in 0 .. MaxSize /\ o \in Nat /\ Chunk \in Nat \ {0} /\ o < s
    BY <1>2, CommandAssumption DEF Inv, TypeOK, Inode
  <1>6. rd.loc \in Location(Pointers) /\ x \in Nat
    <2>1. ReadTypeOK
      BY DEF Inv, TypeOK
    <2>2. rd.start \in Nat /\ rd.inBlock \in Nat
      BY <2>1, Sizes, SMT DEF ReadTypeOK
    <2> QED
      BY <2>1, <2>2 DEF ReadTypeOK
  <1>7. ~(rd.loc.ptr < 15)
    <2>1. ReadSize = IF o + Chunk >= s THEN s - o ELSE Chunk
      BY DEF ReadSize
    <2> HIDE DEF s, o
    <2>2. 0 < ReadSize
      BY <1>5, <2>1, Sizes, SMT
    <2>3. 0 < s
      BY <1>5, Sizes, SMT
    <2> QED
      BY <1>1, <1>2, <1>4, <2>2, <2>3 DEF Reading, s
  <1>8. BlockIndex(rd.loc, Pointers) = Capacity(Pointers)
    <2>1. rd.loc.ptr \in 0 .. 15
      BY <1>6, Sizes, LocationFields
    <2>2. ~(rd.loc.ptr <= 12) /\ rd.loc.ptr # 13 /\ rd.loc.ptr # 14
      BY <1>7, <2>1, SMT
    <2> QED
      BY <2>2 DEF BlockIndex
  <1>9. MaxSize + x = o + 0
    BY <1>1, <1>2, <1>8, Sizes DEF PointersFollowPosition
  <1> HIDE DEF s, o, x
  <1> QED
    BY <1>5, <1>6, <1>9, Sizes, SMT

\* The lines that ls prints of a directory.
LEMMA ListedIs ==
    ASSUME Inv, BrowserInv, pc = "list", ~Scanning
    PROVE  /\ Named \in DOMAIN Disk /\ Disk[Named].kind = "dir"
           /\ [k \in DOMAIN scan.listed |-> Line(scan.listed[k].name, scan.listed[k].inode)]
                = TrueOutput(cmd, Named)
  <1>1. /\ ScanTypeOK /\ ScanInv /\ scan.dir = walk.at /\ scan.want = NoName
        /\ scan.dir.kind = "dir" /\ cmd.name = "ls"
        /\ OnPath /\ walk.rest = << >> /\ walk.path = cmd.path
    BY DEF Inv, TypeOK, BrowserInv, ScanKeeps, WalkKeeps, PathIsDue
  <1>2. Named \in DOMAIN Disk /\ walk.at = TrueInode(Named)
    BY <1>1, AtNamed DEF Inv
  <1>3. scan.dir.ino = Named /\ Disk[Named].kind = "dir"
    BY <1>1, <1>2, TrueInodeIs
  <1>4. scan.found = NoEntry
    <2>1. NoName \notin Names
      BY NameAssumption
    <2> QED
      BY <1>1, <2>1, FoundIs
  <1>5. scan.listed = Listing[Named]
    BY <1>1, <1>3, <1>4, NoneFound
  <1>6. \A k \in DOMAIN Listing[Named] : Listing[Named][k].inode \in DOMAIN Disk
    <2>1. Listing[Named] \in Seq(Known)
      <3>1. LiveInBlocks(Named) \in [0 .. Len(Content[Named]) -> Seq(Known)] /\ Content[Named] \in Seq(Nat)
        BY <1>2, <1>3, DirectoryEntries
      <3>2. Len(Content[Named]) \in 0 .. Len(Content[Named])
        <4>1. Len(Content[Named]) \in Nat
          BY <3>1, LenProperties
        <4> QED
          BY <4>1, SMT
      <3> QED
        BY <1>2, <3>1, <3>2 DEF Listing
    <2> QED
      BY <2>1, ElementOfSeq, LenProperties DEF Known
  <1>7. ASSUME NEW name, NEW i \in DOMAIN Disk PROVE Line(name, i) = TrueLine(name, i, cmd.long)
    BY InodeInPlace DEF Line, TrueLine
  <1>8. [k \in DOMAIN scan.listed |-> Line(scan.listed[k].name, scan.listed[k].inode)]
          = [k \in DOMAIN Listing[Named] |->
                TrueLine(Listing[Named][k].name, Listing[Named][k].inode, cmd.long)]
    BY <1>5, <1>6, <1>7
  <1>9. TrueOutput(cmd, Named)
          = [k \in DOMAIN Listing[Named] |->
                TrueLine(Listing[Named][k].name, Listing[Named][k].inode, cmd.long)]
    BY <1>1, <1>3 DEF TrueOutput
  <1> QED
    BY <1>2, <1>3, <1>8, <1>9

LEMMA AnswerIs ==
    ASSUME cmd.name # "help"
    PROVE  /\ cmd.path = NoPath \/ Named = 0 =>
                TrueAnswer(cmd) = [status |-> "failed", out |-> << >>]
           /\ cmd.path # NoPath /\ Named # 0 =>
                TrueAnswer(cmd) = [status |-> "ok", out |-> TrueOutput(cmd, Named)]
  BY DEF TrueAnswer, Named

\* A command that ends where it has walked to.
LEMMA FoundAnswers ==
    ASSUME Inv, BrowserInv, pc = "found", Sure(cmd), NEW answer, NEW printed,
           Finish(answer, printed), Stat \/ Readlink \/ ListFile
    PROVE  [status |-> answer, out |-> printed] = TrueAnswer(cmd)
  <1>1. OnPath /\ walk.rest = << >> /\ walk.path = cmd.path /\ cmd.path # NoPath
    BY DEF BrowserInv, WalkKeeps, PathIsDue, Inv, CallInv
  <1>2. Named \in DOMAIN Disk /\ walk.at = TrueInode(Named)
    BY <1>1, AtNamed DEF Inv
  <1>3. /\ walk.at.ino = Named /\ walk.at.kind = Disk[Named].kind
        /\ walk.at.text = Disk[Named].text
    BY <1>2, TrueInodeIs
  <1>4. status' = answer /\ out' = printed /\ pc' = "idle"
    BY DEF Finish
  <1>5. Disk[Named].kind \in {"reg", "dir", "lnk", "other"} /\ Named # 0
    <2>1. Disk[Named] \in DiskInode
      BY <1>2, LayoutAssumption
    <2> QED
      BY <1>2, <2>1, PlaceType DEF DiskInode, Kind
  <1>6. answer = "ok" /\ printed = TrueOutput(cmd, Named) /\ cmd.name # "help"
    <2>1. CASE Stat
      BY <1>2, <1>4, <2>1 DEF Stat, Finish, TrueOutput
    <2>2. CASE Readlink
      <3>1. Finish("ok", <<ReadlinkText(walk.at)>>) /\ cmd.name = "readlink"
        BY <1>4, <2>2 DEF Readlink, Crash
      <3>2. IsLink(Named)
        BY <1>1, <1>5, <3>1 DEF Sure, Named
      <3>3. printed = <<Disk[Named].text>> /\ answer = "ok"
        BY <1>3, <1>4, <3>1, <3>2 DEF Finish, ReadlinkText, IsLink
      <3> QED
        BY <3>1, <3>3 DEF TrueOutput
    <2>3. CASE ListFile
      <3>1. /\ cmd.name = "ls" /\ Disk[Named].kind # "dir" /\ answer = "ok"
            /\ printed = IF Disk[Named].kind = "reg" THEN <<Line(cmd.path, Named)>> ELSE << >>
        BY <1>3, <1>4, <2>3 DEF ListFile, Finish
      <3>2. Line(cmd.path, Named) = TrueLine(cmd.path, Named, cmd.long)
        BY <1>2, InodeInPlace DEF Line, TrueLine
      <3> QED
        BY <3>1, <3>2 DEF TrueOutput
    <2> QED
      BY <2>1, <2>2, <2>3
  <1> QED
    BY <1>1, <1>5, <1>6, AnswerIs

LEMMA ReplyIsDue ==
    ASSUME Inv, BrowserInv, PointersFollowPosition, ShellStep, pc # "mount",
           NEW answer, NEW printed, Finish(answer, printed), Sure(cmd)
    PROVE  [status |-> answer, out |-> printed] = TrueAnswer(cmd)
  <1>1. status' = answer /\ out' = printed /\ pc' = "idle"
    BY DEF Finish
  <1>2. CASE Help
    BY <1>1, <1>2 DEF Help, Finish, TrueAnswer
  <1>3. CASE NoPathGiven
    <2>1. cmd.path = NoPath /\ cmd.name # "help" /\ answer = "failed" /\ printed = << >>
      BY <1>1, <1>3 DEF NoPathGiven, Finish, Crash
    <2> QED
      BY <2>1, AnswerIs
  <1>4. CASE Stat \/ Readlink \/ ListFile
    BY <1>4, FoundAnswers DEF Stat, Readlink, ListFile
  <1>5. CASE NameMissing
    <2>1. /\ pc = "lookup" /\ ~Scanning /\ scan.found = NoEntry /\ ~walk.link
          /\ answer = "failed" /\ printed = << >>
      BY <1>1, <1>5 DEF NameMissing, Finish, Crash
    <2>2. walk.path = cmd.path /\ cmd.name # "help"
      BY <2>1 DEF BrowserInv, WalkKeeps, PathIsDue, MainKeeps
    <2>3. Named = 0
      BY <2>1, <2>2, MissingIs DEF Named
    <2> QED
      BY <2>1, <2>2, <2>3, AnswerIs
  <1>6. CASE ListEnds
    <2>1. /\ pc = "list" /\ ~Scanning /\ answer = "ok"
          /\ printed = [k \in DOMAIN scan.listed |->
                            Line(scan.listed[k].name, scan.listed[k].inode)]
      BY <1>1, <1>6 DEF ListEnds, Finish
    <2>2. cmd.name # "help" /\ cmd.path # NoPath
      BY <2>1 DEF BrowserInv, MainKeeps
    <2>3. Named # 0 /\ printed = TrueOutput(cmd, Named)
      BY <2>1, ListedIs, PlaceType
    <2> QED
      BY <2>1, <2>2, <2>3, AnswerIs
  <1>7. CASE CatStep
    <2>1. /\ pc \in {"read", "follow", "copy"} /\ cmd.name = "cat" /\ cmd.path # NoPath
          /\ Named \in DOMAIN Disk
      <3>1. pc \in {"read", "follow", "copy"}
        BY <1>1, <1>7 DEF CatStep, Open, CatEnds, ReadOpened, WalkToLink, FollowLink, BeginWalk,
                          FollowEnds, ReadTarget, Copy, ReadReturns, Crash, Finish
      <3> QED
        BY <3>1 DEF Inv, CallInv, BrowserInv, CatKeeps, Opened
    <2>2. ~IsLink(Named)
      BY <2>1 DEF Sure, Named
    <2>3. CatEnds
      <3>1. CASE FollowEnds
        <4>1. walk.link
          BY <3>1 DEF FollowEnds, Inv, CallInv
        <4> QED
          BY <2>1, <2>2, <4>1 DEF BrowserInv, CatKeeps, IsLink
      <3>2. CASE ReadReturns
        <4>1. rd.got # << >>
          BY <2>2, <3>2, SomethingRead DEF ReadReturns
        <4> QED
          BY <1>1, <3>2, <4>1 DEF ReadReturns
      <3> QED
        BY <1>1, <1>7, <3>1, <3>2 DEF CatStep, Open, ReadOpened, WalkToLink, FollowLink,
                                      BeginWalk, ReadTarget, Copy, Crash
    <2>4. answer = "ok" /\ printed = out /\ printed = TrueOutput(cmd, Named)
      BY <1>1, <2>2, <2>3, AllPrinted DEF CatEnds, Finish
    <2> QED
      BY <2>1, <2>4, AnswerIs, PlaceType
  <1> QED
    BY <1>1, <1>2, <1>3, <1>4, <1>5, <1>6, <1>7
    DEF ShellStep, Mount, Exit, WalkThePath, BeginWalk, WalkStep, Lookup, LookupStep, LookupInFile,
        NameFound, PathEnds, ListDirectory, ListStep, Crash

Asked  == IF pc \in {"mount", "idle"} THEN NoCommand ELSE cmd
Shown  == IF pc = "idle" /\ cmd # NoCommand THEN [status |-> status, out |-> out] ELSE NoAnswer
Alive  == pc \notin {"crashed", "exited"}

\* Every step of the shell is one of these.
LEMMA StepKinds ==
    ASSUME Inv, BrowserInv, ShellStep, ~Mount, ~Exit, ~Crash,
           ~ \E answer, printed : Finish(answer, printed)
    PROVE  /\ cmd' = cmd
           /\ pc \notin {"mount", "idle", "crashed", "exited"}
           /\ pc' \notin {"mount", "idle", "crashed", "exited"}
  <1>1. CASE WalkStep
    BY <1>1 DEF WalkStep, Lookup, LookupStep, LookupInFile, NameFound, NameMissing, PathEnds, shell
  <1>2. CASE CatStep
    BY <1>2 DEF CatStep, Open, CatEnds, ReadOpened, WalkToLink, FollowLink, BeginWalk,
                FollowEnds, ReadTarget, Copy, ReadReturns, shell
  <1>3. CASE ~WalkStep /\ ~CatStep
    BY <1>3 DEF ShellStep, Help, NoPathGiven, WalkThePath, BeginWalk, Stat, Readlink,
                ListDirectory, ListFile, ListStep, ListEnds, shell
  <1> QED
    BY <1>1, <1>2, <1>3

LEMMA NotMounted ==
    ASSUME ShellStep, ~Mount
    PROVE  pc \notin {"mount", "idle", "crashed", "exited"}
  <1>1. CASE WalkStep
    BY <1>1 DEF WalkStep, Lookup, LookupStep, LookupInFile, NameFound, NameMissing, PathEnds
  <1>2. CASE CatStep
    BY <1>2 DEF CatStep, Open, CatEnds, ReadOpened, WalkToLink, FollowLink,
                FollowEnds, ReadTarget, Copy, ReadReturns
  <1>3. CASE ~WalkStep /\ ~CatStep
    BY <1>3 DEF ShellStep, Exit, Help, NoPathGiven, WalkThePath, Stat, Readlink,
                ListDirectory, ListFile, ListStep, ListEnds
  <1> QED
    BY <1>1, <1>2, <1>3

LEMMA StepServes ==
    ASSUME Inv, BrowserInv, PointersFollowPosition, [Next]_vars
    PROVE  [Service!Ask \/ Service!Reply \/ Service!Stop]_(Service!serviceVars)
  <1>0. NoCommand \notin Command
    BY CommandAssumption DEF NoCommand
  <1>1. /\ Service!Ask <=> /\ Alive /\ Asked = NoCommand
                           /\ Asked' \in Command /\ Shown' = NoAnswer /\ Alive' = Alive
        /\ Service!Reply <=> /\ Alive /\ Asked # NoCommand
                             /\ Asked' = NoCommand
                             /\ Sure(Asked) => Shown' = TrueAnswer(Asked)
                             /\ Alive' = Alive
        /\ Service!Stop <=> /\ Alive /\ Asked # NoCommand
                            /\ Alive' = FALSE /\ MayStop(Asked)
                            /\ Asked' = Asked /\ Shown' = Shown
        /\ Service!serviceVars = <<Asked, Shown, Alive>>
    BY DEF Service!Ask, Service!Reply, Service!Stop, Service!serviceVars, Asked, Shown, Alive
  <1>2. ASSUME Asked' = Asked, Shown' = Shown, Alive' = Alive
        PROVE  UNCHANGED Service!serviceVars
    BY <1>2 DEF Service!serviceVars, Asked, Shown, Alive
  <1>3. CASE UNCHANGED vars
    BY <1>2, <1>3 DEF vars, Asked, Shown, Alive
  <1>4. CASE ReadLine
    <2>1. pc = "idle" /\ pc' = "execute" /\ cmd' \in Command
      BY <1>4 DEF ReadLine
    <2> QED
      BY <1>1, <2>1 DEF Asked, Shown, Alive
  <1>5. CASE Mount
    <2>1. pc = "mount" /\ pc' = "idle" /\ cmd = NoCommand /\ cmd' = cmd
      BY <1>5 DEF Mount, BrowserInv, MainKeeps
    <2> QED
      BY <1>2, <2>1 DEF Asked, Shown, Alive
  <1>6. ASSUME ShellStep, ~Mount
        PROVE  /\ pc \notin {"mount", "idle", "crashed", "exited"}
               /\ Alive /\ Asked = cmd /\ Asked # NoCommand /\ Shown = NoAnswer
    <2>1. pc \notin {"mount", "idle", "crashed", "exited"}
      BY <1>6, NotMounted
    <2>2. cmd \in Command
      BY <2>1 DEF BrowserInv, MainKeeps
    <2> QED
      BY <1>0, <2>1, <2>2 DEF Asked, Shown, Alive
  <1>7. CASE ShellStep /\ ~Mount /\ (Crash \/ Exit)
    <2>1. MayStop(cmd)
      BY <1>7, StopIsDue
    <2>2. pc' \in {"crashed", "exited"} /\ cmd' = cmd
      BY <1>7 DEF Crash, Exit, shell
    <2>3. Asked' = cmd /\ Shown' = NoAnswer /\ Alive' = FALSE
      BY <2>2 DEF Asked, Shown, Alive
    <2> QED
      BY <1>1, <1>6, <1>7, <2>1, <2>3
  <1>8. CASE ShellStep /\ ~Mount /\ \E answer, printed : Finish(answer, printed)
    <2>1. PICK answer, printed : Finish(answer, printed)
      BY <1>8
    <2>2. pc' = "idle" /\ cmd' = cmd /\ status' = answer /\ out' = printed
      BY <2>1 DEF Finish
    <2>3. cmd # NoCommand
      BY <1>6, <1>8
    <2>4. Asked' = NoCommand /\ Alive' = TRUE /\ Shown' = [status |-> answer, out |-> printed]
      BY <2>2, <2>3 DEF Asked, Shown, Alive
    <2>5. Sure(cmd) => Shown' = TrueAnswer(cmd)
      <3>1. pc # "mount"
        BY <1>6, <1>8
      <3> QED
        BY <1>8, <2>1, <2>4, <3>1, ReplyIsDue
    <2> QED
      BY <1>1, <1>6, <1>8, <2>4, <2>5
  <1>9. CASE ShellStep /\ ~Mount /\ ~Crash /\ ~Exit /\ ~ \E answer, printed : Finish(answer, printed)
    <2>1. cmd' = cmd /\ pc' \notin {"mount", "idle", "crashed", "exited"}
      BY <1>9, StepKinds
    <2>2. Asked' = cmd /\ Shown' = NoAnswer /\ Alive' = TRUE
      BY <2>1 DEF Asked, Shown, Alive
    <2> QED
      BY <1>2, <1>6, <1>9, <2>2
  <1> QED
    BY <1>3, <1>4, <1>5, <1>7, <1>8, <1>9 DEF Next

LEMMA InitServes == Init => Service!ServiceInit
  BY DEF Init, Service!ServiceInit

\* The shell refines FileService: whatever commands came before, it answers as
\* the image determines, and a command ends it only for the reasons of MayStop.
THEOREM BrowserImplements == Spec => ImplementsService
  <1>1. Spec => []Inv
    BY InitInv, StepInv, PTL DEF Spec
  <1>2. Inv /\ BrowserInv /\ PointersFollowPosition /\ [Next]_vars
            => [Service!Ask \/ Service!Reply \/ Service!Stop]_(Service!serviceVars)
    BY StepServes
  <1>3. Spec => []PointersFollowPosition
    BY ShellReadsRight, PTL
  <1> QED
    BY InitServes, BrowserInvariant, <1>1, <1>2, <1>3, PTL
    DEF Spec, ImplementsService, Service!ServiceSpec
=============================================================================
