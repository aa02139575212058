# A TLA+ verification of CENG334-Operating-Systems-HWs

The repository holds four independent programs: an auction server with forked
bidders (`HW1`), an elevator simulator with one thread per person (`hw2`), a
reader for ext2 images behind a small virtual file system (`hw3`) and an
interactive banker's algorithm (`Banker`).  This directory models them, checks
the models with TLC and proves theorems about them with TLAPS.

## 1. Inventory

### The monitor (`hw2/monitor.h`)
*State*: one mutex, any number of condition variables.  *Operations*: lock on
construction, unlock on destruction, `wait`, `wait_time`, `notifyAll`.
*Hard*: a woken thread competes for the mutex with all others, so whatever it
knew before the wait may be stale; `pthread_cond_wait` may return spuriously,
and no wait of this program sits in a loop on its own condition.

### The elevator (`hw2/Elevator.cpp`, `Elevator.hpp`, `DataTypes.hpp`, `main.cpp`)
*State*: the lift's (`moveState`, `currentFloor`, `carriedPeople`,
`carriedWeight`, `totalCarried`), `destQueue`, per floor `exitArray`, `inArray`,
`willExit`, two priority queues and three conditions, and every person's state.
*Operations*: `tryRequest`, `makeRequest`, `getIn`, `getOut` called by
`personMove` in the thread of a person; `moveElevator` with `loadUnload` and
`waitFor` in the lift's thread.  *Interaction*: shared state under the mutex,
broadcasts, and timed waits of the lift during which persons run.
*Correct when*: the counters agree with the persons, capacities are respected,
the lift stops where it has to, those who leave go before those who enter and
high priority before low, and everybody is served.

### The banker (`Banker/banker.cpp`)
*State*: `available` and `fakeAvail` per resource, `max`, `allocation` and
`need` per process, the vector of live processes.  *Operations*: a request,
which `banker()` tries out and `safeState()` judges, and a kill.  *Hard*:
rollback, the scan that starts over, a long history of grants and kills.
*Correct when*: units are conserved and a request is granted exactly if it
leaves a safe state.

### The auction server (`HW1/main_server.cpp`)
*State*: the current bid and winner, a table of client ids by pid, a table of
the statuses of bidders that withdrew, the sockets.  *Operations*: poll, serve
one message of each ready socket, announce, reap.  *Interaction*: a socket pair
per bidder process (bidders are not in the repository).  *Hard*: bids made
against an older price, messages that wait for later rounds, the test for the
end between rounds, bidders that die.  *Correct when*: each message is answered
once, the price rises, the winner is the highest bidder, the auction ends.

### The shell for ext2 images (`hw3`)
Three layers in one thread.  *Shell* (`main.c`): reads a command line, calls the
file layer, prints.  *File layer* (`vfs/fs.c`): `pathwalk`, which takes a path
apart and calls `lookup` for each name; `openfile`, `readfile`, `closefile`,
`statfile`.  *Driver* (`ext2_fs/ext2.c`): reads inodes by way of the group table,
scans directories (`findDentryWithName`, for `lookup` and `readdir`), reads bytes
(`readNBytes`), follows links (`fsRead`), readlink, getattr.
*State*: the mounted super block with its root inode, the open file and the
offset `cat` has reached, the locals of the two loops over blocks.  The image is
never written.
*Hard*: three levels of indirection, walked by two loops with carries of their
own and entered by a third computation; the limits of a read, which three
functions divide between them; entries that are no longer in use; links that are
long, broken, or lead to themselves; which inode's size counts for a link.
*Correct when*: every command prints what the image holds, whatever the size of
its files and directories, and ends.

Left out for good: printing, parsing of input, Makefiles, sample input, and those
message constructors of `HW1` that only fill in messages for the log.

## 2. Modules

| Module | What it is |
|---|---|
| `Monitor` | mutex, conditions and the position of every thread (`owner`, `at`), as operators on one action each |
| `Elevator` | all monitor methods of the elevator over `Monitor` |
| `ElevatorService` | what persons may expect: trips, one car, no threads |
| `MCElevator` | small buildings for TLC |
| `Sums` | theorems about sums over finite sets, for the weights and the units |
| `Elevator_proofs`, `ElevatorRoute_proofs` | theorems about `Elevator`: types and counters; the route, those who wait, the service |
| `Banker` | `main`'s loop, `banker()` and the scan of `safeState()` step by step |
| `BankerService` | a request is decided in one step by the definition of safety |
| `MCBanker`, `Banker_proofs` | input files for TLC; theorems |
| `AuctionServer`, `MCAuctionServer` | server, sockets and bidders; small auctions |
| `AuctionServer_proofs`, `AuctionAnswers_proofs` | theorems about the auction |
| `BlockMap` | where block *b* of a file is, and which location comes next: pure operators |
| `Ext2Image` | what can be read of an image at each address, and how an inode is found and its pointers are followed |
| `FileTree` | the reference: the files, directories and paths that the image holds, without walks and loops |
| `FileRead` | `readNBytes`, byte by byte |
| `DirScan` | `findDentryWithName`, entry by entry |
| `FileBrowser` | shell, file layer and the rest of the driver, over the two loops |
| `FileService` | each command is answered, as a function of the image |
| `MCFileBrowser` | an image and 152 commands for TLC |
| `Ext2_proofs`, `FileBrowser_proofs` | theorems about block numbers, `readNBytes` and the scan; about the shell and its service |

`Elevator` INSTANCEs `Monitor`.  Those of the file system extend one another:
`BlockMap`, `Ext2Image`, `FileTree`, then `FileRead` and `DirScan`, each with one
variable of its own, and `FileBrowser` over both.  `Elevator`, `Banker` and
`FileBrowser` each define `ImplementsService` as their refinement of the abstract
module.

**How actions correspond to code.**  A thread that owns the mutex runs alone, so
one action of `Elevator` is the code from one dispatch of `personMove` (or one
branching point of `moveElevator`) to the next, or to the wait in which it ends.
`makeRequest` has three branches and so three actions; when it calls `getIn` at
once the thread keeps the mutex and `getIn` is its next action.  `getIn` has
three outcomes (`MissDirection`, `Board`, `MissCapacity`).  `getOut` away from
the destination returns at once and is called again: `SpinInside`.  In the lift's
thread, `liftPc` names the timed wait it is in or the place it goes on at.
Person ids of the two vectors of priority queues are kept as one set `queued`,
since only membership per floor and priority is ever read.  `wannaEnter` and
`wannaLeave` are written and never read, and are left out.

In `Banker` every vector is indexed by position, as in the code; a request keeps
the order of its names in `request.names`, which only `GrantsWhatIsNamed` reads,
because the code computes `resIndex` and does not use it.  In `AuctionServer` a
bidder stands for its process, its socket and its pid.

In `FileBrowser`, `pc` is the place in the code.  A command is `ReadLine`, then the
walk (`Lookup`, one `LookupStep` for each entry, `NameFound` or `NameMissing`,
`PathEnds`), then what the command does with the inode it has reached.  For `cat`
this is a loop of `readfile` calls (`ReadOpened`, one `Copy` step for each byte or
block, `ReadReturns`); for a link each of them walks the path again and follows the
links (`WalkToLink`, `FollowLink`, `ReadTarget`).  The variables `rd` and `scan` are
the locals of the two loops.  A path is the sequence of names that `parseString`
finds, with a flag for a slash at the end; "." and "/" are the empty sequence, and
`NoPath` is a null pointer.  An inode holds its kind, size and pointers; for a short
link also the path that its pointers spell.  A byte is the pair of its block and
its place in it, so that a wrong block always shows.  An entry has its length in
bytes, as `rec_len`, because the scan ends by adding the lengths up.

Where the code reads a null pointer, memory it never wrote, or the bytes of a file
as directory entries, the model goes to `crashed`: anything may follow, and
`FileService` says for which commands this may happen (`MayStop`).

Operators under a comment that begins with `Mutation` are faulty variants of the
definition that follows them.  No specification uses them; each shows that a
property notices the fault (`mutants` in `PROJECT.json`).

**Undefined behaviour.**  With an empty `destQueue` the lift dereferences
`max_element` of an empty vector.  The Makefile neither optimises nor checks:
what is read is the slot of the last floor erased, the floor the lift is at, so
`ArriveUp` and `ArriveDown` leave it there.  The race of `main`, which appends to
the vector of persons while earlier persons run, is not modelled.

## 3. Runs

| Run | Bounds | What it shows |
|---|---|---|
| `elevator_prompt` | 3 persons with any of the 12 trips between 3 floors, capacities 2 persons and weight 3, a long travel time; 859 thousand states | `QueueIsAhead`, `RidersWillStop`, `HighCallsKept`, `NoSpin`, `HighFirst`, `KeepsDirection`, refinement of `ElevatorService` |
| `elevator_hasty` | 3 persons, 4 crossing trips, timers of any length, spurious wakeups; 275 thousand states | `TypeOK`, the counters, weights, requests, capacities, the order of the queue, where waiters wait |
| `elevator_live` | 3 persons, 4 trips, fair; 72 thousand states | riders get out; without low priority persons all threads return |
| `elevator_low_stranded` | 3 persons, of which two leave floor 0 with high priority and one floor 1 with low, as any of them, fair; 26 thousand states | *violation* of `AllServed` |
| `elevator_nowhere` | 2 persons, all trips | *violation* of `TravelsSomewhere` |
| `banker_decides` | 3 processes, 2 resources, 4 input files, amounts 0..2; 245 thousand states | conservation, the scan, safety, refinement of `BankerService`, every call returns |
| `banker_names` | the same, names in any order | *violation* of `GrantsWhatIsNamed` |
| `auction_served` | 2 bidders, 2 bids of 3 amounts, bidders may be killed; 93 thousand states | answers, prices, ids, winner, end, liveness |
| `auction_starting_bid` | 2 bidders, bids 1 and 3 | *violation* of `StartingBidIsAccepted` |
| `auction_status` | 2 bidders, exit codes 0 and 1 | *violation* of `HonestStatusMatches` |
| `browser_commands` | 152 commands in any order on an image of 19 inodes, blocks of 8 bytes, reads of 12 bytes; 8 thousand states | `TypeOK`, the pointers, the bytes read, the scan, the walk, the order of the output, refinement of `FileService`, every command ends |
| `browser_link` | two commands on the same image | *violation* of `CatShowsTheFile` |

*Why the bounds are enough.*  Three floors give the lift a floor to pass and one
on either side of it; three persons fill a car of two and leave one out; a
person to floor 0 weighs 2, so either limit can be the one that refuses.
`CrossingTrips` makes travellers of both directions and priorities meet at floor
1.  Two resources and three processes are the least in which one process can
finish and the others still be stuck.  Bids of 0, 3 and 5 at a starting bid of 1
and an increment of 2 give each of the four answers, also when the price changed
between the bid and its reading.  Blocks of 8 bytes hold two
pointers, the least with which each level carries: a file has at most 12 + 2 + 4 + 8
blocks, and the image has a file and a directory of all 26, as well as files that
end within each level, at and before the end of a block, and empty ones.  `cat`
starts at offsets on and around every boundary between levels; its reads of 12 bytes
start and end within blocks and across them (the code's 1024 divide every block size
evenly, but an offset may be anything).  Four groups of five inodes make paths cross
groups.  Directories hold unused entries in front of, behind and under the name of
entries in use, blocks without any, and in one case lack a block.  Links are short,
long, broken, chained, circular, to directories, and longer or shorter than their
targets.  As commands leave nothing behind but the mounted root, the states of all
sequences of commands are few.  Symmetry of persons is used in the two safety
runs of the elevator only; `Init` and `Next` treat all persons alike.

*Long timers.*  The assignment promises that the doors stay open "long enough to
let all the Person threads enter/leave the elevator".  `LongTimers` is the set of
timed waits for which this is assumed: such a wait ends only when no woken person
still waits for the mutex.  What the code needs is that the *travel* time is long,
because everybody called, at the doors or when the lift sets off, then has run
before the floor changes.  `elevator_prompt` and the theorems on the route assume it
of the travel time alone (an input of the program, against threads that only have to
lock a mutex), `elevator_live` of all three timers, to keep its states few, `elevator_hasty`
and the other theorems of none.  With a short travel time the lift may leave before
a woken person ran, which may then board on another floor, or spin: long doors alone
do not give the refinement of `ElevatorService`.  So `NoSpin`, `RidersDelivered`,
`HighCallsKept` and `ImplementsService` are about who is woken where and in which order,
not about persons who are woken in time and run too late.

## 4. Findings

1. `elevator_low_stranded` - `getOut` wakes only the high priority persons of the
   floor (`Elevator.cpp:276`).  A low priority person whose call was answered while
   others got out is never called again if the lift goes on with a rider; it idles
   elsewhere for ever.  In the counterexample the trips are high priority 0 to 1 and
   0 to 2 and low priority 1 to 2.  `AllServed` assumes `[]TravelsSomewhere`, which
   keeps the behaviours of the next finding out of this one.
2. `elevator_nowhere` - a request at the lift's own floor while somebody has
   still to get out sets a direction without a destination (`Elevator.cpp:195`),
   and the lift reads the maximum of an empty vector (443, 469).  With a low
   priority request it does so for ever, and nobody else is served.
3. `banker_names` - `resVec[i]` where `resVec[resIndex]` was meant
   (`banker.cpp:183, 201, 212`): requests are matched by position, not by name.
4. `auction_starting_bid` - a first bid of the starting bid is refused
   (`main_server.cpp:149`).
5. `auction_status` - the raw wait status is compared with the exit code
   (`main_server.cpp:240`), so honest non-zero exits are reported as mismatches.
6. `browser_link` - `readfile` limits a read by the size of the inode it opened
   (`fs.c:45`), and for a link that is the length of its text, while `fsRead` reads
   the file behind the link (`ext2.c:773`).  `cat` of a link of 17 bytes prints the
   first 17 bytes of its file.

Seen without a run of its own, in the ext2 reader: with blocks of 4096 bytes the
group table is looked for in block 0, since `ceil` is given an integer quotient
(`ext2.c:58`; page 9 of the assignment rounds up); a link of more than 60 bytes and
a broken link end in a null pointer (`ext2.c:595`, `781`); a path with a slash at
its end is read past its end (`fs.c:183`); the text of a link loses its first
character whether or not it is a slash (`fs.c:65`), so relative links lead
elsewhere; `lookup` reads a file's bytes as entries if the path goes through a file;
`readlink` of a file that is no link prints its pointers; a hole in a file is read
as block 0; an entry is allocated by the low byte of its length (`ext2.c:280`); a
negative offset is divided as an unsigned number (`ext2.c:368`).

Seen without a run of its own, in the auction: a bidder that dies before it withdraws leaves the
server polling for ever, because `main` keeps the bidder's end of the socket pair
open and `read` never returns 0.  `AuctionEnds` makes exactly this exception.

## 5. Fairness

`Elevator`: weak fairness of the owner's next step; strong fairness of getting
the mutex, since it is free only now and then, and of the end of a timed wait.
This is what a scheduler that runs every thread and a mutex that starves nobody
give; POSIX asks less of a mutex, but a default Linux mutex with timed waits
between the lift's steps gives it.  `Banker`: `banker()` runs to its end; the user
need not type.  `AuctionServer`: the server runs, and every live bidder connects,
reads what it is sent and at last withdraws; it need not bid.  `FileBrowser`: the one
thread of the program runs on (`WF` of `ShellStep`); the user need not type.
`EveryCommandEnds` excepts only a `cat` of links that lead back to themselves.

## 6. Theorems

Every invariant, action property and refinement that a passing run checks is also
proved: for every number of floors, persons, processes, resources, bidders and bids,
any timing (but where `LongTravel` is named), and every well-formed image.  They
are theorems of `Spec`, the specification that TLC runs, some with fairness added; those
about `readNBytes` are of `ReadSpec`, which the shell implements (`ShellReads`).  The
arguments, component by component:

### Sums (`Sums`)

`MapThenSumSet` of the community modules takes the elements out of a set in an order
of its own, by a recursive function on subsets.  That this function exists and is
unique is proved by taking a smallest subset at which it would fail
(`SmallestSubset`), and `SumWithout` - a sum is any one element plus the rest - in the
same way.  With it sums can be changed by an element (`SumWith`), compared
(`SumOfSubset`) and renamed by a bijection (`SumRenamed`).

### Elevator (`Elevator_proofs`, `ElevatorRoute_proofs`)

* `TypeCorrect` - `TypeOK` is inductive.  The monitor part is proved per operation of
  `Monitor`; `EnqueuedType` shows that insertion keeps `destQueue` a sequence of floors.
* `CountersCorrect` - `CountersMatchPersons` is inductive relative to `TypeOK`:
  only `Board` and `GetOut` change the car or who is in it (`OnlyBoardAndGetOut`),
  and each changes one cardinality by one (`CountWith`, `CountWithout`).
* `CapacityCorrect` - from the two above: `getIn` tests `carriedPeople`, which is
  the number of riders whenever it is read.
* `RequestsCorrect` - `RequestsMatchPersons` is inductive; its last conjunct, that
  an open request outside the queues belongs to the owner of the mutex, is what
  makes it so (`QueuedStep`).
* `ItineraryCorrect` - an insertion leaves a sorted queue sorted
  (`EnqueuedOrdered`: the floors before the new one are a first part of the queue,
  which `BeforeIsPrefix` proves with the cardinality the model inserts by), and the
  steps that change the direction find the queue empty, or all carried.
* `WeightCorrect` - the property sums over the persons with a conditional weight;
  `WeightForms` turns this into the sum over the riders, to which a step adds one
  person or from which it takes any one out (`WeightStep`).
* `OwnerCorrect` - the owner of the mutex is the one thread inside: a broadcast
  reaches all who wait, and nobody else moves (`Bystanders`).
* `WaitersCorrect` - nobody waits for a broadcast that does not come, as far as its
  kind goes.  For `missSleep` this needs that a car too full has somebody in it,
  which follows from the count, the weights and `TripsAssumption`
  (`FullMeansRiders`), and that the last rider to leave wakes all who wait there.
* With `LongTravel` (a long travel time and no spurious wakeups, section 3):
  `AheadCorrect`, `RidersStopCorrect`, `HighCallsCorrect`, `NoSpinCorrect`, and the
  action properties `DirectionCorrect` and `HighFirstCorrect`.  All follow from
  `LongCorrect`, whose invariant says who may have been called: a requester only at
  its floor, when nobody gets out there, and a low one only when no high one is queued
  there (`RequestersInv`); exactly the riders who have arrived (`RidersInv`); the high
  priority persons at the lift's floor, unless riders get out first (`HighsInv`);
  and nobody when the lift is about to move (`LiftInv`).  So no rider and no high
  priority person is left behind, the next floor of the queue is at its head or not
  in it (`ArrivesInOrder`), and the queue lies ahead again.  `RidersWillStop` alone is
  not inductive: it breaks at the first rider called where it does not get out.
* `ElevatorImplements` - also with `LongTravel`, the refinement of `ElevatorService`.
  `Board` is `Enters`: those who leave have left because `willExit` is exact, and the
  limits hold because the counters and the weight are (`BoardServes`).  `GetOut` is
  `Leaves`.  The lift's arrival is `Moves` or leaves it where it is, and takes nobody
  past its destination, which is `LongInv` again (`ArriveServes`).  All other steps
  are hidden (`OthersHidden`).

### Banker (`Banker_proofs`)

* `TypeCorrect` - no amount becomes negative: what `Pretend` subtracts was tested by
  `Affordable`, and `backup` has the types it restores.  `NeedCorrect` -
  `alloc + need = max` in every state; the strengthening says that during the scan the
  backup also adds up to the maximum.
* `BankerInvariant` - `BankerInv`, which TLC also checked as an invariant on the instance of
  `banker_decides`.  Its parts: nobody is listed twice (`ListedOnce`); during a scan
  `fakeAvail`, `alloc` and `need` are those of the backup changed by the request
  (`TriedOut`); the scan's `work` is what is free plus what the finished processes
  hold, those it has passed over since it last started over cannot finish with it, and
  the finished ones are safe among themselves (`ScanInv`); and from a safe input the
  state before the request was safe (`SafeBefore`).
  Safety is the existence of an order of the processes, as `BankerService` defines it.
  Of this definition the proof needs three facts, none of them about the scan:
  a process whose need is within what is released can be added (`SafeWith`), one that
  gives back what it holds can be taken out (`SafeWithout`, for kills), and an order of
  more processes than have finished has a next one that can (`SafeHasNext`).
* `StaysSafeCorrect` and `WorkCorrect` follow from it, the latter by renaming
  positions into processes (`SumOfPositions`).
* `UnitsCorrect` - what is free, in `fakeAvail` during a scan and in `available`
  otherwise, and what the live processes hold have a constant sum: `Pretend`, `Reject`
  and `Kill` move units from one side to the other.
* `BankerImplements` - the request is decided in the step in which `safeState` returns.
  A grant is right because all finished processes are safe (`GrantDecides`).  A
  rejection is right because of `RejectIsUnsafe`: were there an order of all processes,
  its first one that has not finished could finish with the scan's `work`; but the scan
  has passed over it since it last started over.  So starting over is what makes
  the verdict final.

### Auction (`AuctionServer_proofs`, `AuctionAnswers_proofs`)

* `Inv` says of the tables that no bidder has two rows (`TablesInv`), so an injection
  into `Bidder` bounds their length and the last row means that all have one; of each
  bidder what it can have under way (`AskedInv`: one connect, first; the withdrawal
  last), what it has been told, read or not (`ToldInv`: its id first and once), and
  that nothing follows the announcement (`EndInv`).  None of these is inductive
  alone.  `TypeCorrect`, `IdsCorrect` and `EndCorrect` follow from `Inv`.
* `PriceRises` and `WinnerCorrect` - `PriceInv` adds that no accepted bid is above
  `current_bid` and that whoever has bid is registered, so that later connects do not
  change the winner's id.
* `AnswersCorrect` - requests under way and answers given are counted; a message read
  and the answer sent in the same step keep the sum (`CountAppend`, `CountTail`).

### Block numbers, reads and scans (`Ext2_proofs`)

* `LocatedIsRight` and `AdvancedIsNext` - for any number *N* of pointers in a block:
  the location computed for block *b* is within the tables and has the number *b* in
  `BlockIndex`, and the carries lead from each location to one whose number is greater
  by one.  The arithmetic is proved by the division lemmas `DivMod` and `DivBelow`,
  case by case over the levels.
* `ReadTypeCorrect`, `PointersCorrect`, `ReadsRight` - for any image, inode, offset and
  length.  `PointersFollowPosition` is inductive relative to the types, by
  `LocatedIsRight` when a read starts and `AdvancedIsNext` at the end of a block.
  `ReadsTheFile` follows from it: the pointers name the block of the next byte, and
  `LayoutAssumption` says what that block is.
* The scan.  The reference (`FileTree`) lists a directory with functions that are
  recursive over entries and over blocks; that they exist and are unique comes from
  the least number at which they would not (`StepsHaveFunction`, `StepsDetermine`).
  `ScanInv` says of a scan of a directory that `total` is where it stands (`Stands`)
  and that what it has found or listed is due to the entries in use behind it (`Seen`).
  At the end of a block this needs `AdvancedIsNext`; at a zero pointer, that no block
  of the directory is behind it (`PointersInOrder`, `DirectoryShape`); and the end of
  the scan, that the lengths of the entries of a block add up to it.  Then what was
  found is the child of that name (`FoundIs`), and if nothing was, all has been listed
  and no entry has the name (`NoneFound`).  An inode is where `readInode` looks for it
  by `PlaceAssumption` (`InodeInPlace`).

### Shell (`FileBrowser_proofs`)

* `TypeCorrect` and `ShellReads` - by the invariant `Inv`, which adds to the types
  what callers have tested (`CallInv`): `lookup` gets a name, something is left to read
  while links are followed, and what walks has a path.  Each step of the shell is then
  a step of `ReadNext` or leaves `rd` alone, so `Spec => ReadSpec`, and
  `ShellReadsRight` carries the theorems about `readNBytes` over to all sequences of
  commands.
* `BrowserInvariant` - `BrowserInv` (checked by TLC before it was proved) says at each
  place in the code what the functions have been called with, in terms of the command
  and the image: the mounted root (`MainKeeps`); the names left of the path, the inode
  the others lead to, and whose path it is (`WalkKeeps`); the scan of that inode
  (`ScanKeeps`); the open file and the offset `cat` has reached (`CatKeeps`); the
  arguments of the read (`ReadKeeps`); and the bytes printed (`OutIsRight`).  A `cat` of
  a link walks again for every read, so the walk's path is that of the command or of a
  link among those it leads to.  `Target` follows links as often as there are inodes:
  `LinksComeRound` shows, by counting, that links that have not ended by then have only
  led to inodes they led to before.
* `ScanCorrect`, `WalkCorrect` and `PrintsCorrect` are read off `BrowserInv` and
  `ReadsTheFile`.
* `BrowserImplements` - the refinement of `FileService`.  `ReplyIsDue`: a command that
  returns has listed, found or printed what the image determines; for `cat` that needs
  that a read before the end of the file returns something (`SomethingRead`) and that
  nothing is left when one does not (`AllPrinted`).  `StopIsDue`: each way to `crashed`
  is one of the reasons in `MayStop` (a path through a file, a slash at the end, a long
  or broken link).

### Assumptions

The theorems rest on the assumptions on the constants, and TLC evaluates every one of
them in the runs.

* `Elevator`: `PersonAssumption`, `BuildingAssumption`, `TripsAssumption` (a trip goes
  to another floor and its person fits into the empty car) and `TimingAssumption`.
  `LongTravel` is a hypothesis of the theorems that name it; both long and short travel
  times have runs.
* `Banker`: `SizeAssumption`, `InputAssumption` (no process holds more than its
  maximum), `RequestAssumption` (requested amounts are not negative).
* `AuctionServer`: `AuctionAssumption`.
* Shell: `NameAssumption`, `SizeAssumption` and `ImageAssumption` give what is found in
  the image the types that the structures declare; `CommandAssumption` makes offsets
  natural.  The other four say that the image is well-formed, as `mke2fs` leaves it.
  `LayoutAssumption`: each file has its blocks in order behind its pointers.
  `PlaceAssumption`: inodes are in the inode table of their group, and the group table
  starts where the super block ends.  The latter needs the super block to end with a
  block, which holds for blocks of 1024 and 2048 bytes and not for 4096, where the
  driver looks in the wrong block (section 4, `ext2.c:58`): the theorems about the
  shell do not apply to such images.  `DirectoryAssumption`: the blocks of a directory
  are full of entries, without holes, and entries in use name inodes in use; its size
  may be larger than its blocks only if these end at a pointer of the inode, since only
  there the scan looks for a zero.  `FileAssumption`: a file has the blocks its size
  needs, and devices have no size.

## 7. Only model-checked

Liveness: `RidersDelivered`, `HighsServed`, `EveryRequestIsAnswered`, `BidsAreAnswered`,
`AuctionEnds` and `EveryCommandEnds`.  They need fairness, and with it `ENABLED`, which
the installed provers do not handle.  The disagreements of section 4 are shown by TLC's
counterexamples.

## 8. Not modelled

`llSeek`, which nothing calls, and `f_pos`, which `fsRead` sets and nothing reads;
`statfs` and the statistics at the start; memory that is allocated, freed or lost;
negative offsets; zero bytes, at which `printf` stops; inodes of another size than
`struct ext2_inode` (128 bytes), which would be read past the structure; images
that are damaged.  In the auction `fork`, `exec` and the messages for the log; in
the elevator the race on the vector of persons; in the banker the parsing.

## 9. Plan

1. *Hazards without a property.*  The race of `main` on the vector of persons and the
   unknown name of `getProcessIndexByName` need the model to hold what the code reads
   out of bounds.
2. *What liveness rests on.*  The ranking arguments behind the liveness properties have
   safety parts that can be stated as action properties and proved: the scan of
   `safeState` finishes a process or moves on, a directory scan moves on by an entry or
   a pointer, and a read of `cat` advances its offset.
3. *`BankerNames`.*  That requests whose names are in the order of the input file are
   granted as named, which is the condition under which the fault of `resIndex` is
   harmless.
