---------------------------- MODULE Banker_proofs ----------------------------
(***************************************************************************)
(* Theorems about Banker, for every input file and every request.          *)
(***************************************************************************)
EXTENDS Banker, Sums, SequenceTheorems, TLAPS

LEMMA PlusMinusType ==
    ASSUME NEW u \in [Resource -> Nat], NEW v \in [Resource -> Nat]
    PROVE  /\ B!Plus(u, v) \in [Resource -> Nat]
           /\ B!Within(v, u) => B!Minus(u, v) \in [Resource -> Nat]
BY DEF B!Plus, B!Minus, B!Within

LEMMA InitType == Init => TypeOK
<1> SUFFICES ASSUME Init PROVE TypeOK  OBVIOUS
<1>1. /\ input \in Inputs
      /\ input.available \in [Resource -> Nat]
      /\ input.alloc \in [Process -> [Resource -> Nat]]
      /\ input.max \in [Process -> [Resource -> Nat]]
      /\ \A p \in Process, r \in Resource : input.alloc[p][r] <= input.max[p][r]
  BY InputAssumption DEF Init
<1>2. need \in [Process -> [Resource -> Nat]]
  <2>1. ASSUME NEW p \in Process
        PROVE  B!Minus(input.max[p], input.alloc[p]) \in [Resource -> Nat]
    BY <1>1, PlusMinusType DEF B!Within
  <2> QED  BY <2>1 DEF Init
<1>3. procVec \in Seq(Process)
  BY SizeAssumption DEF Init, Process
<1>4. Zero \in [Resource -> Nat]  BY DEF Zero
<1> QED  BY <1>1, <1>2, <1>3, <1>4 DEF Init, TypeOK

\* The parts of banker()'s state that belong to the call being decided.
LEMMA RequestFacts ==
    ASSUME TypeOK, pc \in {"banker", "scan"}
    PROVE  /\ request.proc \in Process
           /\ request.amounts \in [Resource -> Nat]
           /\ alloc[request.proc] \in [Resource -> Nat]
           /\ need[request.proc] \in [Resource -> Nat]
<1>1. request \in [proc: Range(procVec), amounts: [Resource -> Amounts], names: NameOrders]
  BY DEF TypeOK
<1>2. Range(procVec) \subseteq Process  BY DEF TypeOK, Range
<1>3. Amounts \subseteq Nat  BY RequestAssumption
<1>4. request.proc \in Process /\ request.amounts \in [Resource -> Nat]
  BY <1>1, <1>2, <1>3
<1> QED  BY <1>4 DEF TypeOK

LEMMA KillType ==
    ASSUME TypeOK, NEW n \in Process, Kill(n)
    PROVE  TypeOK'
<1>1. DOMAIN procVec = 1 .. Len(procVec) /\ Len(procVec) \in Nat  BY DEF TypeOK
<1>2. procVec' \in Seq(Process)
  <2>1. n \in 1 .. Len(procVec)  BY <1>1 DEF Kill
  <2>2. \A m \in 1 .. n - 1 : procVec[m] \in Process  BY <1>1, <2>1 DEF TypeOK
  <2>3. \A m \in n + 1 .. Len(procVec) : procVec[m] \in Process
    BY <1>1, <2>1 DEF TypeOK
  <2>4. n - 1 \in Int /\ n + 1 \in Int /\ 1 \in Int /\ Len(procVec) \in Int
    BY <1>1, <2>1
  <2>5. SubSeq(procVec, 1, n - 1) \in Seq(Process)  BY <2>2, <2>4, SubSeqProperties
  <2>6. SubSeq(procVec, n + 1, Len(procVec)) \in Seq(Process)
    BY <2>3, <2>4, SubSeqProperties
  <2> QED  BY <2>5, <2>6 DEF Kill
<1>3. procVec[n] \in Process  BY <1>1 DEF Kill, TypeOK
<1>4. available' \in [Resource -> Nat]  BY <1>3, PlusMinusType DEF Kill, TypeOK
<1> QED  BY <1>2, <1>4 DEF Kill, TypeOK, fileVars, scanVars

LEMMA PretendType ==
    ASSUME TypeOK, Pretend
    PROVE  TypeOK'
<1>1. pc = "banker"  BY DEF Pretend
<1>2. /\ B!Within(request.amounts, need[request.proc])
      /\ B!Within(request.amounts, available)
  BY DEF Pretend, Affordable
<1>3. fakeAvail' \in [Resource -> Nat]
  BY <1>1, <1>2, RequestFacts, PlusMinusType DEF Pretend, TypeOK
<1>4. alloc' \in [Process -> [Resource -> Nat]]
  <2>1. B!Plus(alloc[request.proc], request.amounts) \in [Resource -> Nat]
    BY <1>1, RequestFacts, PlusMinusType
  <2> QED  BY <2>1 DEF Pretend, TypeOK
<1>5. need' \in [Process -> [Resource -> Nat]]
  <2>1. B!Minus(need[request.proc], request.amounts) \in [Resource -> Nat]
    BY <1>1, <1>2, RequestFacts, PlusMinusType
  <2> QED  BY <2>1 DEF Pretend, TypeOK
<1>6. backup' \in [alloc: [Resource -> Nat], need: [Resource -> Nat]]
  BY <1>1, RequestFacts DEF Pretend
<1> QED  BY <1>1, <1>3, <1>4, <1>5, <1>6 DEF Pretend, TypeOK, fileVars

LEMMA ScanType ==
    ASSUME TypeOK, ScanFinish \/ ScanSkip
    PROVE  TypeOK'
<1>1. CASE ScanFinish
  <2>1. i \in DOMAIN procVec  BY <1>1 DEF ScanFinish, TypeOK
  <2>2. alloc[procVec[i]] \in [Resource -> Nat]  BY <2>1 DEF TypeOK
  <2>3. work' \in [Resource -> Nat]  BY <1>1, <2>2, PlusMinusType DEF ScanFinish, TypeOK
  <2> QED  BY <1>1, <2>3 DEF ScanFinish, TypeOK, fileVars, stateVars
<1>2. CASE ScanSkip
  BY <1>2 DEF ScanSkip, TypeOK, fileVars, stateVars
<1> QED  BY <1>1, <1>2

LEMMA ReturnType ==
    ASSUME TypeOK, TurnDown \/ Grant \/ Reject
    PROVE  TypeOK'
<1>1. CASE TurnDown
  BY <1>1 DEF TurnDown, Return, TypeOK, fileVars, stateVars, scanVars
<1>2. CASE Grant
  BY <1>2 DEF Grant, Return, TypeOK, fileVars, scanVars
<1>3. CASE Reject
  <2>1. backup.alloc \in [Resource -> Nat] /\ backup.need \in [Resource -> Nat]
    BY DEF TypeOK
  <2>2. alloc' \in [Process -> [Resource -> Nat]] /\ need' \in [Process -> [Resource -> Nat]]
    BY <1>3, <2>1 DEF Reject, TypeOK
  <2> QED  BY <1>3, <2>2 DEF Reject, Return, TypeOK, fileVars, scanVars
<1> QED  BY <1>1, <1>2, <1>3

LEMMA AskType ==
    ASSUME TypeOK, Ask
    PROVE  TypeOK'
BY DEF Ask, TypeOK, fileVars, stateVars, scanVars

\* Amounts never become negative, and the banker only works on a request of a
\* live process (banker, safeState and main, for every input file).
THEOREM TypeCorrect == Spec => []TypeOK
<1>1. Init => TypeOK  BY InitType
<1>2. TypeOK /\ [Next]_vars => TypeOK'
  <2> SUFFICES ASSUME TypeOK, [Next]_vars PROVE TypeOK'  OBVIOUS
  <2>1. CASE UNCHANGED vars
    BY <2>1 DEF vars, TypeOK, fileVars, stateVars, scanVars
  <2> QED
    BY <2>1, AskType, KillType, PretendType, ScanType, ReturnType
    DEF Next, BankerStep, Exited
<1> QED  BY <1>1, <1>2, PTL DEF Spec

-----------------------------------------------------------------------------
(***************************************************************************)
(* During a scan the backup has the two rows of the requesting process as  *)
(* they were, so that the rollback of a rejected request restores the sum  *)
(* of what is held and what is needed.                                     *)
(***************************************************************************)
BackupIsConsistent ==
    pc = "scan" => \A r \in Resource :
        backup.alloc[r] + backup.need[r] = input.max[request.proc][r]

NeedInv == NeedIsMaxMinusAlloc /\ BackupIsConsistent

LEMMA NeedInit == Init => NeedInv
<1> SUFFICES ASSUME Init PROVE NeedInv  OBVIOUS
<1>1. ASSUME NEW p \in Process, NEW r \in Resource
      PROVE  alloc[p][r] + need[p][r] = input.max[p][r]
  <2>1. /\ alloc[p][r] = input.alloc[p][r]
        /\ need[p][r] = input.max[p][r] - input.alloc[p][r]
    BY DEF Init, B!Minus
  <2>2. /\ input.alloc \in [Process -> [Resource -> Nat]]
        /\ input.max \in [Process -> [Resource -> Nat]]
    BY InputAssumption DEF Init
  <2>3. input.alloc[p][r] \in Int /\ input.max[p][r] \in Int  BY <2>2
  <2> QED  BY <2>1, <2>3
<1> QED  BY <1>1 DEF Init, NeedInv, NeedIsMaxMinusAlloc, BackupIsConsistent

LEMMA NeedStep == TypeOK /\ NeedInv /\ [Next]_vars => NeedInv'
<1> SUFFICES ASSUME TypeOK, NeedInv, [Next]_vars PROVE NeedInv'  OBVIOUS
<1> USE DEF NeedInv, NeedIsMaxMinusAlloc, BackupIsConsistent
<1>1. CASE Pretend
  <2> DEFINE q == request.proc
             v == request.amounts
  <2>1. /\ q \in Process /\ v \in [Resource -> Nat]
        /\ alloc[q] \in [Resource -> Nat] /\ need[q] \in [Resource -> Nat]
    BY <1>1, RequestFacts DEF Pretend
  <2>2. /\ alloc' = [alloc EXCEPT ![q] = B!Plus(@, v)]
        /\ need' = [need EXCEPT ![q] = B!Minus(@, v)]
        /\ backup' = [alloc |-> alloc[q], need |-> need[q]]
        /\ input' = input /\ request' = request
    BY <1>1 DEF Pretend, fileVars
  <2>3. ASSUME NEW p \in Process, NEW r \in Resource
        PROVE  alloc'[p][r] + need'[p][r] = input'.max[p][r]
    <3>1. CASE p = q
      <4>1. alloc'[p][r] = alloc[p][r] + v[r] /\ need'[p][r] = need[p][r] - v[r]
        BY <2>1, <2>2, <3>1 DEF TypeOK, B!Plus, B!Minus
      <4>2. alloc[p][r] \in Nat /\ need[p][r] \in Nat /\ v[r] \in Nat
        BY <2>1, <3>1
      <4>3. alloc[p][r] + need[p][r] = input'.max[p][r]  BY <2>2
      <4> QED  BY <4>1, <4>2, <4>3
    <3>2. CASE p # q
      <4>1. alloc'[p] = alloc[p] /\ need'[p] = need[p]  BY <2>2, <3>2 DEF TypeOK
      <4> QED  BY <2>2, <4>1
    <3> QED  BY <3>1, <3>2
  <2>4. ASSUME NEW r \in Resource
        PROVE  backup'.alloc[r] + backup'.need[r] = input'.max[request'.proc][r]
    BY <2>1, <2>2
  <2> QED  BY <2>3, <2>4
<1>2. CASE Reject
  <2> DEFINE q == request.proc
  <2>1. /\ alloc' = [alloc EXCEPT ![q] = backup.alloc]
        /\ need' = [need EXCEPT ![q] = backup.need]
        /\ input' = input /\ pc = "scan" /\ pc' = "prompt"
    BY <1>2 DEF Reject, Return, fileVars
  <2>2. ASSUME NEW p \in Process, NEW r \in Resource
        PROVE  alloc'[p][r] + need'[p][r] = input'.max[p][r]
    <3>1. CASE p = q
      <4>1. alloc'[p] = backup.alloc /\ need'[p] = backup.need  BY <2>1, <3>1 DEF TypeOK
      <4> QED  BY <2>1, <3>1, <4>1
    <3>2. CASE p # q
      <4>1. alloc'[p] = alloc[p] /\ need'[p] = need[p]  BY <2>1, <3>2 DEF TypeOK
      <4> QED  BY <2>1, <4>1
    <3> QED  BY <3>1, <3>2
  <2> QED  BY <2>1, <2>2
<1>3. CASE ScanFinish \/ ScanSkip
  BY <1>3 DEF ScanFinish, ScanSkip, fileVars, stateVars
<1>4. CASE Ask \/ TurnDown \/ Grant
  BY <1>4 DEF Ask, TurnDown, Grant, Return, fileVars, stateVars
<1>5. ASSUME NEW n \in Process, Kill(n) PROVE NeedInv'
  BY <1>5 DEF Kill, fileVars
<1>6. CASE UNCHANGED vars
  BY <1>6 DEF vars, fileVars, stateVars
<1> QED  BY <1>1, <1>2, <1>3, <1>4, <1>5, <1>6 DEF Next, BankerStep, Exited

\* A process's allocation and need add up to its declared maximum before,
\* during and after every request, granted or rolled back.
THEOREM NeedCorrect == Spec => []NeedIsMaxMinusAlloc
<1>1. Init => NeedInv  BY NeedInit
<1>2. TypeOK /\ NeedInv /\ [Next]_vars => NeedInv'  BY NeedStep
<1>3. NeedInv => NeedIsMaxMinusAlloc  BY DEF NeedInv
<1> QED  BY <1>1, <1>2, <1>3, TypeCorrect, PTL DEF Spec

-----------------------------------------------------------------------------
(***************************************************************************)
(* Sums over processes.  A column is what every process holds of one       *)
(* resource.                                                               *)
(***************************************************************************)
Column(al, r) == [p \in Process |-> al[p][r]]

\* The two sums of the model: over processes, and over their positions in s.
ColumnSum(al, r, P)  == MapThenSumSet(LAMBDA p : al[p][r], P)
RowSum(al, s, r, S) == MapThenSumSet(LAMBDA n : al[s[n]][r], S)

LEMMA ProcessFinite == IsFiniteSet(Process) /\ \A P \in SUBSET Process : IsFiniteSet(P)
<1>1. NumOfProcess \in Int  BY SizeAssumption
<1>2. IsFiniteSet(Process)  BY <1>1, FS_Interval DEF Process
<1> QED  BY <1>2, FS_Subset

LEMMA ColumnType ==
    ASSUME NEW al \in [Process -> [Resource -> Nat]], NEW r \in Resource
    PROVE  \A p \in Process : Column(al, r)[p] = al[p][r] /\ Column(al, r)[p] \in Nat
BY DEF Column

LEMMA SumOfColumn ==
    ASSUME NEW al, NEW r, NEW P \in SUBSET Process
    PROVE  ColumnSum(al, r, P) = SumOf(Column(al, r), P)
BY ZenonT(60) DEF ColumnSum, SumOf, MapThenSumSet, MapThenFoldSet, Column

LEMMA SumOfRows ==
    ASSUME NEW al, NEW r, NEW s, NEW S
    PROVE  RowSum(al, s, r, S) = SumOf([n \in S |-> al[s[n]][r]], S)
BY ZenonT(60) DEF RowSum, SumOf, MapThenSumSet, MapThenFoldSet

\* The same sum over the positions of the processes in a list of them.
LEMMA SumOfPositions ==
    ASSUME NEW al \in [Process -> [Resource -> Nat]], NEW r \in Resource,
           NEW s, NEW S, IsFiniteSet(S), \A n \in S : s[n] \in Process,
           \A m, n \in S : s[m] = s[n] => m = n
    PROVE  RowSum(al, s, r, S) = SumOf(Column(al, r), {s[n] : n \in S})
<1> DEFINE f == Column(al, r)
<1>1. RowSum(al, s, r, S) = SumOf([n \in S |-> al[s[n]][r]], S)
  BY SumOfRows
<1>2. \A n \in S : f[s[n]] = al[s[n]][r] /\ f[s[n]] \in Int  BY ColumnType
<1>3. [n \in S |-> al[s[n]][r]] = [n \in S |-> f[s[n]]]  BY <1>2
<1> HIDE DEF f
<1>4. SumOf([n \in S |-> f[s[n]]], S) = SumOf(f, {s[n] : n \in S})  BY <1>2, SumRenamed
<1> QED  BY <1>1, <1>3, <1>4 DEF f

LEMMA ColumnSumType ==
    ASSUME NEW al \in [Process -> [Resource -> Nat]], NEW r \in Resource, NEW P \in SUBSET Process
    PROVE  SumOf(Column(al, r), P) \in Nat
<1> DEFINE f == Column(al, r)
<1>1. \A p \in P : f[p] \in Nat  BY ColumnType
<1> HIDE DEF f
<1>2. SumOf(f, P) \in Nat  BY <1>1, ProcessFinite, SumOfSubset
<1> QED  BY <1>2 DEF f

\* A process joins those whose units are summed.
LEMMA ColumnSumWith ==
    ASSUME NEW al \in [Process -> [Resource -> Nat]], NEW r \in Resource,
           NEW P \in SUBSET Process, NEW p \in Process \ P
    PROVE  SumOf(Column(al, r), P \cup {p}) = SumOf(Column(al, r), P) + al[p][r]
<1> DEFINE f == Column(al, r)
<1>1. \A q \in P : f[q] \in Int  BY ColumnType
<1>2. f[p] \in Int /\ f[p] = al[p][r]  BY ColumnType
<1>3. IsFiniteSet(P) /\ p \notin P  BY ProcessFinite
<1> HIDE DEF f
<1>4. SumOf(f, P \cup {p}) = SumOf(f, P) + f[p]  BY <1>1, <1>2, <1>3, SumWith
<1> QED  BY <1>2, <1>4 DEF f

\* One process's row changes: so does the sum, by as much.
LEMMA ColumnSumChanged ==
    ASSUME NEW al \in [Process -> [Resource -> Nat]], NEW al2 \in [Process -> [Resource -> Nat]],
           NEW r \in Resource, NEW P \in SUBSET Process, NEW p \in P,
           \A q \in Process \ {p} : al2[q] = al[q]
    PROVE  SumOf(Column(al2, r), P) = SumOf(Column(al, r), P) - al[p][r] + al2[p][r]
<1> DEFINE f == Column(al, r)
           g == Column(al2, r)
           R == P \ {p}
<1>1. R \in SUBSET Process /\ p \in Process \ R /\ R \cup {p} = P  OBVIOUS
<1>2. \A q \in R : f[q] = g[q]  BY ColumnType
<1>3. SumOf(f, R) = SumOf(g, R)
  <2> HIDE DEF f, g
  <2> QED  BY <1>1, <1>2, ProcessFinite, SumSame
<1>4. SumOf(f, P) = SumOf(f, R) + al[p][r]
  <2> HIDE DEF R
  <2>1. SumOf(f, R \cup {p}) = SumOf(f, R) + al[p][r]  BY <1>1, ColumnSumWith
  <2> HIDE DEF f
  <2> QED  BY <1>1, <2>1
<1>5. SumOf(g, P) = SumOf(g, R) + al2[p][r]
  <2> HIDE DEF R
  <2>1. SumOf(g, R \cup {p}) = SumOf(g, R) + al2[p][r]  BY <1>1, ColumnSumWith
  <2> HIDE DEF g
  <2> QED  BY <1>1, <2>1
<1>6. SumOf(f, R) \in Nat /\ al[p][r] \in Nat /\ al2[p][r] \in Nat
  <2> HIDE DEF R
  <2> QED  BY <1>1, ColumnSumType
<1> HIDE DEF f, g, R
<1>7. SumOf(g, P) = SumOf(f, P) - al[p][r] + al2[p][r]  BY <1>3, <1>4, <1>5, <1>6
<1> QED  BY <1>7 DEF f, g

-----------------------------------------------------------------------------
(***************************************************************************)
(* Safe states.  A set P of processes is safe when its members can be put  *)
(* in an order in which each finds its need among the free units and those *)
(* that the ones before it hold.                                           *)
(***************************************************************************)
Bounded(p, avail, al, nd, F) ==
    \A r \in Resource : nd[p][r] <= avail[r] + SumOf(Column(al, r), F)

IsOrder(s, P, avail, al, nd) ==
    /\ s \in Bijection(1 .. Cardinality(P), P)
    /\ \A k \in 1 .. Cardinality(P) :
         Bounded(s[k], avail, al, nd, {s[j] : j \in 1 .. k - 1})

LEMMA BijectionFacts ==
    ASSUME NEW S, NEW T, NEW s \in Bijection(S, T)
    PROVE  /\ s \in [S -> T]
           /\ \A j, k \in S : s[j] = s[k] => j = k
           /\ \A q \in T : \E k \in S : s[k] = q
<1>1. s \in Surjection(S, T)  BY Fun_BijectionProperties
<1>2. s \in [S -> T] /\ \A j, k \in S : s[j] = s[k] => j = k  BY Fun_BijectionProperties
<1>3. \A q \in T : \E k \in S : s[k] = q  BY <1>1, Fun_SurjectionProperties
<1> QED  BY <1>2, <1>3

LEMMA SafeOrderRows ==
    ASSUME NEW s, NEW avail, NEW al, NEW nd
    PROVE  B!SafeOrder(s, avail, al, nd) <=>
             \A k \in DOMAIN s : \A r \in Resource :
                nd[s[k]][r] <= avail[r] + RowSum(al, s, r, 1 .. k - 1)
BY ZenonT(60)
DEF B!SafeOrder, RowSum, MapThenSumSet, MapThenFoldSet, B!MapThenSumSet, B!MapThenFoldSet

LEMMA SafeIsOrder ==
    ASSUME NEW avail, NEW al \in [Process -> [Resource -> Nat]], NEW nd, NEW P \in SUBSET Process
    PROVE  B!Safe(avail, al, nd, P) <=> \E s : IsOrder(s, P, avail, al, nd)
<1> DEFINE n == Cardinality(P)
<1>1. n \in Nat  BY ProcessFinite, FS_CardinalityType
<1>2. ASSUME NEW s \in Bijection(1 .. n, P)
      PROVE  B!SafeOrder(s, avail, al, nd) <=> IsOrder(s, P, avail, al, nd)
  <2>1. /\ DOMAIN s = 1 .. n
        /\ \A k \in 1 .. n : s[k] \in Process
        /\ \A j, k \in 1 .. n : s[j] = s[k] => j = k
    <3>1. s \in [1 .. n -> P] /\ \A j, k \in 1 .. n : s[j] = s[k] => j = k
      <4> HIDE DEF n
      <4> QED  BY BijectionFacts
    <3> QED  BY <3>1
  <2>2. ASSUME NEW k \in 1 .. n, NEW r \in Resource
        PROVE  RowSum(al, s, r, 1 .. k - 1) = SumOf(Column(al, r), {s[j] : j \in 1 .. k - 1})
    <3> DEFINE S == 1 .. k - 1
    <3>1. S \subseteq 1 .. n /\ IsFiniteSet(S)
      <4> HIDE DEF n
      <4>1. 1 \in Int /\ k - 1 \in Int  BY <1>1
      <4> QED  BY <1>1, <4>1, FS_Interval
    <3>2. /\ \A j \in S : s[j] \in Process
          /\ \A j, m \in S : s[j] = s[m] => j = m
      BY <2>1, <3>1
    <3> HIDE DEF S
    <3>3. RowSum(al, s, r, S) = SumOf(Column(al, r), {s[j] : j \in S})
      <4>1. IsFiniteSet(S)  BY <3>1
      <4>2. \A j \in S : s[j] \in Process  BY <3>2
      <4>3. \A j, m \in S : s[j] = s[m] => j = m  BY <3>2
      <4> QED  BY <4>1, <4>2, <4>3, SumOfPositions, SMTT(30)
    <3> QED  BY <3>3 DEF S
  <2>3. B!SafeOrder(s, avail, al, nd) <=>
          \A k \in 1 .. n : \A r \in Resource :
             nd[s[k]][r] <= avail[r] + RowSum(al, s, r, 1 .. k - 1)
    BY <2>1, SafeOrderRows
  <2> QED  BY <2>2, <2>3 DEF IsOrder, Bounded
<1> HIDE DEF n
<1>3. (\E s : IsOrder(s, P, avail, al, nd))
        <=> \E s \in Bijection(1 .. n, P) : IsOrder(s, P, avail, al, nd)
  BY DEF IsOrder, n
<1>4. B!Safe(avail, al, nd, P) <=> \E s \in Bijection(1 .. n, P) : B!SafeOrder(s, avail, al, nd)
  BY DEF B!Safe, n, B!Bijection, Bijection, B!Injection, Injection, B!IsInjective, IsInjective,
         B!Surjection, Surjection, B!Cardinality, Cardinality
<1> QED  BY <1>2, <1>3, <1>4

LEMMA NobodyIsSafe ==
    ASSUME NEW avail, NEW al \in [Process -> [Resource -> Nat]], NEW nd
    PROVE  B!Safe(avail, al, nd, {})
<1>1. Cardinality({}) = 0  BY FS_EmptySet
<1>2. 1 .. 0 = {}  OBVIOUS
<1> DEFINE s == [k \in {} |-> k]
<1>3. s \in Bijection({}, {})
  <2>1. s \in [{} -> {}] /\ \A k \in {} : \E j \in {} : s[j] = k  OBVIOUS
  <2>2. \A j, k \in {} : s[j] = s[k] => j = k  OBVIOUS
  <2> HIDE DEF s
  <2> QED  BY <2>1, <2>2, Fun_IsBij
<1>4. IsOrder(s, {}, avail, al, nd)  BY <1>1, <1>2, <1>3 DEF IsOrder
<1> QED  BY <1>4, SafeIsOrder

\* A process that finds its need when a safe set has finished can be the next.
LEMMA SafeWith ==
    ASSUME NEW avail, NEW al \in [Process -> [Resource -> Nat]], NEW nd,
           NEW P \in SUBSET Process, NEW p \in Process \ P,
           B!Safe(avail, al, nd, P), Bounded(p, avail, al, nd, P)
    PROVE  B!Safe(avail, al, nd, P \cup {p})
<1> DEFINE n == Cardinality(P)
           Q == P \cup {p}
<1>1. PICK s : IsOrder(s, P, avail, al, nd)  BY SafeIsOrder
<1>2. n \in Nat /\ Cardinality(Q) = n + 1
  BY ProcessFinite, FS_CardinalityType, FS_AddElement
<1>3. s \in Bijection(1 .. n, P)  BY <1>1 DEF IsOrder
<1>4. /\ s \in [1 .. n -> P]
      /\ \A j, k \in 1 .. n : s[j] = s[k] => j = k
      /\ \A q \in P : \E k \in 1 .. n : s[k] = q
  <2> DEFINE S == 1 .. n
  <2>1. s \in Bijection(S, P)  BY <1>3
  <2> HIDE DEF S
  <2>2. /\ s \in [S -> P]
        /\ \A j, k \in S : s[j] = s[k] => j = k
        /\ \A q \in P : \E k \in S : s[k] = q
    BY <2>1, BijectionFacts
  <2> QED  BY <2>2 DEF S
<1> DEFINE t == [k \in 1 .. n + 1 |-> IF k = n + 1 THEN p ELSE s[k]]
<1>5. t \in [1 .. n + 1 -> Q] /\ t[n + 1] = p /\ \A k \in 1 .. n : t[k] = s[k]
  BY <1>2, <1>4
<1> HIDE DEF t, n
<1>6. t \in Bijection(1 .. n + 1, Q)
  <2>1. ASSUME NEW j \in 1 .. n + 1, NEW k \in 1 .. n + 1, t[j] = t[k] PROVE j = k
    <3>1. CASE j = n + 1 /\ k \in 1 .. n  BY <1>4, <1>5, <2>1, <3>1
    <3>2. CASE k = n + 1 /\ j \in 1 .. n  BY <1>4, <1>5, <2>1, <3>2
    <3>3. CASE j \in 1 .. n /\ k \in 1 .. n  BY <1>4, <1>5, <2>1, <3>3
    <3> QED  BY <1>2, <3>1, <3>2, <3>3
  <2>2. ASSUME NEW q \in Q PROVE \E k \in 1 .. n + 1 : t[k] = q
    <3>1. CASE q = p  BY <1>2, <1>5, <3>1
    <3>2. CASE q \in P
      <4>1. PICK k \in 1 .. n : s[k] = q  BY <1>4, <3>2
      <4>2. k \in 1 .. n + 1  BY <1>2
      <4> QED  BY <1>5, <4>1, <4>2
    <3> QED  BY <3>1, <3>2
  <2> HIDE DEF Q
  <2> QED  BY <1>5, <2>1, <2>2, Fun_IsBij
<1>7. ASSUME NEW k \in 1 .. n + 1
      PROVE  Bounded(t[k], avail, al, nd, {t[j] : j \in 1 .. k - 1})
  <2>1. 1 .. k - 1 \subseteq 1 .. n  BY <1>2
  <2>2. {t[j] : j \in 1 .. k - 1} = {s[j] : j \in 1 .. k - 1}  BY <1>5, <2>1
  <2>3. CASE k = n + 1
    <3>1. k - 1 = n  BY <1>2, <2>3
    <3>2. {s[j] : j \in 1 .. n} = P  BY <1>4
    <3> QED  BY <1>5, <2>2, <2>3, <3>1, <3>2
  <2>4. CASE k \in 1 .. n
    BY <1>1, <1>5, <2>2, <2>4 DEF IsOrder, n
  <2> QED  BY <1>2, <2>3, <2>4
<1>8. IsOrder(t, Q, avail, al, nd)  BY <1>2, <1>6, <1>7 DEF IsOrder
<1> QED  BY <1>8, SafeIsOrder

\* Whoever has finished, if not all, a safe set has a member that can be next.
LEMMA SafeHasNext ==
    ASSUME NEW avail \in [Resource -> Nat], NEW al \in [Process -> [Resource -> Nat]],
           NEW nd \in [Process -> [Resource -> Nat]],
           NEW P \in SUBSET Process, NEW F \in SUBSET Process, ~ P \subseteq F,
           B!Safe(avail, al, nd, P)
    PROVE  \E p \in P \ F : Bounded(p, avail, al, nd, F)
<1> DEFINE n == Cardinality(P)
<1>1. PICK s : IsOrder(s, P, avail, al, nd)  BY SafeIsOrder
<1>2. n \in Nat  BY ProcessFinite, FS_CardinalityType
<1>3. s \in Bijection(1 .. n, P)  BY <1>1 DEF IsOrder
<1>4. s \in [1 .. n -> P] /\ \A q \in P : \E k \in 1 .. n : s[k] = q
  <2> DEFINE S == 1 .. n
  <2>1. s \in Bijection(S, P)  BY <1>3
  <2> HIDE DEF S
  <2>2. s \in [S -> P] /\ \A q \in P : \E k \in S : s[k] = q
    BY <2>1, BijectionFacts
  <2> QED  BY <2>2 DEF S
<1> DEFINE Rest == {k \in 1 .. n : s[k] \notin F}
<1>5. Rest # {} /\ Rest \subseteq Nat
  <2>1. PICK q \in P : q \notin F  OBVIOUS
  <2>2. PICK k \in 1 .. n : s[k] = q  BY <1>4, <2>1
  <2>3. k \in Rest  BY <2>1, <2>2
  <2>4. Rest \subseteq 1 .. n  OBVIOUS
  <2>5. 1 .. n \subseteq Nat  BY <1>2
  <2> HIDE DEF n, Rest
  <2> QED  BY <2>3, <2>4, <2>5
<1>6. PICK k \in Rest : \A j \in Rest : <<j, k>> \notin OpToRel(<, Nat)
  <2> HIDE DEF Rest
  <2> QED  BY <1>5, WFMin, NatLessThanWellFounded
<1>7. \A j \in Rest : ~ j < k  BY <1>5, <1>6 DEF OpToRel
<1>8. k \in 1 .. n /\ s[k] \in P \ F  BY <1>4
<1> DEFINE G == {s[j] : j \in 1 .. k - 1}
<1>9. G \in SUBSET F
  <2>1. ASSUME NEW j \in 1 .. k - 1 PROVE s[j] \in F
    <3>1. j \in 1 .. n /\ j < k  BY <1>2, <1>8
    <3> QED  BY <1>7, <3>1
  <2> QED  BY <2>1
<1>10. Bounded(s[k], avail, al, nd, G)  BY <1>1, <1>8 DEF IsOrder
<1> HIDE DEF Rest, G
<1>11. ASSUME NEW r \in Resource PROVE nd[s[k]][r] <= avail[r] + SumOf(Column(al, r), F)
  <2> DEFINE f == Column(al, r)
  <2>1. \A q \in F : f[q] \in Nat  BY ColumnType
  <2>2. IsFiniteSet(F)  BY ProcessFinite
  <2>3. nd[s[k]][r] <= avail[r] + SumOf(f, G)  BY <1>10 DEF Bounded
  <2> HIDE DEF f
  <2>4. SumOf(f, G) \in Nat /\ SumOf(f, F) \in Nat /\ SumOf(f, G) <= SumOf(f, F)
    BY <1>9, <2>1, <2>2, SumOfSubset
  <2>5. nd[s[k]][r] \in Nat /\ avail[r] \in Nat  BY <1>8
  <2> DEFINE a == nd[s[k]][r]
             b == avail[r]
             c == SumOf(f, G)
             d == SumOf(f, F)
  <2>6. a \in Int /\ b \in Int /\ c \in Int /\ d \in Int /\ a <= b + c /\ c <= d  BY <2>3, <2>4, <2>5
  <2> HIDE DEF a, b, c, d
  <2>7. a <= b + d  BY <2>6
  <2> QED  BY <2>7 DEF a, b, d, f
<1> QED  BY <1>8, <1>11 DEF Bounded

\* A member of a safe set gives back what it holds: the others stay safe.
LEMMA SafeWithout ==
    ASSUME NEW avail \in [Resource -> Nat], NEW al \in [Process -> [Resource -> Nat]],
           NEW nd \in [Process -> [Resource -> Nat]],
           NEW P \in SUBSET Process, NEW p \in P, B!Safe(avail, al, nd, P)
    PROVE  B!Safe(B!Plus(avail, al[p]), al, nd, P \ {p})
<1> DEFINE more == B!Plus(avail, al[p])
           R == P \ {p}
           Left == {U \in SUBSET R : B!Safe(more, al, nd, R \ U)}
<1>1. IsFiniteSet(R) /\ R \in SUBSET Process /\ p \in Process  BY ProcessFinite
<1>2. R \in Left
  <2>1. R \ R = {}  OBVIOUS
  <2> HIDE DEF R, more
  <2>2. B!Safe(more, al, nd, R \ R)  BY <2>1, NobodyIsSafe
  <2> QED  BY <2>2
<1>3. PICK U \in Left : \A V \in Left : V \subseteq U => V = U
  <2>1. Left \in SUBSET (SUBSET R) /\ Left # {}  BY <1>2
  <2> HIDE DEF Left, R
  <2> QED  BY <1>1, <2>1, SmallestSubset
<1> DEFINE F == R \ U
<1>4. U \in SUBSET R /\ B!Safe(more, al, nd, F)  OBVIOUS
<1>5. CASE U = {}
  <2>1. F = R  BY <1>5
  <2> QED  BY <1>4, <2>1
<1>6. CASE U # {}
  <2> DEFINE Fp == F \cup {p}
  <2>1. F \in SUBSET Process /\ p \in Process \ F /\ Fp \in SUBSET Process /\ ~ P \subseteq Fp
    BY <1>1, <1>4, <1>6
  <2>2. PICK q \in P \ Fp : Bounded(q, avail, al, nd, Fp)
    <3> HIDE DEF Fp, F
    <3> QED  BY <2>1, SafeHasNext
  <2>3. q \in U /\ q \in Process \ F  BY <1>4, <2>2
  <2>4. Bounded(q, more, al, nd, F)
    <3>1. ASSUME NEW r \in Resource PROVE nd[q][r] <= more[r] + SumOf(Column(al, r), F)
      <4>1. nd[q][r] <= avail[r] + SumOf(Column(al, r), Fp)  BY <2>2 DEF Bounded
      <4>2. SumOf(Column(al, r), Fp) = SumOf(Column(al, r), F) + al[p][r]
        <5> HIDE DEF F
        <5> QED  BY <2>1, ColumnSumWith
      <4>3. SumOf(Column(al, r), F) \in Nat
        <5> HIDE DEF F
        <5> QED  BY <2>1, ColumnSumType
      <4>4. more[r] = avail[r] + al[p][r]  BY DEF B!Plus
      <4>5. nd[q][r] \in Nat /\ avail[r] \in Nat /\ al[p][r] \in Nat  BY <1>1, <2>3
      <4> DEFINE a == nd[q][r]
                 b == avail[r]
                 c == al[p][r]
                 d == SumOf(Column(al, r), F)
      <4>6. a \in Int /\ b \in Int /\ c \in Int /\ d \in Int /\ a <= b + (d + c)
        <5> HIDE DEF F, Fp
        <5> QED  BY <4>1, <4>2, <4>3, <4>5
      <4>7. a <= (b + c) + d
        <5> HIDE DEF a, b, c, d
        <5> QED  BY <4>6
      <4> QED  BY <4>4, <4>7
    <3> HIDE DEF more, F
    <3> QED  BY <3>1 DEF Bounded
  <2>5. B!Safe(more, al, nd, F \cup {q})
    <3> HIDE DEF more, F
    <3> QED  BY <1>4, <2>1, <2>3, <2>4, SafeWith
  <2>6. F \cup {q} = R \ (U \ {q})  BY <1>4, <2>3
  <2>7. U \ {q} \in Left
    <3>1. B!Safe(more, al, nd, R \ (U \ {q}))
      <4> HIDE DEF more, R, F
      <4> QED  BY <2>5, <2>6
    <3> QED  BY <1>4, <3>1
  <2>8. U \ {q} = U  BY <1>3, <2>7
  <2> QED  BY <2>3, <2>8
<1> QED  BY <1>5, <1>6

-----------------------------------------------------------------------------
(***************************************************************************)
(* The inductive invariant of banker(): the live processes are listed once *)
(* each; during a scan the request is what was added to one allocation and *)
(* taken from one need and from the free units; the positions the scan has *)
(* passed without finishing them have to wait for what it has now; and the *)
(* finished processes are a safe set.                                      *)
(***************************************************************************)
ListedOnce == \A m, n \in DOMAIN procVec : procVec[m] = procVec[n] => m = n

TriedOut ==
    pc = "scan" =>
        LET p == request.proc
            v == request.amounts
        IN  /\ B!Within(v, backup.need) /\ B!Within(v, available)
            /\ fakeAvail = B!Minus(available, v)
            /\ alloc[p] = B!Plus(backup.alloc, v)
            /\ need[p] = B!Minus(backup.need, v)

FinishedProcs == {procVec[n] : n \in finished}

ScanInv ==
    pc = "scan" =>
        /\ finished \subseteq DOMAIN procVec
        /\ i <= Len(procVec) + 1
        /\ \A r \in Resource : work[r] = fakeAvail[r] + SumOf(Column(alloc, r), FinishedProcs)
        /\ \A n \in 1 .. i - 1 : n \in finished \/ ~ B!Within(need[procVec[n]], work)
        /\ B!Safe(fakeAvail, alloc, need, FinishedProcs)

\* What is held and free, as it was before the request that is tried out.
SafeBefore ==
    SafeInput =>
        B!Safe(available, Undone(alloc, backup.alloc), Undone(need, backup.need), Range(procVec))

BankerInv == ListedOnce /\ TriedOut /\ ScanInv /\ SafeBefore

\* "allProcesses.erase": the list without its n-th process.
Erase(q, n) == SubSeq(q, 1, n - 1) \o SubSeq(q, n + 1, Len(q))

LEMMA Erased ==
    ASSUME NEW q \in Seq(Process), NEW n \in 1 .. Len(q)
    PROVE  /\ DOMAIN Erase(q, n) = 1 .. Len(q) - 1
           /\ \A k \in 1 .. Len(q) - 1 : Erase(q, n)[k] = IF k < n THEN q[k] ELSE q[k + 1]
<1> DEFINE a == SubSeq(q, 1, n - 1)
           b == SubSeq(q, n + 1, Len(q))
           c == Erase(q, n)
<1>1. Len(q) \in Nat /\ \A k \in 1 .. Len(q) : q[k] \in Process  BY LenProperties, ElementOfSeq
<1>2. a \in Seq(Process) /\ Len(a) = n - 1 /\ \A k \in 1 .. n - 1 : a[k] = q[k]
  <2>1. (\A k \in 1 .. n - 1 : q[k] \in Process) /\ n - 1 \in Int  BY <1>1
  <2>2. \A k \in 1 .. (n - 1) - 1 + 1 : a[k] = q[1 + k - 1]  BY <2>1, SubSeqProperties
  <2>3. a \in Seq(Process) /\ Len(a) = n - 1  BY <1>1, <2>1, SubSeqProperties
  <2> HIDE DEF a
  <2>4. \A k \in 1 .. n - 1 : a[k] = q[k]
    <3> TAKE k \in 1 .. n - 1
    <3>1. k \in 1 .. (n - 1) - 1 + 1 /\ 1 + k - 1 = k  BY <1>1
    <3> QED  BY <2>2, <3>1
  <2> QED  BY <2>3, <2>4
<1>3. b \in Seq(Process) /\ Len(b) = Len(q) - n /\ \A k \in 1 .. Len(q) - n : b[k] = q[n + k]
  <2>1. (\A k \in (n + 1) .. Len(q) : q[k] \in Process) /\ n + 1 \in Int /\ Len(q) \in Int
    BY <1>1
  <2>2. \A k \in 1 .. Len(q) - (n + 1) + 1 : b[k] = q[n + 1 + k - 1]
    BY <2>1, SubSeqProperties
  <2>3. b \in Seq(Process) /\ Len(b) = Len(q) - n  BY <1>1, <2>1, SubSeqProperties
  <2> HIDE DEF b
  <2>4. \A k \in 1 .. Len(q) - n : b[k] = q[n + k]
    <3> TAKE k \in 1 .. Len(q) - n
    <3>1. k \in 1 .. Len(q) - (n + 1) + 1 /\ n + 1 + k - 1 = n + k  BY <1>1
    <3> QED  BY <2>2, <3>1
  <2> QED  BY <2>3, <2>4
<1>4. c = a \o b  BY DEF Erase
<1> HIDE DEF a, b, c
<1>5. c \in Seq(Process) /\ Len(c) = Len(a) + Len(b)  BY <1>2, <1>3, <1>4, ConcatProperties
<1>6. \A k \in 1 .. Len(a) + Len(b) : c[k] = IF k <= Len(a) THEN a[k] ELSE b[k - Len(a)]
  BY <1>2, <1>3, <1>4, ConcatProperties
<1>7. DOMAIN c = 1 .. Len(q) - 1
  <2>1. DOMAIN c = 1 .. Len(c)  BY <1>5, LenProperties
  <2>2. Len(c) = Len(q) - 1  BY ONLY <1>1, <1>2, <1>3, <1>5, n \in 1 .. Len(q)
  <2> QED  BY <2>1, <2>2
<1>8. ASSUME NEW k \in 1 .. Len(q) - 1
      PROVE  c[k] = IF k < n THEN q[k] ELSE q[k + 1]
  <2>1. k \in 1 .. Len(a) + Len(b)  BY ONLY <1>1, <1>2, <1>3, n \in 1 .. Len(q), k \in 1 .. Len(q) - 1
  <2>2. CASE k < n
    <3>1. k <= Len(a) /\ k \in 1 .. n - 1
      BY ONLY <1>1, <1>2, <2>2, n \in 1 .. Len(q), k \in 1 .. Len(q) - 1
    <3> QED  BY ONLY <1>2, <1>6, <2>1, <2>2, <3>1
  <2>3. CASE ~ k < n
    <3>1. ~ k <= Len(a) /\ k - Len(a) \in 1 .. Len(q) - n /\ n + (k - Len(a)) = k + 1
      BY ONLY <1>1, <1>2, <2>3, n \in 1 .. Len(q), k \in 1 .. Len(q) - 1
    <3> QED  BY ONLY <1>3, <1>6, <2>1, <2>3, <3>1
  <2> QED  BY <2>2, <2>3
<1> QED  BY <1>7, <1>8 DEF c

LEMMA KillList ==
    ASSUME TypeOK, ListedOnce, NEW n \in Process, Kill(n)
    PROVE  /\ ListedOnce'
           /\ procVec[n] \in Range(procVec)
           /\ Range(procVec') = Range(procVec) \ {procVec[n]}
<1> DEFINE q == procVec
           c == procVec'
           L == Len(q)
<1>1. q \in Seq(Process) /\ DOMAIN q = 1 .. L /\ L \in Nat  BY LenProperties DEF TypeOK
<1>2. n \in 1 .. L /\ c = Erase(q, n)
  BY <1>1 DEF Kill, Erase
<1>3. /\ DOMAIN c = 1 .. L - 1
      /\ \A k \in 1 .. L - 1 : c[k] = IF k < n THEN q[k] ELSE q[k + 1]
  <2>1. q \in Seq(Process) /\ n \in 1 .. Len(q)  BY <1>1, <1>2
  <2>2. c = Erase(q, n)  BY <1>2
  <2> HIDE DEF q, c
  <2> QED  BY <2>1, <2>2, Erased
<1>4. \A j, k \in 1 .. L : q[j] = q[k] => j = k  BY <1>1 DEF ListedOnce
<1> HIDE DEF q, c, L
<1>5. ASSUME NEW j \in 1 .. L - 1, NEW k \in 1 .. L - 1, c[j] = c[k] PROVE j = k
  <2> DEFINE f(m) == IF m < n THEN m ELSE m + 1
  <2>1. f(j) \in 1 .. L /\ f(k) \in 1 .. L  BY ONLY <1>1, <1>2
  <2>2. c[j] = q[f(j)] /\ c[k] = q[f(k)]  BY ONLY <1>3
  <2> HIDE DEF f
  <2>3. f(j) = f(k)  BY <1>4, <1>5, <2>1, <2>2
  <2> QED  BY ONLY <1>1, <1>2, <2>3 DEF f
<1>6. ListedOnce'  BY <1>3, <1>5 DEF ListedOnce, c
<1>7. q[n] \in Range(q)  BY <1>1, <1>2 DEF Range
<1>8. ASSUME NEW k \in 1 .. L - 1 PROVE c[k] \in Range(q) \ {q[n]}
  <2>1. CASE k < n
    <3>1. k \in 1 .. L /\ k # n  BY ONLY <1>1, <1>2, <2>1
    <3> QED  BY <1>1, <1>2, <1>3, <1>4, <2>1, <3>1 DEF Range
  <2>2. CASE ~ k < n
    <3>1. k + 1 \in 1 .. L /\ k + 1 # n  BY ONLY <1>1, <1>2, <2>2
    <3> QED  BY <1>1, <1>2, <1>3, <1>4, <2>2, <3>1 DEF Range
  <2> QED  BY <2>1, <2>2
<1>9. ASSUME NEW p \in Range(q) \ {q[n]} PROVE p \in Range(c)
  <2>1. PICK k \in 1 .. L : p = q[k]  BY <1>1 DEF Range
  <2>2. k # n  BY <2>1
  <2>3. CASE k < n
    <3>1. k \in 1 .. L - 1  BY ONLY <1>1, <1>2, <2>3
    <3>2. c[k] = p  BY <1>3, <2>1, <2>3, <3>1
    <3> QED  BY <1>3, <3>1, <3>2 DEF Range
  <2>4. CASE ~ k < n
    <3>1. k - 1 \in 1 .. L - 1 /\ ~ k - 1 < n /\ k - 1 + 1 = k  BY ONLY <1>1, <1>2, <2>2, <2>4
    <3>2. c[k - 1] = p  BY <1>3, <2>1, <3>1
    <3> QED  BY <1>3, <3>1, <3>2 DEF Range
  <2> QED  BY <2>3, <2>4
<1>10. Range(c) = Range(q) \ {q[n]}
  <2>1. \A p \in Range(c) : p \in Range(q) \ {q[n]}  BY <1>3, <1>8 DEF Range
  <2> QED  BY <1>9, <2>1
<1> QED  BY <1>6, <1>7, <1>10 DEF q, c

\* What a process holds and needs when the request being tried out is left out.
OldAlloc == Undone(alloc, backup.alloc)
OldNeed  == Undone(need, backup.need)

LEMMA LiveProcesses ==
    ASSUME TypeOK
    PROVE  /\ Range(procVec) \in SUBSET Process
           /\ \A n \in DOMAIN procVec : procVec[n] \in Range(procVec)
           /\ DOMAIN procVec = 1 .. Len(procVec) /\ Len(procVec) \in Nat
BY LenProperties DEF TypeOK, Range

LEMMA OldType ==
    ASSUME TypeOK
    PROVE  /\ OldAlloc \in [Process -> [Resource -> Nat]]
           /\ OldNeed \in [Process -> [Resource -> Nat]]
           /\ pc # "scan" => OldAlloc = alloc /\ OldNeed = need
<1>1. CASE pc = "scan"
  <2>1. request.proc \in Process  BY <1>1, RequestFacts
  <2>2. backup.alloc \in [Resource -> Nat] /\ backup.need \in [Resource -> Nat]  BY DEF TypeOK
  <2> QED  BY <1>1, <2>1, <2>2 DEF TypeOK, OldAlloc, OldNeed, Undone
<1>2. CASE pc # "scan"
  BY <1>2 DEF TypeOK, OldAlloc, OldNeed, Undone
<1> QED  BY <1>1, <1>2

\* Every step but a grant and a kill leaves them alone.
LEMMA OldStep ==
    ASSUME TypeOK, Ask \/ TurnDown \/ Pretend \/ ScanFinish \/ ScanSkip \/ Reject \/ UNCHANGED vars
    PROVE  UNCHANGED <<input, available, OldAlloc, OldNeed, procVec>>
<1>1. CASE Ask
  BY <1>1 DEF Ask, OldAlloc, OldNeed, Undone, fileVars, stateVars
<1>2. CASE TurnDown
  BY <1>2 DEF TurnDown, Return, OldAlloc, OldNeed, Undone, fileVars, stateVars
<1>3. CASE Pretend
  <2> DEFINE q == request.proc
             v == request.amounts
  <2>1. /\ pc = "banker" /\ pc' = "scan" /\ request' = request
        /\ alloc' = [alloc EXCEPT ![q] = B!Plus(@, v)]
        /\ need' = [need EXCEPT ![q] = B!Minus(@, v)]
        /\ backup' = [alloc |-> alloc[q], need |-> need[q]]
        /\ UNCHANGED <<input, available, procVec>>
    BY <1>3 DEF Pretend, fileVars
  <2>2. q \in Process  BY <2>1, RequestFacts
  <2>3. [alloc' EXCEPT ![q] = alloc[q]] = alloc  BY <2>1, <2>2 DEF TypeOK
  <2>4. [need' EXCEPT ![q] = need[q]] = need  BY <2>1, <2>2 DEF TypeOK
  <2>5. backup'.alloc = alloc[q] /\ backup'.need = need[q]  BY <2>1
  <2>6. OldAlloc = alloc /\ OldNeed = need  BY <2>1 DEF OldAlloc, OldNeed, Undone
  <2>7. OldAlloc' = [alloc' EXCEPT ![q] = alloc[q]] /\ OldNeed' = [need' EXCEPT ![q] = need[q]]
    BY <2>1, <2>5 DEF OldAlloc, OldNeed, Undone
  <2> QED  BY <2>1, <2>3, <2>4, <2>6, <2>7
<1>4. CASE ScanFinish \/ ScanSkip
  BY <1>4 DEF ScanFinish, ScanSkip, OldAlloc, OldNeed, Undone, fileVars, stateVars
<1>5. CASE Reject
  BY <1>5 DEF Reject, Return, OldAlloc, OldNeed, Undone, fileVars
<1>6. CASE UNCHANGED vars
  BY <1>6 DEF vars, OldAlloc, OldNeed, Undone, fileVars, stateVars
<1> QED  BY <1>1, <1>2, <1>3, <1>4, <1>5, <1>6

LEMMA BankerInit == Init => BankerInv
<1> SUFFICES ASSUME Init PROVE BankerInv  OBVIOUS
<1>1. ListedOnce  BY DEF Init, ListedOnce
<1>2. pc # "scan"  BY DEF Init
<1>3. Range(procVec) = Process
  <2>1. procVec = [n \in Process |-> n]  BY DEF Init
  <2> QED  BY <2>1 DEF Range
<1>4. SafeInput => B!Safe(available, alloc, need, Process)
  BY DEF Init, SafeInput
<1>5. SafeBefore  BY <1>2, <1>3, <1>4 DEF SafeBefore, Undone
<1> QED  BY <1>1, <1>2, <1>5 DEF BankerInv, TriedOut, ScanInv

LEMMA TriedOutStep ==
    ASSUME TypeOK, TriedOut, [Next]_vars
    PROVE  TriedOut'
<1>1. CASE Pretend
  <2> DEFINE q == request.proc
             v == request.amounts
  <2>1. /\ pc = "banker" /\ request' = request
        /\ alloc' = [alloc EXCEPT ![q] = B!Plus(@, v)]
        /\ need' = [need EXCEPT ![q] = B!Minus(@, v)]
        /\ backup' = [alloc |-> alloc[q], need |-> need[q]]
        /\ fakeAvail' = B!Minus(available, v)
        /\ available' = available
        /\ B!Within(v, need[q]) /\ B!Within(v, available)
    BY <1>1 DEF Pretend, Affordable
  <2>2. q \in Process  BY <2>1, RequestFacts
  <2>3. alloc'[q] = B!Plus(alloc[q], v) /\ need'[q] = B!Minus(need[q], v)
    BY <2>1, <2>2 DEF TypeOK
  <2>4. backup'.alloc = alloc[q] /\ backup'.need = need[q]  BY <2>1
  <2> QED  BY <2>1, <2>3, <2>4 DEF TriedOut, B!Within, B!Plus, B!Minus
<1>2. CASE ScanFinish \/ ScanSkip
  BY <1>2 DEF ScanFinish, ScanSkip, stateVars, TriedOut, B!Within, B!Plus, B!Minus
<1>3. CASE Ask \/ TurnDown \/ Grant \/ Reject
  BY <1>3 DEF Ask, TurnDown, Grant, Reject, Return, TriedOut
<1>4. ASSUME NEW n \in Process, Kill(n) PROVE TriedOut'
  BY <1>4 DEF Kill, TriedOut
<1>5. CASE UNCHANGED vars
  BY <1>5 DEF vars, stateVars, TriedOut, B!Within, B!Plus, B!Minus
<1> QED  BY <1>1, <1>2, <1>3, <1>4, <1>5 DEF Next, BankerStep, Exited

LEMMA ScanStep ==
    ASSUME TypeOK, ListedOnce, ScanInv, [Next]_vars
    PROVE  ScanInv'
<1>1. CASE Pretend
  <2>1. finished' = {} /\ work' = fakeAvail' /\ i' = 1 /\ procVec' = procVec
    BY <1>1 DEF Pretend
  <2>2. TypeOK'  BY <1>1, PretendType
  <2>3. FinishedProcs' = {}  BY <2>1 DEF FinishedProcs
  <2>4. \A r \in Resource : SumOf(Column(alloc', r), {}) = 0  BY SumOfEmpty
  <2>5. fakeAvail' \in [Resource -> Nat] /\ alloc' \in [Process -> [Resource -> Nat]]
    BY <2>2 DEF TypeOK
  <2>6. \A r \in Resource : work'[r] = fakeAvail'[r] + SumOf(Column(alloc', r), FinishedProcs')
    BY <2>1, <2>3, <2>4, <2>5
  <2>7. B!Safe(fakeAvail', alloc', need', FinishedProcs')  BY <2>3, <2>5, NobodyIsSafe
  <2>8. i' <= Len(procVec') + 1 /\ 1 .. i' - 1 = {}  BY <2>1, LiveProcesses
  <2> QED  BY <2>1, <2>6, <2>7, <2>8 DEF ScanInv, Column
<1>2. CASE ScanFinish
  <2> DEFINE p == procVec[i]
  <2>1. /\ pc = "scan" /\ i \in DOMAIN procVec /\ i \notin finished
        /\ B!Within(need[p], work)
        /\ finished' = finished \cup {i} /\ work' = B!Plus(work, alloc[p]) /\ i' = 1
        /\ UNCHANGED <<alloc, need, procVec, fakeAvail, pc>>
    BY <1>2, LiveProcesses DEF ScanFinish, CanFinish, stateVars, TypeOK
  <2>2. /\ finished \subseteq DOMAIN procVec
        /\ \A r \in Resource : work[r] = fakeAvail[r] + SumOf(Column(alloc, r), FinishedProcs)
        /\ B!Safe(fakeAvail, alloc, need, FinishedProcs)
    BY <2>1 DEF ScanInv
  <2>3. FinishedProcs \in SUBSET Process
    BY <2>2, LiveProcesses DEF FinishedProcs
  <2>4. p \in Process \ FinishedProcs
    <3>1. p \notin FinishedProcs  BY <2>1, <2>2 DEF ListedOnce, FinishedProcs
    <3> QED  BY <2>1, <3>1, LiveProcesses
  <2>5. FinishedProcs' = FinishedProcs \cup {p}  BY <2>1 DEF FinishedProcs
  <2>6. /\ alloc \in [Process -> [Resource -> Nat]] /\ fakeAvail \in [Resource -> Nat]
        /\ work \in [Resource -> Nat]
    BY DEF TypeOK
  <2>7. ASSUME NEW r \in Resource
        PROVE  work'[r] = fakeAvail[r] + SumOf(Column(alloc, r), FinishedProcs \cup {p})
    <3> HIDE DEF p
    <3>1. work'[r] = work[r] + alloc[p][r]  BY <2>1 DEF B!Plus
    <3>2. SumOf(Column(alloc, r), FinishedProcs \cup {p})
            = SumOf(Column(alloc, r), FinishedProcs) + alloc[p][r]
      BY <2>3, <2>4, <2>6, ColumnSumWith
    <3>3. SumOf(Column(alloc, r), FinishedProcs) \in Nat  BY <2>3, <2>6, ColumnSumType
    <3>4. fakeAvail[r] \in Nat /\ alloc[p][r] \in Nat  BY <2>4, <2>6
    <3>5. work[r] = fakeAvail[r] + SumOf(Column(alloc, r), FinishedProcs)  BY <2>2
    <3> DEFINE a == fakeAvail[r]
               b == SumOf(Column(alloc, r), FinishedProcs)
               c == alloc[p][r]
    <3>6. a \in Int /\ b \in Int /\ c \in Int  BY <3>3, <3>4
    <3>7. (a + b) + c = a + (b + c)
      <4> HIDE DEF a, b, c
      <4> QED  BY <3>6
    <3> QED  BY <3>1, <3>2, <3>5, <3>7
  <2>8. Bounded(p, fakeAvail, alloc, need, FinishedProcs)
    BY <2>1, <2>2 DEF Bounded, B!Within
  <2>9. B!Safe(fakeAvail, alloc, need, FinishedProcs \cup {p})
    <3> HIDE DEF p
    <3> QED  BY <2>2, <2>3, <2>4, <2>6, <2>8, SafeWith
  <2>10. i' <= Len(procVec') + 1 /\ 1 .. i' - 1 = {}  BY <2>1, LiveProcesses
  <2>11. finished' \subseteq DOMAIN procVec'  BY <2>1, <2>2
  <2>12. fakeAvail' = fakeAvail /\ alloc' = alloc /\ need' = need  BY <2>1
  <2> HIDE DEF p
  <2> QED  BY <2>5, <2>7, <2>9, <2>10, <2>11, <2>12 DEF ScanInv, Column
<1>3. CASE ScanSkip
  <2>1. /\ pc = "scan" /\ i <= Len(procVec) /\ ~ CanFinish /\ i' = i + 1
        /\ UNCHANGED <<alloc, need, procVec, fakeAvail, pc, finished, work>>
    BY <1>3 DEF ScanSkip, stateVars
  <2>2. i \in Nat \ {0} /\ Len(procVec) \in Nat  BY LiveProcesses DEF TypeOK
  <2>3. ASSUME NEW n \in 1 .. i' - 1
        PROVE  n \in finished \/ ~ B!Within(need[procVec[n]], work)
    <3>1. n = i \/ n \in 1 .. i - 1  BY <2>1, <2>2
    <3> QED  BY <2>1, <3>1 DEF ScanInv, CanFinish
  <2>4. FinishedProcs' = FinishedProcs  BY <2>1 DEF FinishedProcs
  <2>5. i' <= Len(procVec') + 1  BY <2>1, <2>2
  <2> QED  BY <2>1, <2>3, <2>4, <2>5 DEF ScanInv, Column, B!Within
<1>4. CASE Ask \/ TurnDown \/ Grant \/ Reject
  BY <1>4 DEF Ask, TurnDown, Grant, Reject, Return, ScanInv
<1>5. ASSUME NEW n \in Process, Kill(n) PROVE ScanInv'
  BY <1>5 DEF Kill, ScanInv
<1>6. CASE UNCHANGED vars
  <2>1. UNCHANGED <<alloc, need, procVec, fakeAvail, pc, finished, work, i>>
    BY <1>6 DEF vars, stateVars, scanVars
  <2>2. FinishedProcs' = FinishedProcs  BY <2>1 DEF FinishedProcs
  <2> QED  BY <2>1, <2>2 DEF ScanInv, Column, B!Within
<1> QED  BY <1>1, <1>2, <1>3, <1>4, <1>5, <1>6 DEF Next, BankerStep, Exited

LEMMA ListedOnceStep ==
    ASSUME TypeOK, ListedOnce, [Next]_vars
    PROVE  ListedOnce'
<1>1. ASSUME NEW n \in Process, Kill(n) PROVE ListedOnce'  BY <1>1, KillList
<1>2. CASE BankerStep \/ Ask \/ UNCHANGED vars
  <2>1. procVec' = procVec
    BY <1>2 DEF BankerStep, Ask, TurnDown, Pretend, ScanFinish, ScanSkip, Grant, Reject,
                vars, stateVars
  <2> QED  BY <2>1 DEF ListedOnce
<1> QED  BY <1>1, <1>2 DEF Next, Exited

\* A scan that has finished everybody has found a safe state.
LEMMA GrantIsSafe ==
    ASSUME TypeOK, ScanInv, Grant
    PROVE  /\ B!Safe(fakeAvail, alloc, need, Range(procVec))
           /\ available' = fakeAvail /\ alloc' = alloc /\ need' = need
           /\ procVec' = procVec /\ input' = input /\ pc' = "prompt"
<1>1. pc = "scan" /\ finished = DOMAIN procVec  BY DEF Grant, AllFinished
<1>2. FinishedProcs = Range(procVec)  BY <1>1 DEF FinishedProcs, Range
<1>3. B!Safe(fakeAvail, alloc, need, FinishedProcs)  BY <1>1 DEF ScanInv
<1> QED  BY <1>2, <1>3 DEF Grant, Return, fileVars

LEMMA SafeBeforeStep ==
    ASSUME TypeOK, ListedOnce, ScanInv, SafeBefore, [Next]_vars
    PROVE  SafeBefore'
<1> DEFINE IsSafe(av, al, nd, P) == SafeInput => B!Safe(av, al, nd, P)
<1>1. IsSafe(available, OldAlloc, OldNeed, Range(procVec))
  BY DEF SafeBefore, OldAlloc, OldNeed
<1>2. SUFFICES /\ input' = input
               /\ IsSafe(available', OldAlloc', OldNeed', Range(procVec'))
  BY DEF SafeBefore, OldAlloc, OldNeed, SafeInput
<1>3. CASE Ask \/ TurnDown \/ Pretend \/ ScanFinish \/ ScanSkip \/ Reject \/ UNCHANGED vars
  <2>1. UNCHANGED <<input, available, OldAlloc, OldNeed, procVec>>  BY <1>3, OldStep
  <2> HIDE DEF IsSafe
  <2> QED  BY <1>1, <2>1
<1>4. CASE Grant
  <2>1. OldAlloc' = alloc' /\ OldNeed' = need'
    BY <1>4, GrantIsSafe DEF OldAlloc, OldNeed, Undone
  <2> QED  BY <1>4, <2>1, GrantIsSafe
<1>5. ASSUME NEW n \in Process, Kill(n)
      PROVE  /\ input' = input
             /\ IsSafe(available', OldAlloc', OldNeed', Range(procVec'))
  <2> DEFINE p == procVec[n]
  <2>1. /\ p \in Range(procVec) /\ Range(procVec') = Range(procVec) \ {p}
    BY <1>5, KillList
  <2>2. /\ available' = B!Plus(available, alloc[p]) /\ alloc' = alloc /\ need' = need
        /\ input' = input /\ pc = "prompt" /\ pc' # "scan"
    BY <1>5 DEF Kill, fileVars
  <2>3. OldAlloc = alloc /\ OldNeed = need /\ OldAlloc' = alloc /\ OldNeed' = need
    BY <2>2 DEF OldAlloc, OldNeed, Undone
  <2>4. /\ available \in [Resource -> Nat] /\ alloc \in [Process -> [Resource -> Nat]]
        /\ need \in [Process -> [Resource -> Nat]]
    BY DEF TypeOK
  <2>5. ASSUME SafeInput PROVE B!Safe(available', alloc, need, Range(procVec) \ {p})
    <3>1. B!Safe(available, alloc, need, Range(procVec))  BY <1>1, <2>3, <2>5
    <3> HIDE DEF p
    <3> QED  BY <2>1, <2>2, <2>4, <3>1, LiveProcesses, SafeWithout
  <2> QED  BY <2>1, <2>2, <2>3, <2>5
<1> QED  BY <1>3, <1>4, <1>5 DEF Next, BankerStep, Exited

LEMMA BankerStepInv == TypeOK /\ BankerInv /\ [Next]_vars => BankerInv'
BY ListedOnceStep, TriedOutStep, ScanStep, SafeBeforeStep DEF BankerInv

\* While banker() tries a request out, what it will undo, what the scan of
\* safeState has released and what it has found to be safe are right.
THEOREM BankerInvariant == Spec => []BankerInv
<1>1. Init => BankerInv  BY BankerInit
<1>2. TypeOK /\ BankerInv /\ [Next]_vars => BankerInv'  BY BankerStepInv
<1> QED  BY <1>1, <1>2, TypeCorrect, PTL DEF Spec

\* From a safe input file the banker is in a safe state whenever it waits for
\* input: no sequence of granted and rejected requests and of kills leads to a
\* state in which the live processes could wait for each other for ever
\* (safeState and banker, for any number of processes and resources).
THEOREM StaysSafeCorrect == Spec => []StaysSafe
<1>1. BankerInv => StaysSafe  BY DEF BankerInv, SafeBefore, StaysSafe, Undone
<1> QED  BY <1>1, BankerInvariant, PTL

\* The work of safeState is what is free plus what the finished processes
\* hold, although the scan starts over after every process it finishes.
THEOREM WorkCorrect == Spec => []WorkIsReleased
<1>1. TypeOK /\ BankerInv => WorkIsReleased
  <2> SUFFICES ASSUME TypeOK, BankerInv, pc = "scan", NEW r \in Resource
               PROVE  work[r] = fakeAvail[r] + RowSum(alloc, procVec, r, finished)
    BY DEF WorkIsReleased, RowSum
  <2>1. /\ finished \subseteq DOMAIN procVec
        /\ work[r] = fakeAvail[r] + SumOf(Column(alloc, r), FinishedProcs)
    BY DEF BankerInv, ScanInv
  <2>2. IsFiniteSet(finished)
    <3>1. finished \in SUBSET (1 .. Len(procVec)) /\ 1 \in Int /\ Len(procVec) \in Int
      BY <2>1, LiveProcesses
    <3>2. IsFiniteSet(1 .. Len(procVec))  BY <3>1, FS_Interval
    <3> QED  BY <3>1, <3>2, FS_Subset
  <2>3. /\ \A n \in finished : procVec[n] \in Process
        /\ \A m, n \in finished : procVec[m] = procVec[n] => m = n
    BY <2>1, LiveProcesses DEF BankerInv, ListedOnce
  <2>4. alloc \in [Process -> [Resource -> Nat]]  BY DEF TypeOK
  <2>5. RowSum(alloc, procVec, r, finished) = SumOf(Column(alloc, r), FinishedProcs)
    BY <2>2, <2>3, <2>4, SumOfPositions DEF FinishedProcs
  <2> QED  BY <2>1, <2>5
<1> QED  BY <1>1, TypeCorrect, BankerInvariant, PTL

-----------------------------------------------------------------------------
(* Conservation of the units. *)

Free == IF pc = "scan" THEN fakeAvail ELSE available

Units(r) == Free[r] + SumOf(Column(alloc, r), Range(procVec))

LEMMA UnitsType ==
    ASSUME TypeOK, NEW r \in Resource
    PROVE  /\ Free[r] \in Nat
           /\ SumOf(Column(alloc, r), Range(procVec)) \in Nat
<1>1. Free \in [Resource -> Nat] /\ alloc \in [Process -> [Resource -> Nat]]
  BY DEF TypeOK, Free
<1>2. Range(procVec) \in SUBSET Process  BY LiveProcesses
<1> QED  BY <1>1, <1>2, ColumnSumType

LEMMA PretendUnits ==
    ASSUME TypeOK, Pretend, NEW r \in Resource
    PROVE  Units(r)' = Units(r)
<1> DEFINE q == request.proc
           v == request.amounts
           S == SumOf(Column(alloc, r), Range(procVec))
<1>1. /\ pc = "banker" /\ pc' = "scan" /\ procVec' = procVec
      /\ alloc' = [alloc EXCEPT ![q] = B!Plus(@, v)]
      /\ fakeAvail' = B!Minus(available, v)
  BY DEF Pretend
<1>2. q \in Range(procVec) /\ Range(procVec) \in SUBSET Process
  BY <1>1, LiveProcesses DEF TypeOK
<1>3. v \in [Resource -> Nat]  BY <1>1, RequestFacts
<1>4. TypeOK'  BY PretendType
<1>5. /\ alloc \in [Process -> [Resource -> Nat]] /\ alloc' \in [Process -> [Resource -> Nat]]
      /\ available \in [Resource -> Nat]
  BY <1>4 DEF TypeOK
<1>6. /\ \A p \in Process \ {q} : alloc'[p] = alloc[p]
      /\ alloc'[q] = B!Plus(alloc[q], v)
  BY <1>1, <1>2, <1>5
<1>7. alloc'[q][r] = alloc[q][r] + v[r]  BY <1>6 DEF B!Plus
<1>8. SumOf(Column(alloc', r), Range(procVec)) = S - alloc[q][r] + alloc'[q][r]
  <2> HIDE DEF q
  <2> QED  BY <1>2, <1>5, <1>6, ColumnSumChanged
<1>9. Free'[r] = available[r] - v[r] /\ Free[r] = available[r]
  BY <1>1 DEF Free, B!Minus
<1>10. /\ Units(r)' = Free'[r] + SumOf(Column(alloc', r), Range(procVec))
       /\ Units(r) = Free[r] + S
  BY <1>1 DEF Units, Column
<1>11. S \in Int /\ available[r] \in Int /\ v[r] \in Int /\ alloc[q][r] \in Int
  BY <1>2, <1>3, <1>5, UnitsType
<1> DEFINE a == available[r]
           b == v[r]
           c == alloc[q][r]
<1>12. (a - b) + (S - c + (c + b)) = a + S
  <2>1. a \in Int /\ b \in Int /\ c \in Int /\ S \in Int  BY <1>11
  <2> HIDE DEF a, b, c, S
  <2> QED  BY <2>1
<1> QED  BY <1>7, <1>8, <1>9, <1>10, <1>12

LEMMA RejectUnits ==
    ASSUME TypeOK, TriedOut, Reject, NEW r \in Resource
    PROVE  Units(r)' = Units(r)
<1> DEFINE q == request.proc
           v == request.amounts
           S == SumOf(Column(alloc, r), Range(procVec))
<1>1. /\ pc = "scan" /\ pc' = "prompt" /\ procVec' = procVec /\ available' = available
      /\ alloc' = [alloc EXCEPT ![q] = backup.alloc]
  BY DEF Reject, Return
<1>2. q \in Range(procVec) /\ Range(procVec) \in SUBSET Process
  BY <1>1, LiveProcesses DEF TypeOK
<1>3. v \in [Resource -> Nat] /\ backup.alloc \in [Resource -> Nat]
  BY <1>1, RequestFacts DEF TypeOK
<1>4. TypeOK'  BY ReturnType
<1>5. /\ alloc \in [Process -> [Resource -> Nat]] /\ alloc' \in [Process -> [Resource -> Nat]]
      /\ available \in [Resource -> Nat]
  BY <1>4 DEF TypeOK
<1>6. /\ \A p \in Process \ {q} : alloc'[p] = alloc[p]
      /\ alloc'[q] = backup.alloc
  BY <1>1, <1>2, <1>5
<1>7. alloc[q][r] = backup.alloc[r] + v[r] /\ fakeAvail[r] = available[r] - v[r]
  BY <1>1 DEF TriedOut, B!Plus, B!Minus
<1>8. SumOf(Column(alloc', r), Range(procVec)) = S - alloc[q][r] + alloc'[q][r]
  <2> HIDE DEF q
  <2> QED  BY <1>2, <1>5, <1>6, ColumnSumChanged
<1>9. Free'[r] = available[r] /\ Free[r] = fakeAvail[r]  BY <1>1 DEF Free
<1>10. /\ Units(r)' = Free'[r] + SumOf(Column(alloc', r), Range(procVec))
       /\ Units(r) = Free[r] + S
  BY <1>1 DEF Units, Column
<1> DEFINE a == available[r]
           b == v[r]
           c == backup.alloc[r]
<1>11. S \in Int /\ a \in Int /\ b \in Int /\ c \in Int
  BY <1>2, <1>3, <1>5, UnitsType
<1>12. a + (S - (c + b) + c) = (a - b) + S
  <2> HIDE DEF a, b, c, S
  <2> QED  BY <1>11
<1> QED  BY <1>6, <1>7, <1>8, <1>9, <1>10, <1>12

LEMMA KillUnits ==
    ASSUME TypeOK, ListedOnce, NEW n \in Process, Kill(n), NEW r \in Resource
    PROVE  Units(r)' = Units(r)
<1> DEFINE p == procVec[n]
           R == Range(procVec) \ {p}
           S == SumOf(Column(alloc, r), R)
<1>1. /\ p \in Range(procVec) /\ Range(procVec') = R  BY KillList
<1>2. /\ available' = B!Plus(available, alloc[p]) /\ alloc' = alloc
      /\ pc = "prompt" /\ pc' # "scan"
  BY DEF Kill
<1>3. R \in SUBSET Process /\ p \in Process \ R /\ Range(procVec) = R \cup {p}
  BY <1>1, LiveProcesses
<1>4. alloc \in [Process -> [Resource -> Nat]] /\ available \in [Resource -> Nat]  BY DEF TypeOK
<1>5. SumOf(Column(alloc, r), R \cup {p}) = S + alloc[p][r]
  <2> HIDE DEF R, p
  <2> QED  BY <1>3, <1>4, ColumnSumWith
<1>6. Free'[r] = available[r] + alloc[p][r] /\ Free[r] = available[r]
  BY <1>2 DEF Free, B!Plus
<1>7. Units(r)' = Free'[r] + S /\ Units(r) = Free[r] + SumOf(Column(alloc, r), R \cup {p})
  <2> HIDE DEF R, p
  <2> QED  BY <1>1, <1>2, <1>3 DEF Units, Column
<1> DEFINE a == available[r]
           b == alloc[p][r]
<1>8. S \in Int /\ a \in Int /\ b \in Int
  <2> HIDE DEF R
  <2> QED  BY <1>3, <1>4, ColumnSumType
<1>9. (a + b) + S = a + (S + b)
  <2> HIDE DEF a, b, S
  <2> QED  BY <1>8
<1> QED  BY <1>5, <1>6, <1>7, <1>9

UnitsInv ==
    \A r \in Resource : Units(r) = input.available[r] + SumOf(Column(input.alloc, r), Process)

LEMMA UnitsStep ==
    ASSUME TypeOK, BankerInv, UnitsInv, [Next]_vars
    PROVE  UnitsInv'
<1>1. SUFFICES /\ input' = input
               /\ \A r \in Resource : Units(r)' = Units(r)
  BY DEF UnitsInv, Column
<1>2. CASE Pretend  BY <1>2, PretendUnits DEF Pretend, fileVars
<1>3. CASE Reject   BY <1>3, RejectUnits DEF Reject, fileVars, BankerInv
<1>4. ASSUME NEW n \in Process, Kill(n)
      PROVE  input' = input /\ \A r \in Resource : Units(r)' = Units(r)
  BY <1>4, KillUnits DEF Kill, fileVars, BankerInv
<1>5. CASE Grant
  <2>1. /\ input' = input /\ alloc' = alloc /\ procVec' = procVec /\ pc = "scan" /\ pc' = "prompt"
        /\ available' = fakeAvail
    BY <1>5 DEF Grant, Return, fileVars
  <2> QED  BY <2>1 DEF Units, Free, Column
<1>6. CASE Ask \/ TurnDown \/ ScanFinish \/ ScanSkip \/ UNCHANGED vars
  <2>1. /\ UNCHANGED <<input, alloc, procVec, available, fakeAvail>>
        /\ pc' = "scan" <=> pc = "scan"
    BY <1>6 DEF Ask, TurnDown, ScanFinish, ScanSkip, Return, vars, fileVars, stateVars
  <2> QED  BY <2>1 DEF Units, Free, Column
<1> QED  BY <1>2, <1>3, <1>4, <1>5, <1>6 DEF Next, BankerStep, Exited

\* No unit of a resource is created or lost: what is free and what the live
\* processes hold add up to the input file's total, through requests, the
\* tentative allocation and its rollback, and kills (banker and main).
THEOREM UnitsCorrect == Spec => []UnitsAreConserved
<1>1. Init => UnitsInv
  <2> SUFFICES ASSUME Init, NEW r \in Resource
               PROVE  Units(r) = input.available[r] + SumOf(Column(input.alloc, r), Process)
    BY DEF UnitsInv
  <2>1. /\ available = input.available /\ alloc = input.alloc /\ pc = "prompt"
        /\ procVec = [n \in Process |-> n]
    BY DEF Init
  <2>2. Range(procVec) = Process  BY <2>1 DEF Range
  <2> QED  BY <2>1, <2>2 DEF Units, Free
<1>2. TypeOK /\ BankerInv /\ UnitsInv /\ [Next]_vars => UnitsInv'  BY UnitsStep
<1>3. TypeOK /\ UnitsInv => UnitsAreConserved
  <2> SUFFICES ASSUME TypeOK, UnitsInv, NEW r \in Resource
               PROVE  Free[r] + ColumnSum(alloc, r, Range(procVec))
                        = input.available[r] + ColumnSum(input.alloc, r, Process)
    BY DEF UnitsAreConserved, Held, InputTotal, Free, ColumnSum
  <2>1. ColumnSum(alloc, r, Range(procVec)) = SumOf(Column(alloc, r), Range(procVec))
    BY LiveProcesses, SumOfColumn
  <2>2. ColumnSum(input.alloc, r, Process) = SumOf(Column(input.alloc, r), Process)
    BY SumOfColumn
  <2> QED  BY <2>1, <2>2 DEF UnitsInv, Units
<1> QED  BY <1>1, <1>2, <1>3, TypeCorrect, BankerInvariant, PTL DEF Spec

-----------------------------------------------------------------------------
(***************************************************************************)
(* banker() implements BankerService.  A scan that ends without finishing  *)
(* everybody proves that no order exists: the first process of an order    *)
(* that the scan has not finished finds its need in the scan's work.       *)
(***************************************************************************)
LEMMA RejectIsUnsafe ==
    ASSUME TypeOK, ListedOnce, ScanInv, Reject
    PROVE  ~ B!Safe(fakeAvail, alloc, need, Range(procVec))
<1>1. /\ pc = "scan" /\ i > Len(procVec) /\ finished # DOMAIN procVec
  BY DEF Reject, AllFinished
<1>2. /\ finished \subseteq DOMAIN procVec /\ i <= Len(procVec) + 1
      /\ \A r \in Resource : work[r] = fakeAvail[r] + SumOf(Column(alloc, r), FinishedProcs)
      /\ \A n \in 1 .. i - 1 : n \in finished \/ ~ B!Within(need[procVec[n]], work)
  BY <1>1 DEF ScanInv
<1>3. FinishedProcs \in SUBSET Process /\ Range(procVec) \in SUBSET Process
  BY <1>2, LiveProcesses DEF FinishedProcs
<1>4. ~ Range(procVec) \subseteq FinishedProcs
  <2>1. PICK n \in DOMAIN procVec : n \notin finished  BY <1>1, <1>2
  <2>2. procVec[n] \notin FinishedProcs  BY <1>2, <2>1 DEF FinishedProcs, ListedOnce
  <2> QED  BY <2>1, <2>2, LiveProcesses
<1>5. /\ fakeAvail \in [Resource -> Nat] /\ alloc \in [Process -> [Resource -> Nat]]
      /\ need \in [Process -> [Resource -> Nat]]
  BY DEF TypeOK
<1>6. SUFFICES ASSUME B!Safe(fakeAvail, alloc, need, Range(procVec)) PROVE FALSE  OBVIOUS
<1>7. PICK p \in Range(procVec) \ FinishedProcs :
           Bounded(p, fakeAvail, alloc, need, FinishedProcs)
  BY <1>3, <1>4, <1>5, <1>6, SafeHasNext
<1>8. PICK n \in DOMAIN procVec : p = procVec[n]  BY DEF Range
<1>9. n \notin finished  BY <1>7, <1>8 DEF FinishedProcs
<1>10. n \in 1 .. i - 1
  <2>1. n \in 1 .. Len(procVec) /\ Len(procVec) \in Nat /\ i \in Nat
    BY <1>8, LiveProcesses DEF TypeOK
  <2> QED  BY <1>1, <1>2, <2>1
<1>11. B!Within(need[p], work)  BY <1>2, <1>7 DEF Bounded, B!Within
<1> QED  BY <1>2, <1>8, <1>9, <1>10, <1>11

\* The operators of the service that Banker also uses are the same.
LEMMA SameOperators ==
    /\ \A u, v : Service!Plus(u, v) = B!Plus(u, v)
    /\ \A u, v : Service!Minus(u, v) = B!Minus(u, v)
    /\ \A u, v : Service!Within(u, v) <=> B!Within(u, v)
BY DEF Service!Plus, B!Plus, Service!Minus, B!Minus, Service!Within, B!Within

LEMMA SameSafe ==
    ASSUME NEW avail, NEW al, NEW nd, NEW P
    PROVE  Service!Safe(avail, al, nd, P) <=> B!Safe(avail, al, nd, P)
BY DEF Service!Safe, B!Safe, Service!SafeOrder, B!SafeOrder,
       Service!MapThenSumSet, Service!MapThenFoldSet, B!MapThenSumSet, B!MapThenFoldSet,
       Service!Bijection, B!Bijection, Service!Injection, B!Injection,
       Service!IsInjective, B!IsInjective, Service!Surjection, B!Surjection,
       Service!Cardinality, B!Cardinality

\* What is granted is what was asked of the state before the trial.
GrantableNow ==
    LET p == request.proc
        v == request.amounts
    IN  /\ B!Within(v, OldNeed[p])
        /\ B!Within(v, available)
        /\ B!Safe(B!Minus(available, v), [OldAlloc EXCEPT ![p] = B!Plus(@, v)],
                  [OldNeed EXCEPT ![p] = B!Minus(@, v)], Range(procVec))

LEMMA GrantableIsGrantable ==
    Service!Grantable(request.proc, request.amounts) <=> GrantableNow
BY SameOperators, SameSafe DEF Service!Grantable, GrantableNow, OldAlloc, OldNeed

Request == [proc: Process, amounts: [Resource -> Amounts], names: NameOrders]

LEMMA NoRequestMeansIdle ==
    ASSUME TypeOK
    PROVE  request = NoRequest <=> pc \in {"prompt", "exit"}
<1>1. ASSUME pc \in {"banker", "scan"} PROVE request # NoRequest
  <2>1. request \in Request  BY <1>1, LiveProcesses DEF TypeOK, Request
  <2> QED  BY <2>1, RequestAssumption DEF Request
<1> QED  BY <1>1 DEF TypeOK

\* During a scan the state is the one before with the request added.
LEMMA TrialRedone ==
    ASSUME TypeOK, TriedOut, pc = "scan"
    PROVE  LET p == request.proc
               v == request.amounts
           IN  /\ B!Minus(available, v) = fakeAvail
               /\ [OldAlloc EXCEPT ![p] = B!Plus(@, v)] = alloc
               /\ [OldNeed EXCEPT ![p] = B!Minus(@, v)] = need
               /\ B!Within(v, OldNeed[p]) /\ B!Within(v, available)
<1> DEFINE p == request.proc
           v == request.amounts
<1>1. p \in Process  BY RequestFacts
<1>2. alloc \in [Process -> [Resource -> Nat]] /\ need \in [Process -> [Resource -> Nat]]
  BY DEF TypeOK
<1>3. OldAlloc = [alloc EXCEPT ![p] = backup.alloc] /\ OldNeed = [need EXCEPT ![p] = backup.need]
  BY DEF OldAlloc, OldNeed, Undone
<1>4. /\ B!Within(v, backup.need) /\ B!Within(v, available)
      /\ fakeAvail = B!Minus(available, v)
      /\ alloc[p] = B!Plus(backup.alloc, v)
      /\ need[p] = B!Minus(backup.need, v)
  BY DEF TriedOut
<1>5. OldAlloc[p] = backup.alloc /\ OldNeed[p] = backup.need  BY <1>1, <1>2, <1>3
<1> HIDE DEF p, v
<1>6. [OldAlloc EXCEPT ![p] = B!Plus(@, v)] = alloc
  <2>1. [OldAlloc EXCEPT ![p] = B!Plus(@, v)] = [OldAlloc EXCEPT ![p] = alloc[p]]
    BY <1>4, <1>5
  <2> QED  BY <1>1, <1>2, <1>3, <2>1
<1>7. [OldNeed EXCEPT ![p] = B!Minus(@, v)] = need
  <2>1. [OldNeed EXCEPT ![p] = B!Minus(@, v)] = [OldNeed EXCEPT ![p] = need[p]]
    BY <1>4, <1>5
  <2> QED  BY <1>1, <1>2, <1>3, <2>1
<1> QED  BY <1>4, <1>5, <1>6, <1>7 DEF p, v

LEMMA GrantDecides ==
    ASSUME TypeOK, BankerInv, Grant
    PROVE  Service!Decide
<1> DEFINE p == request.proc
           v == request.amounts
<1>1. /\ pc = "scan" /\ pc' = "prompt" /\ request' = NoRequest /\ verdict' = "granted"
      /\ available' = fakeAvail /\ alloc' = alloc /\ need' = need /\ procVec' = procVec
  BY DEF Grant, Return
<1>2. request # NoRequest  BY <1>1, NoRequestMeansIdle
<1>3. /\ B!Minus(available, v) = fakeAvail
      /\ [OldAlloc EXCEPT ![p] = B!Plus(@, v)] = alloc
      /\ [OldNeed EXCEPT ![p] = B!Minus(@, v)] = need
      /\ B!Within(v, OldNeed[p]) /\ B!Within(v, available)
  BY <1>1, TrialRedone DEF BankerInv
<1>4. B!Safe(fakeAvail, alloc, need, Range(procVec))  BY GrantIsSafe DEF BankerInv
<1>5. Service!Grantable(p, v)
  <2>1. GrantableNow  BY <1>3, <1>4 DEF GrantableNow
  <2> QED  BY <2>1, GrantableIsGrantable
<1>6. OldAlloc' = alloc /\ OldNeed' = need  BY <1>1 DEF OldAlloc, OldNeed, Undone
<1>7. /\ available' = Service!Minus(available, v)
      /\ OldAlloc' = [OldAlloc EXCEPT ![p] = Service!Plus(@, v)]
      /\ OldNeed' = [OldNeed EXCEPT ![p] = Service!Minus(@, v)]
  BY <1>1, <1>3, <1>6, SameOperators
<1>8. Range(procVec)' = Range(procVec)  BY <1>1
<1> QED  BY <1>1, <1>2, <1>5, <1>7, <1>8 DEF Service!Decide, OldAlloc, OldNeed

LEMMA RejectDecides ==
    ASSUME TypeOK, BankerInv, Reject
    PROVE  Service!Decide
<1> DEFINE p == request.proc
           v == request.amounts
<1>1. pc = "scan" /\ request' = NoRequest /\ verdict' = "rejected"
  BY DEF Reject, Return
<1>2. request # NoRequest  BY <1>1, NoRequestMeansIdle
<1>3. ~ Service!Grantable(p, v)
  <2>1. /\ B!Minus(available, v) = fakeAvail
        /\ [OldAlloc EXCEPT ![p] = B!Plus(@, v)] = alloc
        /\ [OldNeed EXCEPT ![p] = B!Minus(@, v)] = need
    BY <1>1, TrialRedone DEF BankerInv
  <2>2. ~ B!Safe(fakeAvail, alloc, need, Range(procVec))  BY RejectIsUnsafe DEF BankerInv
  <2>3. ~ GrantableNow  BY <2>1, <2>2 DEF GrantableNow
  <2> QED  BY <2>3, GrantableIsGrantable
<1>4. UNCHANGED <<available, OldAlloc, OldNeed, procVec>>  BY OldStep
<1>5. Range(procVec)' = Range(procVec)  BY <1>4
<1> QED  BY <1>1, <1>2, <1>3, <1>4, <1>5 DEF Service!Decide, OldAlloc, OldNeed

LEMMA TurnDownDecides ==
    ASSUME TypeOK, TurnDown
    PROVE  Service!Decide
<1> DEFINE p == request.proc
           v == request.amounts
<1>1. pc = "banker" /\ request' = NoRequest /\ verdict' = "rejected" /\ ~ Affordable
  BY DEF TurnDown, Return
<1>2. request # NoRequest  BY <1>1, NoRequestMeansIdle
<1>3. ~ Service!Grantable(p, v)
  <2>1. OldNeed = need  BY <1>1, OldType
  <2>2. ~ GrantableNow  BY <1>1, <2>1 DEF GrantableNow, Affordable
  <2> QED  BY <2>2, GrantableIsGrantable
<1>4. UNCHANGED <<available, OldAlloc, OldNeed, procVec>>  BY OldStep
<1>5. Range(procVec)' = Range(procVec)  BY <1>4
<1> QED  BY <1>1, <1>2, <1>3, <1>4, <1>5 DEF Service!Decide, OldAlloc, OldNeed

LEMMA ServiceStep ==
    ASSUME TypeOK, BankerInv, [Next]_vars
    PROVE  [Service!ServiceNext]_(Service!serviceVars)
<1>1. CASE TurnDown  BY <1>1, TurnDownDecides DEF Service!ServiceNext
<1>2. CASE Grant     BY <1>2, GrantDecides DEF Service!ServiceNext
<1>3. CASE Reject    BY <1>3, RejectDecides DEF Service!ServiceNext
<1>4. CASE Ask
  <2>1. UNCHANGED <<available, OldAlloc, OldNeed, procVec, verdict>>
    BY <1>4, OldStep DEF Ask
  <2>2. request = NoRequest  BY <1>4, NoRequestMeansIdle DEF Ask
  <2>3. request' # NoRequest
    <3>1. TypeOK' /\ pc' = "banker"  BY <1>4, AskType DEF Ask
    <3>2. request' \in [proc: Range(procVec), amounts: [Resource -> Amounts], names: NameOrders]
      BY <1>4 DEF Ask
    <3>3. request' \in Request  BY <3>2, LiveProcesses DEF Request
    <3> QED  BY <3>3, RequestAssumption DEF Request
  <2>4. request'.proc \in Range(procVec)  BY <1>4 DEF Ask
  <2>5. Range(procVec)' = Range(procVec)  BY <2>1
  <2> QED
    BY <2>1, <2>2, <2>3, <2>4, <2>5
    DEF Service!ServiceNext, Service!Ask, OldAlloc, OldNeed
<1>5. ASSUME NEW n \in Process, Kill(n) PROVE Service!ServiceNext
  <2> DEFINE p == procVec[n]
  <2>1. p \in Range(procVec) /\ Range(procVec') = Range(procVec) \ {p}
    BY <1>5, KillList DEF BankerInv
  <2>2. /\ available' = B!Plus(available, alloc[p])
        /\ UNCHANGED <<alloc, need, request, verdict>> /\ pc = "prompt" /\ pc' # "scan"
    BY <1>5 DEF Kill
  <2>3. request = NoRequest  BY <2>2, NoRequestMeansIdle
  <2>4. OldAlloc = alloc /\ OldAlloc' = alloc /\ OldNeed = need /\ OldNeed' = need
    BY <2>2 DEF OldAlloc, OldNeed, Undone
  <2>5. available' = Service!Plus(available, OldAlloc[p])  BY <2>2, <2>4, SameOperators
  <2>6. Range(procVec)' = Range(procVec) \ {p}  BY <2>1
  <2> HIDE DEF p
  <2>7. Service!Kill(p)
    BY <2>1, <2>2, <2>3, <2>4, <2>5, <2>6 DEF Service!Kill, OldAlloc, OldNeed
  <2> QED  BY <2>1, <2>7 DEF Service!ServiceNext
<1>6. CASE Pretend \/ ScanFinish \/ ScanSkip \/ UNCHANGED vars
  <2>1. UNCHANGED <<available, OldAlloc, OldNeed, procVec>>  BY <1>6, OldStep
  <2>2. UNCHANGED <<request, verdict>>
    BY <1>6 DEF Pretend, ScanFinish, ScanSkip, vars
  <2>3. Range(procVec)' = Range(procVec)  BY <2>1
  <2> QED  BY <2>1, <2>2, <2>3 DEF Service!serviceVars, OldAlloc, OldNeed
<1> QED  BY <1>1, <1>2, <1>3, <1>4, <1>5, <1>6 DEF Next, BankerStep, Exited

LEMMA ServiceInitially == Init => Service!ServiceInit
<1> SUFFICES ASSUME Init PROVE Service!ServiceInit  OBVIOUS
<1>1. procVec = [n \in Process |-> n]  BY DEF Init
<1>2. Range(procVec) = Process  BY <1>1 DEF Range
<1> QED  BY <1>2 DEF Init, Service!ServiceInit

\* banker() grants exactly the requests that leave a safe state: the scan
\* neither grants an unsafe request nor rejects a safe one, and a rejected
\* request leaves no trace (banker, safeState and main).
THEOREM BankerImplements == Spec => ImplementsService
<1>1. Init => Service!ServiceInit  BY ServiceInitially
<1>2. TypeOK /\ BankerInv /\ [Next]_vars => [Service!ServiceNext]_(Service!serviceVars)
  BY ServiceStep
<1> QED
  BY <1>1, <1>2, TypeCorrect, BankerInvariant, PTL
  DEF Spec, ImplementsService, Service!ServiceSpec
=============================================================================
