------------------------- MODULE CommandLine_proofs -------------------------
(***************************************************************************)
(* Proofs about CommandLine, for any words, hosts, proxies and command     *)
(* lines: how a text is split, how its arguments and those the runner adds *)
(* become one vector, and that the choice of a proxy always finds one.     *)
(*                                                                         *)
(* The code's loops over sequences are folds.  The first part shows once   *)
(* what a fold is, by the least-number principle: a chain of accumulators, *)
(* each made from the one before and the next element.                     *)
(***************************************************************************)
EXTENDS CommandLine, SequenceTheorems, WellFoundedInduction, TLAPS

LEMMA Least ==
    ASSUME NEW S \in SUBSET Nat, S # {}
    PROVE  \E n \in S : \A k \in S : n <= k
  <1> DEFINE R == OpToRel(<, Nat)
  <1>1. IsWellFoundedOn(R, Nat)
    BY NatLessThanWellFounded
  <1>2. R = {ss \in Nat \X Nat : ss[1] < ss[2]}
    BY DEF OpToRel
  <1> HIDE DEF R
  <1>3. PICK n \in S : \A k \in S : <<k, n>> \notin R
    BY <1>1, WFMin
  <1>4. ASSUME NEW k \in S PROVE n <= k
    <2>1. ~(k < n)
      BY <1>2, <1>3
    <2> QED
      BY <2>1
  <1> QED
    BY <1>4

LEMMA Induction ==
    ASSUME NEW n \in Nat, NEW S, 0 \in S, \A k \in 1 .. n : k - 1 \in S => k \in S
    PROVE  0 .. n \subseteq S
  <1> SUFFICES ASSUME (0 .. n) \ S # {} PROVE FALSE
    OBVIOUS
  <1> DEFINE T == (0 .. n) \ S
  <1>0. T \in SUBSET Nat /\ T # {}
    OBVIOUS
  <1> HIDE DEF T
  <1>1. PICK k \in T : \A j \in T : k <= j
    BY <1>0, Least
  <1> USE DEF T
  <1>2. k \in 1 .. n /\ k - 1 \in 0 .. n
    BY <1>1
  <1>3. k - 1 \in S
    BY <1>1, <1>2
  <1> QED
    BY <1>1, <1>2, <1>3

LEMMA Greatest ==
    ASSUME NEW n \in Nat, NEW T \in SUBSET (1 .. n), T # {}
    PROVE  Max(T) \in T /\ \A t \in T : t <= Max(T)
  <1> DEFINE S == {n - t : t \in T}
  <1>1. S \in SUBSET Nat /\ S # {}
    <2>1. \A t \in T : n - t \in Nat
      OBVIOUS
    <2> QED
      BY <2>1
  <1> HIDE DEF S
  <1>2. PICK d \in S : \A k \in S : d <= k
    BY <1>1, Least
  <1> USE DEF S
  <1>3. PICK m \in T : d = n - m
    BY <1>2
  <1>4. ASSUME NEW t \in T PROVE m >= t
    <2>1. n - m <= n - t
      BY <1>2, <1>3
    <2>2. m \in 1 .. n /\ t \in 1 .. n
      OBVIOUS
    <2> QED
      BY <2>1, <2>2
  <1> QED
    BY <1>3, <1>4 DEF Max

LEMMA GreatestIs ==
    ASSUME NEW n \in Nat, NEW T \in SUBSET (1 .. n), NEW m \in T, \A t \in T : t <= m
    PROVE  Max(T) = m
  <1>1. Max(T) \in T /\ m <= Max(T) /\ Max(T) <= m
    BY Greatest
  <1>2. m \in 1 .. n /\ Max(T) \in 1 .. n
    BY <1>1
  <1> QED
    BY <1>1, <1>2

-----------------------------------------------------------------------------
(***************************************************************************)
(* Folds.  To fold the elements at the positions of a set is to fold those *)
(* at all but the greatest, and then that one.                             *)
(***************************************************************************)

Folded(it, base, h, n) ==
    \A s \in SUBSET (1 .. n) :
        it[s] = IF s = {} THEN base ELSE h[Max(s)][it[s \ {Max(s)}]]

LEMMA FoldExists ==
    ASSUME NEW n \in Nat, NEW Acc, NEW base \in Acc, NEW h \in [1 .. n -> [Acc -> Acc]]
    PROVE  \E it \in [SUBSET (1 .. n) -> Acc] : Folded(it, base, h, n)
  <1> DEFINE S == {k \in 0 .. n : \E it \in [SUBSET (1 .. k) -> Acc] : Folded(it, base, h, k)}
  <1>1. 0 \in S
    <2> DEFINE it == [s \in SUBSET (1 .. 0) |-> base]
    <2>1. it \in [SUBSET (1 .. 0) -> Acc]
      OBVIOUS
    <2>2. Folded(it, base, h, 0)
      BY DEF Folded
    <2> QED
      BY <2>1, <2>2
  <1>2. ASSUME NEW k \in 1 .. n, k - 1 \in S PROVE k \in S
    <2>1. PICK it \in [SUBSET (1 .. k - 1) -> Acc] : Folded(it, base, h, k - 1)
      BY <1>2
    <2> DEFINE it2 == [s \in SUBSET (1 .. k) |-> IF k \in s THEN h[k][it[s \ {k}]] ELSE it[s]]
    <2>2. ASSUME NEW s \in SUBSET (1 .. k)
          PROVE  s \ {k} \in SUBSET (1 .. k - 1) /\ (k \notin s => s \in SUBSET (1 .. k - 1))
      OBVIOUS
    <2>3. it2 \in [SUBSET (1 .. k) -> Acc]
      <3>1. ASSUME NEW s \in SUBSET (1 .. k)
            PROVE  (IF k \in s THEN h[k][it[s \ {k}]] ELSE it[s]) \in Acc
        BY <2>1, <2>2
      <3> QED
        BY <3>1
    <2>4. ASSUME NEW s \in SUBSET (1 .. k)
          PROVE  it2[s] = IF s = {} THEN base ELSE h[Max(s)][it2[s \ {Max(s)}]]
      <3>1. CASE k \in s
        <4>1. Max(s) = k
          <5>1. k \in Nat /\ \A t \in s : t <= k
            OBVIOUS
          <5> QED
            BY <3>1, <5>1, GreatestIs
        <4>2. s \ {k} \in SUBSET (1 .. k) /\ it2[s \ {k}] = it[s \ {k}]
          BY <2>2
        <4> QED
          BY <3>1, <4>1, <4>2
      <3>2. CASE k \notin s /\ s # {}
        <4>1. s \in SUBSET (1 .. k - 1) /\ Max(s) \in s
          <5>1. k \in Nat
            OBVIOUS
          <5> QED
            BY <2>2, <3>2, <5>1, Greatest
        <4>2. it2[s] = it[s] /\ it2[s \ {Max(s)}] = it[s \ {Max(s)}]
          BY <3>2, <4>1
        <4>3. it[s] = h[Max(s)][it[s \ {Max(s)}]]
          BY <2>1, <3>2, <4>1 DEF Folded
        <4> QED
          BY <3>2, <4>2, <4>3
      <3>3. CASE s = {}
        BY <2>1, <2>2, <3>3 DEF Folded
      <3> QED
        BY <3>1, <3>2, <3>3
    <2> HIDE DEF it2
    <2>5. Folded(it2, base, h, k)
      BY <2>4 DEF Folded
    <2> QED
      BY <2>3, <2>5
  <1>3. n \in S
    <2> HIDE DEF S
    <2>1. 0 .. n \subseteq S
      BY <1>1, <1>2, Induction
    <2> QED
      BY <2>1
  <1> QED
    BY <1>3

\* A fold is the end of a chain, of whatever makes its steps as h does.
Follows(it, base, h, n, Acc) ==
    /\ n \in Nat /\ base \in Acc /\ h \in [1 .. n -> [Acc -> Acc]]
    /\ it[{}] = base
    /\ \A s \in SUBSET (1 .. n) :
          s # {} /\ it[s \ {Max(s)}] \in Acc => it[s] = h[Max(s)][it[s \ {Max(s)}]]

LEMMA FoldChain ==
    ASSUME NEW n, NEW Acc, NEW base, NEW h, NEW it, Follows(it, base, h, n, Acc)
    PROVE  \E F \in [0 .. n -> Acc] :
               F[0] = base /\ F[n] = it[1 .. n] /\ \A k \in 1 .. n : F[k] = h[k][F[k - 1]]
  <1>0. n \in Nat /\ base \in Acc /\ h \in [1 .. n -> [Acc -> Acc]]
    BY DEF Follows
  <1> DEFINE F == [k \in 0 .. n |-> it[1 .. k]]
             S == {k \in 0 .. n : it[1 .. k] \in Acc}
  <1>1. it[1 .. 0] = base
    <2>1. 1 .. 0 = {}
      OBVIOUS
    <2> QED
      BY <2>1 DEF Follows
  <1>2. ASSUME NEW k \in 1 .. n, it[1 .. k - 1] \in Acc
        PROVE  it[1 .. k] = h[k][it[1 .. k - 1]] /\ it[1 .. k] \in Acc
    <2>1. 1 .. k \in SUBSET (1 .. n) /\ 1 .. k # {} /\ Max(1 .. k) = k
      <3>1. k \in 1 .. k /\ 1 .. k \in SUBSET (1 .. n) /\ \A t \in 1 .. k : t <= k
        BY <1>0
      <3>2. Max(1 .. k) = k
        BY <1>0, <3>1, GreatestIs
      <3> QED
        BY <3>1, <3>2
    <2>2. (1 .. k) \ {k} = 1 .. k - 1
      OBVIOUS
    <2>3. it[1 .. k] = h[k][it[1 .. k - 1]]
      BY <1>0, <1>2, <2>1, <2>2 DEF Follows
    <2> QED
      BY <1>0, <1>2, <2>3
  <1>3. 0 .. n \subseteq S
    <2>1. 0 \in S /\ \A k \in 1 .. n : k - 1 \in S => k \in S
      BY <1>0, <1>1, <1>2
    <2> HIDE DEF S
    <2> QED
      BY <1>0, <2>1, Induction
  <1>4. F \in [0 .. n -> Acc] /\ F[0] = base /\ F[n] = it[1 .. n]
    BY <1>0, <1>1, <1>3
  <1>5. \A k \in 1 .. n : F[k] = h[k][F[k - 1]]
    BY <1>0, <1>2, <1>3
  <1> QED
    BY <1>4, <1>5

-----------------------------------------------------------------------------
(***************************************************************************)
(* The three loops: the arguments added behind the user's (AppendMissing), *)
(* the scanner's (ScanPiece), and the session's over the proxies           *)
(* (AddActive).                                                            *)
(***************************************************************************)

AppendMissingKeeps(Acc, A) == \A acc \in Acc : \A e \in A : AppendMissing(acc, e) \in Acc

LEMMA AppendMissingType ==
    ASSUME NEW A
    PROVE  AppendMissingKeeps(Seq(A), A)
  BY DEF AppendMissing, AppendMissingKeeps

AppendMissingOfAll(base, s) == FoldLeft(AppendMissing, base, s)

AppendMissingIterated(iter, base, s) ==
    iter = [t \in SUBSET DOMAIN s |->
              IF t = {} THEN base ELSE AppendMissing(iter[t \ {Max(t)}], s[Max(t)])]

LEMMA AppendMissingChain ==
    ASSUME NEW A, NEW Acc, NEW base \in Acc, NEW s \in Seq(A),
           AppendMissingKeeps(Acc, A)
    PROVE  \E F \in [0 .. Len(s) -> Acc] :
               /\ F[0] = base /\ F[Len(s)] = AppendMissingOfAll(base, s)
               /\ \A k \in 1 .. Len(s) : F[k] = AppendMissing(F[k - 1], s[k])
  <1> DEFINE n == Len(s)
             h == [k \in 1 .. n |-> [acc \in Acc |-> AppendMissing(acc, s[k])]]
             it == CHOOSE iter : AppendMissingIterated(iter, base, s)
  <1>1. n \in Nat /\ DOMAIN s = 1 .. n /\ base \in Acc
    OBVIOUS
  <1>2. AppendMissingOfAll(base, s) = it[DOMAIN s]
    BY DEF AppendMissingOfAll, FoldLeft, MapThenFoldSet, AppendMissingIterated
  <1>3. h \in [1 .. n -> [Acc -> Acc]]
    <2>1. ASSUME NEW k \in 1 .. n, NEW acc \in Acc PROVE AppendMissing(acc, s[k]) \in Acc
      <3>1. s[k] \in A
        BY <1>1
      <3> QED
        BY <3>1 DEF AppendMissingKeeps
    <2> QED
      BY <2>1
  <1>4. \A k \in 1 .. n : \A acc \in Acc : h[k][acc] = AppendMissing(acc, s[k])
    OBVIOUS
  <1>5. \A t \in SUBSET (1 .. n) : t # {} => Max(t) \in 1 .. n /\ t \ {Max(t)} \in SUBSET (1 .. n)
    BY <1>1, Greatest
  <1> HIDE DEF n, h, it
  <1>6. AppendMissingIterated(it, base, s)
    <2>1. PICK fold \in [SUBSET (1 .. n) -> Acc] : Folded(fold, base, h, n)
      BY <1>1, <1>3, FoldExists
    <2>2. ASSUME NEW t \in SUBSET (1 .. n)
          PROVE  fold[t] = IF t = {} THEN base ELSE AppendMissing(fold[t \ {Max(t)}], s[Max(t)])
      BY <1>4, <1>5, <2>1, <2>2 DEF Folded
    <2>3. fold = [t \in SUBSET DOMAIN s |->
                    IF t = {} THEN base ELSE AppendMissing(fold[t \ {Max(t)}], s[Max(t)])]
      BY <1>1, <2>1, <2>2
    <2>4. AppendMissingIterated(fold, base, s)
      BY <2>3 DEF AppendMissingIterated
    <2> QED
      BY <2>4 DEF it
  <1>7. \A t \in SUBSET (1 .. n) :
            it[t] = IF t = {} THEN base ELSE AppendMissing(it[t \ {Max(t)}], s[Max(t)])
    BY <1>1, <1>6 DEF AppendMissingIterated
  <1>8. Follows(it, base, h, n, Acc)
    BY <1>1, <1>3, <1>4, <1>5, <1>7 DEF Follows
  <1>9. PICK F \in [0 .. n -> Acc] :
             F[0] = base /\ F[n] = it[1 .. n] /\ \A k \in 1 .. n : F[k] = h[k][F[k - 1]]
    BY <1>8, FoldChain
  <1>10. \A k \in 1 .. n : F[k] = AppendMissing(F[k - 1], s[k])
    <2>1. ASSUME NEW k \in 1 .. n PROVE F[k - 1] \in Acc
      BY <1>1
    <2> QED
      BY <1>4, <1>9, <2>1
  <1> QED
    BY <1>1, <1>2, <1>9, <1>10 DEF n

Scanned(P) == [arguments : Seq(Seq(P)), builder : Seq(P), quote : Quotes \cup {None}]

LEMMA AddArgumentType ==
    ASSUME NEW P, NEW scan \in Scanned(P)
    PROVE  AddArgument(scan) \in Scanned(P)
  <1>1. scan.builder \in Seq(P) /\ scan.arguments \in Seq(Seq(P)) /\ <<>> \in Seq(P)
    BY DEF Scanned
  <1>2. Append(scan.arguments, scan.builder) \in Seq(Seq(P))
    BY <1>1
  <1> QED
    BY <1>1, <1>2 DEF AddArgument, Scanned

ScanPieceKeeps(Acc, P) == \A acc \in Acc : \A e \in P : ScanPiece(acc, e) \in Acc

LEMMA ScanPieceType ==
    ASSUME NEW P
    PROVE  ScanPieceKeeps(Scanned(P), P)
  <1> SUFFICES ASSUME NEW scan \in Scanned(P), NEW c \in P
               PROVE  ScanPiece(scan, c) \in Scanned(P)
    BY DEF ScanPieceKeeps
  <1>1. AddArgument(scan) \in Scanned(P)
    BY AddArgumentType
  <1>2. Append(scan.builder, c) \in Seq(P)
    BY DEF Scanned
  <1> QED
    BY <1>1, <1>2 DEF ScanPiece, Scanned

ScanPieceOfAll(base, s) == FoldLeft(ScanPiece, base, s)

ScanPieceIterated(iter, base, s) ==
    iter = [t \in SUBSET DOMAIN s |->
              IF t = {} THEN base ELSE ScanPiece(iter[t \ {Max(t)}], s[Max(t)])]

LEMMA ScanPieceChain ==
    ASSUME NEW P, NEW Acc, NEW base \in Acc, NEW s \in Seq(P),
           ScanPieceKeeps(Acc, P)
    PROVE  \E F \in [0 .. Len(s) -> Acc] :
               /\ F[0] = base /\ F[Len(s)] = ScanPieceOfAll(base, s)
               /\ \A k \in 1 .. Len(s) : F[k] = ScanPiece(F[k - 1], s[k])
  <1> DEFINE n == Len(s)
             h == [k \in 1 .. n |-> [acc \in Acc |-> ScanPiece(acc, s[k])]]
             it == CHOOSE iter : ScanPieceIterated(iter, base, s)
  <1>1. n \in Nat /\ DOMAIN s = 1 .. n /\ base \in Acc
    OBVIOUS
  <1>2. ScanPieceOfAll(base, s) = it[DOMAIN s]
    BY DEF ScanPieceOfAll, FoldLeft, MapThenFoldSet, ScanPieceIterated
  <1>3. h \in [1 .. n -> [Acc -> Acc]]
    <2>1. ASSUME NEW k \in 1 .. n, NEW acc \in Acc PROVE ScanPiece(acc, s[k]) \in Acc
      <3>1. s[k] \in P
        BY <1>1
      <3> QED
        BY <3>1 DEF ScanPieceKeeps
    <2> QED
      BY <2>1
  <1>4. \A k \in 1 .. n : \A acc \in Acc : h[k][acc] = ScanPiece(acc, s[k])
    OBVIOUS
  <1>5. \A t \in SUBSET (1 .. n) : t # {} => Max(t) \in 1 .. n /\ t \ {Max(t)} \in SUBSET (1 .. n)
    BY <1>1, Greatest
  <1> HIDE DEF n, h, it
  <1>6. ScanPieceIterated(it, base, s)
    <2>1. PICK fold \in [SUBSET (1 .. n) -> Acc] : Folded(fold, base, h, n)
      BY <1>1, <1>3, FoldExists
    <2>2. ASSUME NEW t \in SUBSET (1 .. n)
          PROVE  fold[t] = IF t = {} THEN base ELSE ScanPiece(fold[t \ {Max(t)}], s[Max(t)])
      BY <1>4, <1>5, <2>1, <2>2 DEF Folded
    <2>3. fold = [t \in SUBSET DOMAIN s |->
                    IF t = {} THEN base ELSE ScanPiece(fold[t \ {Max(t)}], s[Max(t)])]
      BY <1>1, <2>1, <2>2
    <2>4. ScanPieceIterated(fold, base, s)
      BY <2>3 DEF ScanPieceIterated
    <2> QED
      BY <2>4 DEF it
  <1>7. \A t \in SUBSET (1 .. n) :
            it[t] = IF t = {} THEN base ELSE ScanPiece(it[t \ {Max(t)}], s[Max(t)])
    BY <1>1, <1>6 DEF ScanPieceIterated
  <1>8. Follows(it, base, h, n, Acc)
    BY <1>1, <1>3, <1>4, <1>5, <1>7 DEF Follows
  <1>9. PICK F \in [0 .. n -> Acc] :
             F[0] = base /\ F[n] = it[1 .. n] /\ \A k \in 1 .. n : F[k] = h[k][F[k - 1]]
    BY <1>8, FoldChain
  <1>10. \A k \in 1 .. n : F[k] = ScanPiece(F[k - 1], s[k])
    <2>1. ASSUME NEW k \in 1 .. n PROVE F[k - 1] \in Acc
      BY <1>1
    <2> QED
      BY <1>4, <1>9, <2>1
  <1> QED
    BY <1>1, <1>2, <1>9, <1>10 DEF n

AddActiveKeeps(Acc, M) == \A acc \in Acc : \A e \in M : AddActive(acc, e) \in Acc

LEMMA AddActiveType ==
    ASSUME NEW M
    PROVE  AddActiveKeeps(Seq(M), M)
  BY DEF AddActive, AddActiveKeeps

AddActiveOfAll(base, s) == FoldLeft(AddActive, base, s)

AddActiveIterated(iter, base, s) ==
    iter = [t \in SUBSET DOMAIN s |->
              IF t = {} THEN base ELSE AddActive(iter[t \ {Max(t)}], s[Max(t)])]

LEMMA AddActiveChain ==
    ASSUME NEW M, NEW Acc, NEW base \in Acc, NEW s \in Seq(M),
           AddActiveKeeps(Acc, M)
    PROVE  \E F \in [0 .. Len(s) -> Acc] :
               /\ F[0] = base /\ F[Len(s)] = AddActiveOfAll(base, s)
               /\ \A k \in 1 .. Len(s) : F[k] = AddActive(F[k - 1], s[k])
  <1> DEFINE n == Len(s)
             h == [k \in 1 .. n |-> [acc \in Acc |-> AddActive(acc, s[k])]]
             it == CHOOSE iter : AddActiveIterated(iter, base, s)
  <1>1. n \in Nat /\ DOMAIN s = 1 .. n /\ base \in Acc
    OBVIOUS
  <1>2. AddActiveOfAll(base, s) = it[DOMAIN s]
    BY DEF AddActiveOfAll, FoldLeft, MapThenFoldSet, AddActiveIterated
  <1>3. h \in [1 .. n -> [Acc -> Acc]]
    <2>1. ASSUME NEW k \in 1 .. n, NEW acc \in Acc PROVE AddActive(acc, s[k]) \in Acc
      <3>1. s[k] \in M
        BY <1>1
      <3> QED
        BY <3>1 DEF AddActiveKeeps
    <2> QED
      BY <2>1
  <1>4. \A k \in 1 .. n : \A acc \in Acc : h[k][acc] = AddActive(acc, s[k])
    OBVIOUS
  <1>5. \A t \in SUBSET (1 .. n) : t # {} => Max(t) \in 1 .. n /\ t \ {Max(t)} \in SUBSET (1 .. n)
    BY <1>1, Greatest
  <1> HIDE DEF n, h, it
  <1>6. AddActiveIterated(it, base, s)
    <2>1. PICK fold \in [SUBSET (1 .. n) -> Acc] : Folded(fold, base, h, n)
      BY <1>1, <1>3, FoldExists
    <2>2. ASSUME NEW t \in SUBSET (1 .. n)
          PROVE  fold[t] = IF t = {} THEN base ELSE AddActive(fold[t \ {Max(t)}], s[Max(t)])
      BY <1>4, <1>5, <2>1, <2>2 DEF Folded
    <2>3. fold = [t \in SUBSET DOMAIN s |->
                    IF t = {} THEN base ELSE AddActive(fold[t \ {Max(t)}], s[Max(t)])]
      BY <1>1, <2>1, <2>2
    <2>4. AddActiveIterated(fold, base, s)
      BY <2>3 DEF AddActiveIterated
    <2> QED
      BY <2>4 DEF it
  <1>7. \A t \in SUBSET (1 .. n) :
            it[t] = IF t = {} THEN base ELSE AddActive(it[t \ {Max(t)}], s[Max(t)])
    BY <1>1, <1>6 DEF AddActiveIterated
  <1>8. Follows(it, base, h, n, Acc)
    BY <1>1, <1>3, <1>4, <1>5, <1>7 DEF Follows
  <1>9. PICK F \in [0 .. n -> Acc] :
             F[0] = base /\ F[n] = it[1 .. n] /\ \A k \in 1 .. n : F[k] = h[k][F[k - 1]]
    BY <1>8, FoldChain
  <1>10. \A k \in 1 .. n : F[k] = AddActive(F[k - 1], s[k])
    <2>1. ASSUME NEW k \in 1 .. n PROVE F[k - 1] \in Acc
      BY <1>1
    <2> QED
      BY <1>4, <1>9, <2>1
  <1> QED
    BY <1>1, <1>2, <1>9, <1>10 DEF n

-----------------------------------------------------------------------------
(***************************************************************************)
(* What Parse makes of the arguments to add.  After the first k of them:   *)
(* own stands first and untouched, what is behind it is among those k, new *)
(* and there once, none of the k is missing, and the first of them, when   *)
(* new, is the first behind own.                                           *)
(***************************************************************************)

AppendedTo(own, added, k, arguments) ==
    /\ Len(own) <= Len(arguments)
    /\ \A i \in 1 .. Len(own) : arguments[i] = own[i]
    /\ \A i \in Len(own) + 1 .. Len(arguments) :
          /\ ~Contains(own, arguments[i])
          /\ \E m \in 1 .. k : arguments[i] = added[m]
          /\ \A j \in Len(own) + 1 .. Len(arguments) : arguments[i] = arguments[j] => i = j
    /\ \A m \in 1 .. k : \E i \in 1 .. Len(arguments) : arguments[i] = added[m]
    /\ k >= 1 /\ ~Contains(own, added[1]) =>
          Len(arguments) > Len(own) /\ arguments[Len(own) + 1] = added[1]

LEMMA AppendMissingStep ==
    ASSUME NEW A, NEW own \in Seq(A), NEW added \in Seq(A), NEW arguments \in Seq(A),
           NEW k \in 1 .. Len(added), AppendedTo(own, added, k - 1, arguments)
    PROVE  AppendedTo(own, added, k, AppendMissing(arguments, added[k]))
  <1> DEFINE e == added[k]
             longer == Append(arguments, e)
             b == Len(own)
             n == Len(arguments)
  <1>1. /\ k \in Nat /\ e \in A /\ b \in Nat /\ n \in Nat /\ b <= n
        /\ \A i \in 1 .. b : arguments[i] = own[i]
    BY DEF AppendedTo
  <1>2. ASSUME NEW i \in b + 1 .. n
        PROVE  /\ ~Contains(own, arguments[i])
               /\ \E m \in 1 .. k - 1 : arguments[i] = added[m]
               /\ \A j \in b + 1 .. n : arguments[i] = arguments[j] => i = j
    BY DEF AppendedTo
  <1>3. \A m \in 1 .. k - 1 : \E i \in 1 .. n : arguments[i] = added[m]
    BY DEF AppendedTo
  <1>4. k - 1 >= 1 /\ ~Contains(own, added[1]) => n > b /\ arguments[b + 1] = added[1]
    BY DEF AppendedTo
  <1>5. CASE Contains(arguments, e)
    <2>1. AppendMissing(arguments, e) = arguments
      BY <1>5 DEF AppendMissing
    <2>2. \A m \in 1 .. k : \E i \in 1 .. n : arguments[i] = added[m]
      <3>1. \E i \in 1 .. n : arguments[i] = added[k]
        BY <1>5 DEF Contains
      <3> QED
        BY <1>1, <1>3, <3>1
    <2>3. \A i \in b + 1 .. n : \E m \in 1 .. k : arguments[i] = added[m]
      BY <1>1, <1>2
    <2>4. ASSUME ~Contains(own, added[1]) PROVE n > b /\ arguments[b + 1] = added[1]
      <3>1. CASE k = 1
        <4>1. \A i \in b + 1 .. n : FALSE
          BY <1>2, <3>1
        <4>2. n = b
          BY <1>1, <4>1
        <4>3. PICK i \in 1 .. n : arguments[i] = added[1]
          BY <1>5, <3>1 DEF Contains
        <4> QED
          BY <1>1, <2>4, <4>2, <4>3 DEF Contains
      <3> QED
        BY <1>1, <1>4, <2>4, <3>1
    <2> QED
      BY <1>1, <1>2, <2>1, <2>2, <2>3, <2>4 DEF AppendedTo
  <1>6. CASE ~Contains(arguments, e)
    <2>1. AppendMissing(arguments, e) = longer
      BY <1>6 DEF AppendMissing
    <2>2. Len(longer) = n + 1 /\ longer[n + 1] = e /\ \A i \in 1 .. n : longer[i] = arguments[i]
      BY <1>1
    <2>3. \A i \in 1 .. n : arguments[i] # e
      BY <1>6 DEF Contains
    <2> HIDE DEF longer
    <2>4. ~Contains(own, e)
      BY <1>1, <2>3 DEF Contains
    <2>5. \A i \in 1 .. b : longer[i] = own[i]
      BY <1>1, <2>2
    <2>6. ASSUME NEW i \in b + 1 .. n + 1
          PROVE  /\ ~Contains(own, longer[i])
                 /\ \E m \in 1 .. k : longer[i] = added[m]
                 /\ \A j \in b + 1 .. n + 1 : longer[i] = longer[j] => i = j
      <3>1. CASE i = n + 1
        <4>1. \A j \in b + 1 .. n + 1 : longer[j] = e => j = n + 1
          BY <1>1, <2>2, <2>3
        <4>2. \E m \in 1 .. k : longer[i] = added[m]
          BY <1>1, <2>2, <3>1
        <4> QED
          BY <2>2, <2>4, <3>1, <4>1, <4>2
      <3>2. CASE i \in b + 1 .. n
        <4>1. longer[i] = arguments[i]
          BY <1>1, <2>2, <3>2
        <4>2. \A j \in b + 1 .. n + 1 : longer[i] = longer[j] => i = j
          <5>1. TAKE j \in b + 1 .. n + 1
          <5>2. CASE j = n + 1
            BY <1>1, <2>2, <2>3, <3>2, <4>1, <5>2
          <5>3. CASE j \in b + 1 .. n
            BY <1>1, <1>2, <2>2, <3>2, <4>1, <5>3
          <5> QED
            BY <1>1, <5>2, <5>3
        <4>3. \E m \in 1 .. k : longer[i] = added[m]
          BY <1>1, <1>2, <3>2, <4>1
        <4> QED
          BY <1>2, <3>2, <4>1, <4>2, <4>3
      <3> QED
        BY <1>1, <3>1, <3>2
    <2>7. \A m \in 1 .. k : \E i \in 1 .. n + 1 : longer[i] = added[m]
      <3>1. TAKE m \in 1 .. k
      <3>2. CASE m = k
        BY <1>1, <2>2, <3>2
      <3>3. CASE m \in 1 .. k - 1
        <4>1. PICK i \in 1 .. n : arguments[i] = added[m]
          BY <1>3, <3>3
        <4> QED
          BY <1>1, <2>2, <4>1
      <3> QED
        BY <1>1, <3>2, <3>3
    <2>8. ASSUME ~Contains(own, added[1]) PROVE n + 1 > b /\ longer[b + 1] = added[1]
      <3>1. CASE k = 1
        <4>1. \A i \in b + 1 .. n : FALSE
          BY <1>2, <3>1
        <4> QED
          BY <1>1, <2>2, <3>1, <4>1
      <3>2. CASE k # 1
        BY <1>1, <1>4, <2>2, <2>8, <3>2
      <3> QED
        BY <3>1, <3>2
    <2> QED
      BY <1>1, <2>1, <2>2, <2>5, <2>6, <2>7, <2>8 DEF AppendedTo
  <1> QED
    BY <1>5, <1>6

LEMMA Appended ==
    ASSUME NEW A, NEW own \in Seq(A), NEW added \in Seq(A)
    PROVE  LET arguments == AppendMissingOfAll(own, added) IN
           arguments \in Seq(A) /\ AppendedTo(own, added, Len(added), arguments)
  <1> DEFINE n == Len(added)
             Acc == Seq(A)
  <1>1. own \in Acc /\ AppendMissingKeeps(Acc, A)
    BY AppendMissingType
  <1> HIDE DEF Acc
  <1>2. PICK F \in [0 .. n -> Acc] :
            /\ F[0] = own /\ F[n] = AppendMissingOfAll(own, added)
            /\ \A k \in 1 .. n : F[k] = AppendMissing(F[k - 1], added[k])
    BY <1>1, AppendMissingChain
  <1> DEFINE S == {k \in 0 .. n : AppendedTo(own, added, k, F[k])}
  <1>3. n \in Nat /\ n \in 0 .. n
    OBVIOUS
  <1>4. 0 \in S
    BY <1>1, <1>2 DEF AppendedTo, Acc
  <1>5. ASSUME NEW k \in 1 .. n, k - 1 \in S PROVE k \in S
    <2>1. F[k - 1] \in Seq(A) /\ AppendedTo(own, added, k - 1, F[k - 1])
      BY <1>5 DEF Acc
    <2>2. AppendedTo(own, added, k, AppendMissing(F[k - 1], added[k]))
      BY <2>1, AppendMissingStep
    <2> QED
      BY <1>2, <2>2
  <1> HIDE DEF S, n
  <1>6. 0 .. n \subseteq S
    BY <1>3, <1>4, <1>5, Induction
  <1> QED
    BY <1>2, <1>3, <1>6 DEF S, n, Acc

LEMMA AppendedNone ==
    ASSUME NEW A, NEW own \in Seq(A)
    PROVE  AppendMissingOfAll(own, <<>>) = own
  <1> DEFINE Acc == Seq(A)
             none == <<>>
  <1>1. own \in Acc /\ AppendMissingKeeps(Acc, A) /\ none \in Seq(A) /\ Len(none) = 0
    BY AppendMissingType
  <1> HIDE DEF Acc, none
  <1>2. PICK F \in [0 .. Len(none) -> Acc] :
            F[0] = own /\ F[Len(none)] = AppendMissingOfAll(own, none)
    BY <1>1, AppendMissingChain
  <1> QED
    BY <1>1, <1>2 DEF none

\* What Parse returns, as the invariants speak of it.
LEMMA AddedBehind ==
    ASSUME NEW A, NEW own \in Seq(A), NEW additional \in Seq(A), NEW arguments \in Seq(A),
           AppendedTo(own, additional, Len(additional), arguments)
    PROVE  LET added == SubSeq(arguments, Len(own) + 1, Len(arguments)) IN
           /\ IsPrefix(own, arguments)
           /\ IsInjective(added)
           /\ ToSet(added) = ToSet(additional) \ ToSet(own)
  <1> DEFINE b == Len(own)
             n == Len(arguments)
             added == SubSeq(arguments, b + 1, n)
  <1>1. b \in Nat /\ n \in Nat /\ b <= n /\ \A i \in 1 .. b : arguments[i] = own[i]
    BY DEF AppendedTo
  <1>2. DOMAIN added = 1 .. n - b /\ \A i \in 1 .. n - b : added[i] = arguments[b + i]
    BY <1>1
  <1>3. IsPrefix(own, arguments)
    <2>1. SubSeq(own, 1, b) = own
      BY SubSeqFull
    <2>2. SubSeq(arguments, 1, b) \in Seq(A) /\ Len(SubSeq(arguments, 1, b)) = b
      BY <1>1
    <2>3. \A i \in 1 .. b : SubSeq(arguments, 1, b)[i] = own[i]
      BY <1>1
    <2>4. SubSeq(arguments, 1, b) = own
      BY <2>2, <2>3, SeqEqual
    <2> QED
      BY <1>1, <2>1, <2>4 DEF IsPrefix
  <1> HIDE DEF added
  <1>4. IsInjective(added)
    <2>1. SUFFICES ASSUME NEW i \in 1 .. n - b, NEW j \in 1 .. n - b, added[i] = added[j]
                   PROVE  i = j
      BY <1>2 DEF IsInjective
    <2>2. b + i \in b + 1 .. n /\ b + j \in b + 1 .. n /\ arguments[b + i] = arguments[b + j]
      BY <1>1, <1>2, <2>1
    <2>3. b + i = b + j
      BY <2>2 DEF AppendedTo
    <2> QED
      BY <1>1, <2>3
  <1>5. ToSet(added) \subseteq ToSet(additional) \ ToSet(own)
    <2>1. SUFFICES ASSUME NEW i \in 1 .. n - b
                   PROVE  added[i] \in ToSet(additional) \ ToSet(own)
      BY <1>2 DEF ToSet
    <2>2. b + i \in b + 1 .. n
      BY <1>1
    <2>3. ~Contains(own, arguments[b + i])
      BY <2>2 DEF AppendedTo
    <2>4. PICK m \in 1 .. Len(additional) : arguments[b + i] = additional[m]
      BY <2>2 DEF AppendedTo
    <2>5. arguments[b + i] \notin ToSet(own)
      BY <2>3 DEF ToSet, Contains
    <2>6. arguments[b + i] \in ToSet(additional)
      BY <2>4 DEF ToSet
    <2> QED
      BY <1>2, <2>5, <2>6
  <1>6. ToSet(additional) \ ToSet(own) \subseteq ToSet(added)
    <2>1. SUFFICES ASSUME NEW m \in 1 .. Len(additional), additional[m] \notin ToSet(own)
                   PROVE  additional[m] \in ToSet(added)
      BY DEF ToSet
    <2>2. PICK i \in 1 .. n : arguments[i] = additional[m]
      BY DEF AppendedTo
    <2>3. i \notin 1 .. b
      BY <1>1, <2>1, <2>2 DEF ToSet
    <2>4. i - b \in 1 .. n - b /\ b + (i - b) = i
      BY <1>1, <2>2, <2>3
    <2>5. added[i - b] = arguments[i]
      BY <1>2, <2>4
    <2> QED
      BY <1>2, <2>2, <2>4, <2>5 DEF ToSet
  <1> QED
    BY <1>3, <1>4, <1>5, <1>6 DEF added

-----------------------------------------------------------------------------
(***************************************************************************)
(* Sequences, whatever is in them: the arguments a text is split into, and *)
(* those the runners add.                                                  *)
(***************************************************************************)

IsSequence(s) == \E S : s \in Seq(S)

LEMMA Joined ==
    ASSUME NEW s, NEW t, IsSequence(s), IsSequence(t)
    PROVE  IsSequence(s \o t)
  <1>1. PICK S : s \in Seq(S)
    BY DEF IsSequence
  <1>2. PICK T : t \in Seq(T)
    BY DEF IsSequence
  <1> DEFINE U == S \cup T
  <1>3. s \in Seq(U) /\ t \in Seq(U)
    BY <1>1, <1>2, SeqMonotonic
  <1> HIDE DEF U
  <1>4. s \o t \in Seq(U)
    BY <1>3
  <1> QED
    BY <1>4 DEF IsSequence

LEMMA Single ==
    ASSUME NEW e
    PROVE  IsSequence(<<e>>) /\ IsSequence(<<>>)
  <1>1. <<e>> \in Seq({e}) /\ <<>> \in Seq({e})
    OBVIOUS
  <1> QED
    BY <1>1 DEF IsSequence

ArgumentsIn(s) == AddArgument(Scan(s)).arguments

LEMMA Split ==
    ASSUME NEW P, NEW s \in Seq(P)
    PROVE  ArgumentsIn(s) \in Seq(Seq(P))
  <1> DEFINE Acc == Scanned(P)
             start == [arguments |-> <<>>, builder |-> <<>>, quote |-> None]
  <1>1. start \in Acc /\ ScanPieceKeeps(Acc, P)
    <2>1. start \in Scanned(P)
      BY DEF Scanned
    <2> QED
      BY <2>1, ScanPieceType
  <1>2. Scan(s) = ScanPieceOfAll(start, s)
    BY DEF Scan, ScanPieceOfAll
  <1> HIDE DEF Acc, start
  <1>3. PICK F \in [0 .. Len(s) -> Acc] : F[Len(s)] = ScanPieceOfAll(start, s)
    BY <1>1, ScanPieceChain
  <1>4. Scan(s) \in Scanned(P)
    BY <1>2, <1>3 DEF Acc
  <1>5. AddArgument(Scan(s)) \in Scanned(P)
    BY <1>4, AddArgumentType
  <1> QED
    BY <1>5 DEF Scanned, ArgumentsIn

\* Own and Arguments, for a text that is not left out.
LEMMA Parses ==
    ASSUME NEW P, NEW s \in Seq(P), NEW additional, IsSequence(additional), ~IsUnset(s)
    PROVE  \E A : /\ Parse(s, <<>>) \in Seq(A) /\ additional \in Seq(A)
                  /\ Parse(s, additional) \in Seq(A)
                  /\ AppendedTo(Parse(s, <<>>), additional, Len(additional), Parse(s, additional))
  <1>1. PICK B : additional \in Seq(B)
    BY DEF IsSequence
  <1> DEFINE A == B \cup Seq(P)
             own == ArgumentsIn(s)
  <1>2. own \in Seq(A) /\ additional \in Seq(A)
    BY <1>1, Split, SeqMonotonic
  <1>3. Parse(s, <<>>) = AppendMissingOfAll(own, <<>>)
    BY DEF Parse, ArgumentsIn, AppendMissingOfAll
  <1>4. Parse(s, additional) = AppendMissingOfAll(own, additional)
    BY DEF Parse, ArgumentsIn, AppendMissingOfAll
  <1> HIDE DEF own, A
  <1>5. Parse(s, <<>>) = own
    BY <1>2, <1>3, AppendedNone
  <1>6. /\ AppendMissingOfAll(own, additional) \in Seq(A)
        /\ AppendedTo(own, additional, Len(additional), AppendMissingOfAll(own, additional))
    BY <1>2, Appended
  <1> QED
    BY <1>2, <1>4, <1>5, <1>6

-----------------------------------------------------------------------------
(***************************************************************************)
(* The choice of a proxy.                                                  *)
(***************************************************************************)

LEMMA FirstIs ==
    ASSUME NEW proxies \in Seq(MavenProxy), NEW fitting \in SUBSET DOMAIN proxies, fitting # {}
    PROVE  Min(fitting) \in fitting /\ proxies[Min(fitting)] \in MavenProxy
  <1>1. fitting \in SUBSET Nat
    OBVIOUS
  <1>2. PICK i \in fitting : \A j \in fitting : i <= j
    BY <1>1, Least
  <1>3. Min(fitting) \in fitting
    BY <1>2 DEF Min
  <1> QED
    BY <1>3

\* A proxy is found exactly when there is one to find, and it is one of those.
LEMMA ProxyForURLIs ==
    ASSUME NEW proxies \in Seq(MavenProxy), NEW url,
           NEW i \in DOMAIN proxies, ~IsNonProxyHost(proxies[i], Host(url))
    PROVE  LET proxy == ProxyForURL(proxies, url) IN
           proxy \in MavenProxy /\ ~IsNonProxyHost(proxy, Host(url))
  <1> DEFINE fitting == {j \in DOMAIN proxies : ~IsNonProxyHost(proxies[j], Host(url))}
  <1>1. ProxyForURL(proxies, url) = IF fitting = {} THEN None ELSE proxies[Min(fitting)]
    BY DEF ProxyForURL, FirstOf
  <1>2. fitting \in SUBSET DOMAIN proxies /\ fitting # {}
    OBVIOUS
  <1>3. \A j \in fitting : ~IsNonProxyHost(proxies[j], Host(url))
    OBVIOUS
  <1> HIDE DEF fitting
  <1> QED
    BY <1>1, <1>2, <1>3, FirstIs

LEMMA ProxyForURLTypes ==
    ASSUME NEW proxies \in Seq(MavenProxy), NEW url
    PROVE  ProxyForURL(proxies, url) \in MavenProxy \cup {None}
  <1> DEFINE fitting == {j \in DOMAIN proxies : ~IsNonProxyHost(proxies[j], Host(url))}
  <1>1. ProxyForURL(proxies, url) = IF fitting = {} THEN None ELSE proxies[Min(fitting)]
    BY DEF ProxyForURL, FirstOf
  <1>2. fitting \in SUBSET DOMAIN proxies
    OBVIOUS
  <1> HIDE DEF fitting
  <1> QED
    BY <1>1, <1>2, FirstIs

LEMMA SecureProxyIs ==
    ASSUME NEW proxies \in Seq(MavenProxy)
    PROVE  /\ SecureProxy(proxies) \in MavenProxy \cup {None}
           /\ SecureProxy(proxies) = None => \A i \in DOMAIN proxies : ~proxies[i].secure
  <1> DEFINE fitting == {j \in DOMAIN proxies : proxies[j].secure}
  <1>1. SecureProxy(proxies) = IF fitting = {} THEN None ELSE proxies[Min(fitting)]
    BY DEF SecureProxy, FirstOf
  <1>2. fitting \in SUBSET DOMAIN proxies
    OBVIOUS
  <1>3. fitting = {} => \A i \in DOMAIN proxies : ~proxies[i].secure
    OBVIOUS
  <1> HIDE DEF fitting
  <1> QED
    BY <1>1, <1>2, <1>3, FirstIs, NoneAssumption

LEMMA InsecureProxyIs ==
    ASSUME NEW proxies \in Seq(MavenProxy),
           NEW i \in DOMAIN proxies, ~proxies[i].secure
    PROVE  InsecureProxy(proxies) \in MavenProxy
  <1> DEFINE fitting == {j \in DOMAIN proxies : ~proxies[j].secure}
  <1>1. InsecureProxy(proxies) = IF fitting = {} THEN None ELSE proxies[Min(fitting)]
    BY DEF InsecureProxy, FirstOf
  <1>2. fitting \in SUBSET DOMAIN proxies /\ fitting # {}
    OBVIOUS
  <1> HIDE DEF fitting
  <1> QED
    BY <1>1, <1>2, FirstIs

LEMMA SelectProxyIs ==
    ASSUME NEW proxies \in Seq(MavenProxy), proxies # <<>>, NEW url
    PROVE  LET proxy == SelectProxy(proxies, url) IN
           /\ proxy \in MavenProxy
           /\ url # "" /\ IsNonProxyHost(proxy, Host(url)) =>
                \A i \in DOMAIN proxies : IsNonProxyHost(proxies[i], Host(url))
  <1>1. CASE url # "" /\ ProxyForURL(proxies, url) # None
    <2>1. SelectProxy(proxies, url) = ProxyForURL(proxies, url)
      BY <1>1 DEF SelectProxy
    <2> QED
      BY <1>1, <2>1, ProxyForURLTypes, ProxyForURLIs
  <1>2. CASE ~(url # "" /\ ProxyForURL(proxies, url) # None)
    <2>1. SelectProxy(proxies, url) = IF SecureProxy(proxies) # None THEN SecureProxy(proxies)
                                      ELSE InsecureProxy(proxies)
      BY <1>2 DEF SelectProxy
    <2>2. SecureProxy(proxies) = None => InsecureProxy(proxies) \in MavenProxy
      <3>1. 1 \in DOMAIN proxies
        OBVIOUS
      <3> QED
        BY <3>1, SecureProxyIs, InsecureProxyIs
    <2>3. SelectProxy(proxies, url) \in MavenProxy
      BY <2>1, <2>2, SecureProxyIs
    <2>4. url # "" => \A i \in DOMAIN proxies : IsNonProxyHost(proxies[i], Host(url))
      BY <1>2, ProxyForURLIs, NoneAssumption
    <2> QED
      BY <2>3, <2>4
  <1> QED
    BY <1>1, <1>2

-----------------------------------------------------------------------------
(***************************************************************************)
(* The states of a command line.                                           *)
(***************************************************************************)

TypeInv ==
    /\ settings \in {None} \cup Seq(MavenProxy)
    /\ text \in Seq(Words \cup {Space} \cup Quotes)
    /\ line \in Seq(Writings(goal) \cup Behind(goal))

\* The settings are none or a sequence of proxies, the text is a sequence of
\* pieces and the line one of the goal's writings (Settings.Proxies, the string
\* a goal is given and the words behind its name).
THEOREM TypeCorrect == Spec => []TypeInv
  <1>1. Init => TypeInv
    <2> SUFFICES ASSUME Init PROVE TypeInv
      OBVIOUS
    <2>1. MaxProxies \in Nat
      BY BoundAssumption
    <2>2. SeqOf(MavenProxy, MaxProxies) \subseteq Seq(MavenProxy)
      <3>1. ASSUME NEW s \in SeqOf(MavenProxy, MaxProxies) PROVE s \in Seq(MavenProxy)
        <4>1. PICK m \in 0 .. MaxProxies : s \in [1 .. m -> MavenProxy]
          BY DEF SeqOf
        <4>2. m \in Nat
          BY <2>1
        <4> QED
          BY <4>1, <4>2
      <3> QED
        BY <3>1
    <2> QED
      BY <2>2 DEF Init, TypeInv
  <1>2. TypeInv /\ [Next]_vars => TypeInv'
    <2> SUFFICES ASSUME TypeInv, [Next]_vars PROVE TypeInv'
      OBVIOUS
    <2>1. ASSUME NEW writing \in Writings(goal) \cup Behind(goal), Write(writing)
          PROVE  TypeInv'
      BY <2>1 DEF TypeInv, Write
    <2>2. ASSUME NEW piece \in Pieces, Type(piece) PROVE TypeInv'
      <3>1. piece \in Words \cup {Space} \cup Quotes
        BY <2>2 DEF Pieces
      <3> QED
        BY <2>2, <3>1 DEF TypeInv, Type
    <2>3. CASE UNCHANGED vars
      BY <2>3 DEF TypeInv, vars
    <2>4. CASE Next
      <3>1. CASE \E writing \in (IF settings = <<>> THEN Writings(goal) ELSE Behind(goal)) :
                     Write(writing)
        <4>1. \E writing \in Writings(goal) \cup Behind(goal) : Write(writing)
          BY <3>1
        <4> QED
          BY <2>1, <4>1
      <3>2. CASE \E piece \in Pieces : Type(piece)
        BY <2>2, <3>2
      <3> QED
        BY <2>4, <3>1, <3>2 DEF Next
    <2> QED
      BY <2>3, <2>4
  <1> QED
    BY <1>1, <1>2, PTL DEF Spec

\* A goal that runs has its settings, and is one with a tool of its own.
LEMMA Runs ==
    ASSUME RunsTool
    PROVE  settings # None /\ goal \in Goals \ Installing
  BY DEF RunsTool, Verdict

LEMMA ProxyConfigIs ==
    ASSUME TypeInv, settings # None
    PROVE  ProxyConfig \in Seq(MavenProxy)
  <1> DEFINE Acc == Seq(MavenProxy)
  <1>1. <<>> \in Acc /\ AddActiveKeeps(Acc, MavenProxy) /\ settings \in Seq(MavenProxy)
    BY AddActiveType DEF TypeInv
  <1>2. ProxyConfig = IF inherits THEN AddActiveOfAll(<<>>, settings) ELSE <<>>
    BY DEF ProxyConfig, AddActiveOfAll
  <1> HIDE DEF Acc
  <1>3. PICK F \in [0 .. Len(settings) -> Acc] : F[Len(settings)] = AddActiveOfAll(<<>>, settings)
    BY <1>1, AddActiveChain
  <1>4. AddActiveOfAll(<<>>, settings) \in Acc
    <2>1. Len(settings) \in 0 .. Len(settings)
      BY <1>1
    <2> QED
      BY <1>3, <2>1
  <1> QED
    BY <1>1, <1>2, <1>4 DEF Acc

LEMMA ArgumentStringIs ==
    ASSUME TypeInv
    PROVE  IsSequence(ArgumentString)
  <1> DEFINE own == Option(IF goal = "karma" THEN "karmaConfPath" ELSE ArgumentsOf(goal))
             pieces == CASE own = Typed -> text [] own = "" -> <<>> [] OTHER -> <<own>>
  <1>1. ArgumentString = IF goal = "karma" THEN <<"start", Space>> \o pieces ELSE pieces
    BY DEF ArgumentString
  <1>2. IsSequence(text)
    BY DEF TypeInv, IsSequence
  <1> HIDE DEF own
  <1>3. IsSequence(pieces)
    BY <1>2, Single
  <1> HIDE DEF pieces
  <1>4. IsSequence(<<"start", Space>>)
    <2>1. <<"start", Space>> \in Seq({"start", Space})
      OBVIOUS
    <2> QED
      BY <2>1 DEF IsSequence
  <1> QED
    BY <1>1, <1>3, <1>4, Joined

LEMMA FlagIs ==
    ASSUME NEW name, NEW value
    PROVE  IsSequence(Flag(name, value))
  BY Single DEF Flag

LEMMA RegistryArgumentsAre == IsSequence(RegistryArguments)
  BY Single DEF RegistryArguments

LEMMA ProxyArgumentsAre == IsSequence(ProxyArguments)
  BY Single, FlagIs, Joined DEF ProxyArguments

LEMMA NoProxyArgumentsAre ==
    ASSUME ProxyConfig \in Seq(MavenProxy)
    PROVE  IsSequence(NoProxyArguments)
  <1>1. CASE ProxyConfig = <<>>
    BY <1>1, Single DEF NoProxyArguments
  <1>2. CASE ProxyConfig # <<>>
    <2> DEFINE hosts == SelectProxy(ProxyConfig, registry).nonProxyHosts
               each == [i \in DOMAIN hosts |-> <<"--noproxy=", hosts[i]>>]
    <2>1. hosts \in Seq(STRING)
      <3>1. SelectProxy(ProxyConfig, registry) \in MavenProxy
        BY <1>2, SelectProxyIs
      <3> QED
        BY <3>1, HostAssumption DEF MavenProxy
    <2>2. NoProxyArguments =
            IF hosts = <<>> THEN <<>>
            ELSE IF runner = "npm" THEN each ELSE Flag("--noproxy=", hosts)
      BY <1>2 DEF NoProxyArguments
    <2>3. IsSequence(each)
      <3> DEFINE S == {<<"--noproxy=", host>> : host \in STRING}
      <3>1. each \in [1 .. Len(hosts) -> S] /\ Len(hosts) \in Nat
        <4> HIDE DEF hosts
        <4>1. DOMAIN hosts = 1 .. Len(hosts) /\ Len(hosts) \in Nat
          BY <2>1
        <4>2. \A i \in DOMAIN hosts : hosts[i] \in STRING
          BY <2>1, <4>1
        <4>3. \A i \in DOMAIN hosts : <<"--noproxy=", hosts[i]>> \in S
          BY <4>2
        <4> HIDE DEF S
        <4> QED
          BY <4>1, <4>3
      <3> HIDE DEF each, S, hosts
      <3>2. each \in Seq(S)
        BY <3>1
      <3> QED
        BY <3>2 DEF IsSequence
    <2> HIDE DEF hosts, each
    <2> QED
      BY <2>2, <2>3, FlagIs, Single
  <1> QED
    BY <1>1, <1>2

LEMMA BowerArgumentsAre == IsSequence(BowerArguments)
  <1> DEFINE secure == SecureProxy(ProxyConfig)
             insecure == InsecureProxy(ProxyConfig)
             forSecure == IF secure = None THEN <<>> ELSE Flag("--config.https-proxy=", secure)
             forInsecure == IF insecure = None THEN <<>> ELSE Flag("--config.proxy=", insecure)
  <1>1. IsSequence(forSecure) /\ IsSequence(forInsecure)
    BY Single, FlagIs
  <1>2. BowerArguments = forSecure \o forInsecure
    BY DEF BowerArguments
  <1> HIDE DEF forSecure, forInsecure
  <1> QED
    BY <1>1, <1>2, Joined

LEMMA NpxArgumentsAre ==
    /\ IsSequence(NpxArguments)
    /\ NpxArguments # <<>> => Len(NpxArguments) >= 1 /\ NpxArguments[1] = <<"--">>
  <1> DEFINE rest == RegistryArguments \o ProxyArguments
             all == <<<<"--">>>> \o rest
  <1>1. IsSequence(rest)
    BY RegistryArgumentsAre, ProxyArgumentsAre, Joined
  <1>2. NpxArguments = IF rest = <<>> THEN <<>> ELSE all
    BY DEF NpxArguments
  <1>3. PICK S : rest \in Seq(S)
    BY <1>1 DEF IsSequence
  <1> DEFINE T == S \cup {<<"--">>}
  <1>4. rest \in Seq(T) /\ <<<<"--">>>> \in Seq(T)
    <2>1. rest \in Seq(T)
      BY <1>3, SeqMonotonic
    <2> QED
      BY <2>1
  <1> HIDE DEF rest, T
  <1>5. all \in Seq(T) /\ Len(all) >= 1 /\ all[1] = <<"--">>
    BY <1>4
  <1> HIDE DEF all
  <1> QED
    BY <1>2, <1>5, Single DEF IsSequence

LEMMA AdditionalArgumentsAre ==
    ASSUME goal \in Goals \ Installing, ProxyConfig \in Seq(MavenProxy)
    PROVE  IsSequence(AdditionalArguments)
  <1>1. runner \in {"npm", "pnpm", "npx", "yarn", "bun", "bower", "yarn berry", "plain"}
    BY DEF runner, PackageManagers
  <1>2. IsSequence(RegistryArguments \o ProxyArguments)
    BY RegistryArgumentsAre, ProxyArgumentsAre, Joined
  <1>3. IsSequence(RegistryArguments \o ProxyArguments \o NoProxyArguments)
    BY <1>2, NoProxyArgumentsAre, Joined
  <1>4. CASE runner \in {"npm", "pnpm"}
    BY <1>3, <1>4 DEF AdditionalArguments
  <1>5. CASE runner = "npx"
    BY <1>5, NpxArgumentsAre DEF AdditionalArguments
  <1>6. CASE runner \in {"yarn", "bun"}
    BY <1>2, <1>6 DEF AdditionalArguments
  <1>7. CASE runner = "bower"
    BY <1>7, BowerArgumentsAre DEF AdditionalArguments
  <1>8. CASE runner \in {"yarn berry", "plain"}
    BY <1>8, Single DEF AdditionalArguments
  <1> QED
    BY <1>1, <1>4, <1>5, <1>6, <1>7, <1>8

\* Own and Arguments in any state in which a tool is run.
LEMMA ArgumentsAre ==
    ASSUME TypeInv, RunsTool
    PROVE  \/ IsUnset(ArgumentString) /\ Own = <<>> /\ Arguments = <<>>
           \/ /\ ~IsUnset(ArgumentString)
              /\ \E A : /\ Own \in Seq(A) /\ AdditionalArguments \in Seq(A) /\ Arguments \in Seq(A)
                       /\ AppendedTo(Own, AdditionalArguments, Len(AdditionalArguments), Arguments)
  <1>1. CASE IsUnset(ArgumentString)
    BY <1>1 DEF Own, Arguments, Parse
  <1>2. CASE ~IsUnset(ArgumentString)
    <2>1. PICK P : ArgumentString \in Seq(P)
      BY ArgumentStringIs DEF IsSequence
    <2>2. IsSequence(AdditionalArguments)
      BY Runs, ProxyConfigIs, AdditionalArgumentsAre
    <2> QED
      BY <1>2, <2>1, <2>2, Parses DEF Own, Arguments
  <1> QED
    BY <1>1, <1>2

-----------------------------------------------------------------------------
(***************************************************************************)
(* The scanner's quote against the phrases of a text.  q[k] is the quote   *)
(* after k pieces; a phrase opens at a quote before which there is none.   *)
(***************************************************************************)

Quoted(s, q) ==
    /\ q \in [0 .. Len(s) -> Quotes \cup {None}]
    /\ q[0] = None
    /\ \A k \in 1 .. Len(s) :
          q[k] = IF s[k] \in Quotes /\ q[k - 1] = None THEN s[k]
                 ELSE IF s[k] \in Quotes /\ q[k - 1] = s[k] THEN None ELSE q[k - 1]

Opening(s, q) == {i \in 1 .. Len(s) : s[i] \in Quotes /\ q[i - 1] = None}

\* Nothing between a phrase's quote and any position of it is that quote.
LEMMA PhraseIs ==
    ASSUME NEW P, NEW s \in Seq(P), NEW i \in 1 .. Len(s)
    PROVE  PhraseAt(s, i) = {j \in i .. Len(s) : \A l \in i + 1 .. j - 1 : s[l] # s[i]}
  <1> DEFINE n == Len(s)
             matching == {j \in i + 1 .. n : s[j] = s[i]}
             end == IF matching = {} THEN n ELSE Min(matching)
  <1>1. n \in Nat /\ i \in Nat /\ PhraseAt(s, i) = i .. end
    BY DEF PhraseAt
  <1>2. CASE matching = {}
    <2>1. \A l \in i + 1 .. n : s[l] # s[i]
      BY <1>2
    <2> QED
      BY <1>1, <1>2, <2>1
  <1>3. CASE matching # {}
    <2>1. matching \in SUBSET Nat
      BY <1>1
    <2>2. PICK m \in matching : \A j \in matching : m <= j
      <3> HIDE DEF matching
      <3> QED
        BY <1>3, <2>1, Least
    <2>3. Min(matching) \in matching /\ \A j \in matching : Min(matching) <= j
      <3> HIDE DEF matching
      <3> QED
        BY <2>2 DEF Min
    <2> DEFINE e == Min(matching)
    <2>4. e \in i + 1 .. n /\ s[e] = s[i] /\ \A l \in i + 1 .. e - 1 : s[l] # s[i]
      <3>1. e \in i + 1 .. n /\ s[e] = s[i]
        BY <2>3
      <3> HIDE DEF e
      <3>2. ASSUME NEW l \in i + 1 .. e - 1, s[l] = s[i] PROVE FALSE
        <4>1. l \in matching
          BY <1>1, <3>1, <3>2
        <4> QED
          BY <1>1, <2>3, <3>1, <3>2, <4>1 DEF e
      <3> QED
        BY <3>1, <3>2
    <2>5. end = e
      BY <1>3
    <2> HIDE DEF e, end, matching
    <2>6. ASSUME NEW j \in i .. n
          PROVE  j <= e <=> \A l \in i + 1 .. j - 1 : s[l] # s[i]
      BY <1>1, <2>4
    <2> QED
      BY <1>1, <2>4, <2>5, <2>6
  <1> QED
    BY <1>2, <1>3

\* From an opening to the next quote of its kind the scanner's quote is that.
LEMMA QuoteInside ==
    ASSUME NEW P, NEW s \in Seq(P), NEW q, Quoted(s, q),
           NEW i \in Opening(s, q), NEW k \in i .. Len(s), \A l \in i + 1 .. k : s[l] # s[i]
    PROVE  q[k] = s[i]
  <1> DEFINE n == Len(s)
             S == {d \in 0 .. k - i : q[i + d] = s[i]}
  <1>1. n \in Nat /\ i \in 1 .. n /\ s[i] \in Quotes /\ q[i - 1] = None /\ None \notin Quotes
    BY NoneAssumption DEF Opening
  <1>2. 0 \in S
    <2>1. q[i] = s[i]
      BY <1>1 DEF Quoted
    <2>2. i + 0 = i /\ 0 \in 0 .. k - i
      BY <1>1
    <2> QED
      BY <2>1, <2>2
  <1>3. ASSUME NEW d \in 1 .. k - i, d - 1 \in S PROVE d \in S
    <2>1. i + d \in i + 1 .. k /\ i + d \in 1 .. n /\ (i + d) - 1 = i + (d - 1)
      BY <1>1
    <2>2. s[i + d] # s[i] /\ q[(i + d) - 1] = s[i]
      BY <1>3, <2>1
    <2>3. q[i + d] = s[i]
      BY <1>1, <2>1, <2>2 DEF Quoted
    <2> QED
      BY <2>3
  <1>4. k - i \in Nat
    BY <1>1
  <1> DEFINE m == k - i
  <1>5. m \in S
    <2>1. m \in Nat /\ 0 \in S /\ \A d \in 1 .. m : d - 1 \in S => d \in S
      BY <1>2, <1>3, <1>4
    <2> HIDE DEF S, m
    <2>2. 0 .. m \subseteq S
      BY <2>1, Induction
    <2> QED
      BY <2>1, <2>2
  <1> QED
    BY <1>1, <1>5

\* Where the scanner has a quote, its phrase was opened and goes on.
LEMMA QuoteOpened ==
    ASSUME NEW P, NEW s \in Seq(P), NEW q, Quoted(s, q),
           NEW k \in 0 .. Len(s), q[k] # None
    PROVE  \E i \in Opening(s, q) :
               i <= k /\ s[i] = q[k] /\ \A l \in i + 1 .. k : s[l] # s[i]
  <1> DEFINE n == Len(s)
             Good(j) == q[j] # None =>
                          \E i \in Opening(s, q) :
                              i <= j /\ s[i] = q[j] /\ \A l \in i + 1 .. j : s[l] # s[i]
             S == {j \in 0 .. n : Good(j)}
  <1>1. n \in Nat
    OBVIOUS
  <1>2. 0 \in S
    BY DEF Quoted
  <1>3. ASSUME NEW j \in 1 .. n, j - 1 \in S PROVE j \in S
    <2>1. SUFFICES ASSUME q[j] # None
                   PROVE  \E i \in Opening(s, q) :
                              i <= j /\ s[i] = q[j] /\ \A l \in i + 1 .. j : s[l] # s[i]
      OBVIOUS
    <2>2. CASE s[j] \in Quotes /\ q[j - 1] = None
      <3>1. j \in Opening(s, q) /\ s[j] = q[j]
        BY <2>2 DEF Opening, Quoted
      <3>2. \A l \in j + 1 .. j : s[l] # s[j]
        OBVIOUS
      <3> QED
        BY <3>1, <3>2
    <2>3. CASE ~(s[j] \in Quotes /\ q[j - 1] = None)
      <3>1. q[j] = q[j - 1] /\ s[j] # q[j] /\ q[j - 1] # None
        BY <2>1, <2>3 DEF Quoted
      <3>2. PICK i \in Opening(s, q) :
                i <= j - 1 /\ s[i] = q[j - 1] /\ \A l \in i + 1 .. j - 1 : s[l] # s[i]
        BY <1>3, <3>1
      <3>3. i \in Nat
        BY DEF Opening
      <3>4. \A l \in i + 1 .. j : s[l] # s[i]
        BY <3>1, <3>2, <3>3
      <3> QED
        BY <3>1, <3>2, <3>3, <3>4
    <2> QED
      BY <2>2, <2>3
  <1>4. 0 .. n \subseteq S
    <2>1. n \in Nat /\ 0 \in S /\ \A j \in 1 .. n : j - 1 \in S => j \in S
      BY <1>1, <1>2, <1>3
    <2> HIDE DEF S
    <2> QED
      BY <2>1, Induction
  <1> QED
    BY <1>4

\* What Phrases chooses: the two conditions of its definition.
Valid(s, phrases) ==
    /\ phrases \in SUBSET {PhraseAt(s, i) : i \in QuotesOf(s)}
    /\ \A p, r \in phrases : p # r => p \cap r = {}
    /\ QuotesOf(s) \subseteq UNION phrases

Opened(s, q) == {PhraseAt(s, i) : i \in Opening(s, q)}

LEMMA OpenedApart ==
    ASSUME NEW P, NEW s \in Seq(P), NEW q, Quoted(s, q),
           NEW i \in Opening(s, q), NEW j \in Opening(s, q), i < j
    PROVE  PhraseAt(s, i) \cap PhraseAt(s, j) = {}
  <1> DEFINE n == Len(s)
  <1>1. n \in Nat /\ i \in 1 .. n /\ j \in 1 .. n /\ s[i] \in Quotes /\ q[j - 1] = None
    BY DEF Opening
  <1>2. ~\A l \in i + 1 .. j - 1 : s[l] # s[i]
    <2>1. SUFFICES ASSUME \A l \in i + 1 .. j - 1 : s[l] # s[i] PROVE FALSE
      OBVIOUS
    <2>2. j - 1 \in i .. n
      BY <1>1
    <2>3. q[j - 1] = s[i]
      BY <2>1, <2>2, QuoteInside
    <2> QED
      BY <1>1, <2>3, NoneAssumption
  <1>3. ASSUME NEW k \in PhraseAt(s, i), k \in PhraseAt(s, j) PROVE FALSE
    <2>1. k \in i .. n /\ \A l \in i + 1 .. k - 1 : s[l] # s[i]
      BY <1>1, PhraseIs
    <2>2. k \in j .. n
      BY <1>1, <1>3, PhraseIs
    <2> QED
      BY <1>1, <1>2, <2>1, <2>2
  <1> QED
    BY <1>3

LEMMA OpenedIsValid ==
    ASSUME NEW P, NEW s \in Seq(P), NEW q, Quoted(s, q)
    PROVE  Valid(s, Opened(s, q))
  <1> DEFINE n == Len(s)
  <1>1. n \in Nat /\ DOMAIN s = 1 .. n
    OBVIOUS
  <1>2. Opened(s, q) \in SUBSET {PhraseAt(s, i) : i \in QuotesOf(s)}
    BY <1>1 DEF Opened, Opening, QuotesOf
  <1>3. ASSUME NEW p \in Opened(s, q), NEW r \in Opened(s, q), p # r PROVE p \cap r = {}
    <2>1. PICK i \in Opening(s, q) : p = PhraseAt(s, i)
      BY DEF Opened
    <2>2. PICK j \in Opening(s, q) : r = PhraseAt(s, j)
      BY DEF Opened
    <2>3. i \in Nat /\ j \in Nat /\ i # j
      BY <1>3, <2>1, <2>2 DEF Opening
    <2>4. CASE i < j
      BY <2>1, <2>2, <2>4, OpenedApart
    <2>5. CASE j < i
      BY <2>1, <2>2, <2>5, OpenedApart
    <2> QED
      BY <2>3, <2>4, <2>5
  <1>4. ASSUME NEW j \in QuotesOf(s) PROVE \E p \in Opened(s, q) : j \in p
    <2>1. j \in 1 .. n /\ s[j] \in Quotes /\ j - 1 \in 0 .. n
      BY <1>1 DEF QuotesOf
    <2>2. CASE q[j - 1] = None
      <3>1. j \in Opening(s, q)
        BY <2>1, <2>2 DEF Opening
      <3>2. j \in PhraseAt(s, j)
        BY <2>1, PhraseIs
      <3> QED
        BY <3>1, <3>2 DEF Opened
    <2>3. CASE q[j - 1] # None
      <3>1. PICK i \in Opening(s, q) :
                i <= j - 1 /\ \A l \in i + 1 .. j - 1 : s[l] # s[i]
        BY <2>1, <2>3, QuoteOpened
      <3>2. i \in 1 .. n
        BY DEF Opening
      <3>3. j \in PhraseAt(s, i)
        BY <2>1, <3>1, <3>2, PhraseIs
      <3> QED
        BY <3>3 DEF Opened
    <2> QED
      BY <2>2, <2>3
  <1> QED
    BY <1>2, <1>3, <1>4 DEF Valid

\* Two valid sets of phrases agree on a quote when they agree before it.
LEMMA ValidAgree ==
    ASSUME NEW P, NEW s \in Seq(P), NEW phrases, Valid(s, phrases), NEW others, Valid(s, others),
           NEW i \in QuotesOf(s), PhraseAt(s, i) \in phrases,
           \A j \in QuotesOf(s) : j < i /\ PhraseAt(s, j) \in others => PhraseAt(s, j) \in phrases
    PROVE  PhraseAt(s, i) \in others
  <1>1. i \in 1 .. Len(s)
    BY DEF QuotesOf
  <1>2. PICK p \in others : i \in p
    BY DEF Valid
  <1>3. PICK j \in QuotesOf(s) : p = PhraseAt(s, j)
    BY DEF Valid
  <1>4. j \in 1 .. Len(s)
    BY DEF QuotesOf
  <1>5. j <= i
    <2>1. i \in PhraseAt(s, j)
      BY <1>2, <1>3
    <2>2. PhraseAt(s, j) = {m \in j .. Len(s) : \A l \in j + 1 .. m - 1 : s[l] # s[j]}
      BY <1>4, PhraseIs
    <2>3. i \in j .. Len(s)
      BY <2>1, <2>2
    <2> QED
      BY <2>3
  <1>6. CASE j = i
    BY <1>3, <1>6
  <1>7. CASE j < i
    <2>1. PhraseAt(s, j) \in phrases
      BY <1>3, <1>7
    <2>2. i \in PhraseAt(s, i) /\ i \in PhraseAt(s, j)
      BY <1>1, <1>2, <1>3, PhraseIs
    <2>3. PhraseAt(s, i) = PhraseAt(s, j)
      BY <2>1, <2>2 DEF Valid
    <2> QED
      BY <1>3, <2>3
  <1> QED
    BY <1>1, <1>4, <1>5, <1>6, <1>7

LEMMA ValidIsUnique ==
    ASSUME NEW P, NEW s \in Seq(P), NEW phrases, Valid(s, phrases), NEW others, Valid(s, others)
    PROVE  phrases = others
  <1> DEFINE D == {i \in QuotesOf(s) : ~(PhraseAt(s, i) \in phrases <=> PhraseAt(s, i) \in others)}
  <1>1. D = {}
    <2>1. SUFFICES ASSUME D # {} PROVE FALSE
      OBVIOUS
    <2>2. D \in SUBSET Nat
      <3>1. QuotesOf(s) \in SUBSET Nat
        BY DEF QuotesOf
      <3> QED
        BY <3>1
    <2>3. PICK i \in D : \A j \in D : i <= j
      <3> HIDE DEF D
      <3> QED
        BY <2>1, <2>2, Least
    <2>4. ASSUME NEW j \in QuotesOf(s), j < i
          PROVE  PhraseAt(s, j) \in phrases <=> PhraseAt(s, j) \in others
      <3>1. i \in Nat /\ j \in Nat
        BY DEF QuotesOf
      <3> QED
        BY <2>3, <2>4, <3>1
    <2>5. i \in QuotesOf(s)
      OBVIOUS
    <2>6. CASE PhraseAt(s, i) \in phrases
      <3>1. PhraseAt(s, i) \in others
        BY <2>4, <2>5, <2>6, ValidAgree
      <3> QED
        BY <2>6, <3>1
    <2>7. CASE PhraseAt(s, i) \in others
      <3>1. PhraseAt(s, i) \in phrases
        BY <2>4, <2>5, <2>7, ValidAgree
      <3> QED
        BY <2>7, <3>1
    <2> QED
      BY <2>6, <2>7
  <1>2. \A i \in QuotesOf(s) : PhraseAt(s, i) \in phrases <=> PhraseAt(s, i) \in others
    BY <1>1
  <1>3. ASSUME NEW p \in phrases PROVE p \in others
    <2>1. PICK i \in QuotesOf(s) : p = PhraseAt(s, i)
      BY DEF Valid
    <2> QED
      BY <1>2, <2>1
  <1>4. ASSUME NEW p \in others PROVE p \in phrases
    <2>1. PICK i \in QuotesOf(s) : p = PhraseAt(s, i)
      BY DEF Valid
    <2> QED
      BY <1>2, <2>1
  <1> QED
    BY <1>3, <1>4

\* The documented phrases are those the scanner opens.
LEMMA PhrasesAre ==
    ASSUME NEW P, NEW s \in Seq(P), NEW q, Quoted(s, q)
    PROVE  Phrases(s) = Opened(s, q)
  <1>1. \E phrases \in SUBSET {PhraseAt(s, i) : i \in QuotesOf(s)} :
            /\ \A p, r \in phrases : p # r => p \cap r = {}
            /\ QuotesOf(s) \subseteq UNION phrases
    BY OpenedIsValid DEF Valid
  <1>2. Valid(s, Phrases(s))
    BY <1>1 DEF Phrases, Valid
  <1> QED
    BY <1>2, OpenedIsValid, ValidIsUnique

\* The documented separators are the spaces at which it has no quote.
LEMMA SeparatorsAre ==
    ASSUME NEW P, NEW s \in Seq(P), NEW q, Quoted(s, q)
    PROVE  Separators(s) = {k \in 1 .. Len(s) : s[k] = Space /\ q[k - 1] = None}
  <1> DEFINE n == Len(s)
  <1>1. n \in Nat /\ DOMAIN s = 1 .. n
    OBVIOUS
  <1>2. ASSUME NEW k \in 1 .. n, s[k] = Space
        PROVE  k \in UNION Phrases(s) <=> q[k - 1] # None
    <2>1. k - 1 \in 0 .. n /\ s[k] \notin Quotes
      <3>1. Space \notin Quotes
        BY DEF Space, Quotes
      <3> QED
        BY <1>1, <1>2, <3>1
    <2>2. ASSUME q[k - 1] # None PROVE k \in UNION Opened(s, q)
      <3>1. PICK i \in Opening(s, q) : i <= k - 1 /\ \A l \in i + 1 .. k - 1 : s[l] # s[i]
        BY <2>1, <2>2, QuoteOpened
      <3>2. i \in 1 .. n
        BY DEF Opening
      <3>3. k \in PhraseAt(s, i)
        BY <3>1, <3>2, PhraseIs
      <3> QED
        BY <3>3 DEF Opened
    <2>3. ASSUME k \in UNION Opened(s, q) PROVE q[k - 1] # None
      <3>1. PICK i \in Opening(s, q) : k \in PhraseAt(s, i)
        BY <2>3 DEF Opened
      <3>2. i \in 1 .. n /\ s[i] \in Quotes
        BY DEF Opening
      <3>3. k \in i .. n /\ \A l \in i + 1 .. k - 1 : s[l] # s[i]
        BY <3>1, <3>2, PhraseIs
      <3>4. k - 1 \in i .. n
        BY <2>1, <3>2, <3>3
      <3>5. q[k - 1] = s[i]
        BY <3>3, <3>4, QuoteInside
      <3> QED
        BY <3>2, <3>5, NoneAssumption
    <2> QED
      BY <2>2, <2>3, PhrasesAre
  <1> QED
    BY <1>1, <1>2 DEF Separators

-----------------------------------------------------------------------------
(***************************************************************************)
(* The scanner's arguments against the documented ones.  Those ended by    *)
(* the k-th piece are added; its builder holds the one that is going on.   *)
(***************************************************************************)

Ended(s, k) == {i \in ArgumentStarts(s) : \E j \in Separators(s) : i < j /\ j <= k}

Before(s, k) == {i \in ArgumentStarts(s) : i < k}

GoesOn(s, k, b) == b <= k /\ \A j \in b .. k : j \notin Separators(s)

Building(s, k, builder) ==
    \/ builder = <<>> /\ (k = 0 \/ k \in Separators(s))
    \/ \E b \in ArgumentStarts(s) : GoesOn(s, k, b) /\ builder = SubSeq(s, b, k)

Documents(s, arguments, S) ==
    \E starts \in [DOMAIN arguments -> S] :
        /\ \A m, n \in DOMAIN arguments : m < n => starts[m] < starts[n]
        /\ \A i \in S : \E n \in DOMAIN arguments : starts[n] = i
        /\ \A n \in DOMAIN arguments : arguments[n] = ArgumentFrom(s, starts[n])

LEMMA StartsAre ==
    ASSUME NEW P, NEW s \in Seq(P), NEW i
    PROVE  /\ Separators(s) \in SUBSET (1 .. Len(s))
           /\ i \in ArgumentStarts(s) <=>
                /\ i \in 1 .. Len(s) /\ i \notin Separators(s)
                /\ i = 1 \/ i - 1 \in Separators(s)
  BY DEF Separators, ArgumentStarts

LEMMA ArgumentEnds ==
    ASSUME NEW P, NEW s \in Seq(P), NEW b \in ArgumentStarts(s), NEW e \in 1 .. Len(s),
           GoesOn(s, e, b), e = Len(s) \/ e + 1 \in Separators(s)
    PROVE  ArgumentFrom(s, b) = SubSeq(s, b, e)
  <1> DEFINE n == Len(s)
             T == {j \in b .. n : b .. j \cap Separators(s) = {}}
  <1>1. n \in Nat /\ b \in 1 .. n /\ b <= e
    BY StartsAre DEF GoesOn
  <1>2. T \in SUBSET (1 .. n) /\ e \in T
    BY <1>1 DEF GoesOn
  <1>3. ASSUME NEW t \in T PROVE t <= e
    <2>1. t \in b .. n /\ b .. t \cap Separators(s) = {}
      OBVIOUS
    <2>2. CASE e = n
      BY <1>1, <2>1, <2>2
    <2>3. CASE e + 1 \in Separators(s)
      <3>1. e + 1 \notin b .. t
        BY <2>1, <2>3
      <3> QED
        BY <1>1, <2>1, <3>1
    <2> QED
      BY <2>2, <2>3
  <1>4. ArgumentFrom(s, b) = SubSeq(s, b, Max(T))
    BY DEF ArgumentFrom
  <1> HIDE DEF T, n
  <1>5. Max(T) = e
    BY <1>1, <1>2, <1>3, GreatestIs
  <1> QED
    BY <1>4, <1>5

\* What begins before k has been ended before it, but for what goes on.
LEMMA BeforeIs ==
    ASSUME NEW P, NEW s \in Seq(P), NEW k \in 1 .. Len(s) + 1
    PROVE  /\ k = 1 \/ k - 1 \in Separators(s) => Before(s, k) = Ended(s, k - 1)
           /\ \A b \in ArgumentStarts(s) : GoesOn(s, k - 1, b) =>
                 /\ Before(s, k) = Ended(s, k - 1) \cup {b}
                 /\ \A i \in Ended(s, k - 1) : i < b
           /\ k \in Separators(s) => Ended(s, k) = Before(s, k)
           /\ k \in 1 .. Len(s) /\ k \notin Separators(s) => Ended(s, k) = Ended(s, k - 1)
           /\ k = Len(s) + 1 => Before(s, k) = ArgumentStarts(s)
  <1> DEFINE n == Len(s)
  <1>1. n \in Nat /\ Separators(s) \in SUBSET (1 .. n)
    BY StartsAre
  <1>2. \A i \in ArgumentStarts(s) : /\ i \in 1 .. n /\ i \notin Separators(s)
                                     /\ i = 1 \/ i - 1 \in Separators(s)
    BY StartsAre
  <1>3. Ended(s, k - 1) \in SUBSET Before(s, k)
    BY <1>1, <1>2 DEF Ended, Before
  <1>4. ASSUME k = 1 \/ k - 1 \in Separators(s) PROVE Before(s, k) = Ended(s, k - 1)
    <2>1. ASSUME NEW i \in Before(s, k) PROVE i \in Ended(s, k - 1)
      <3>1. i \in ArgumentStarts(s) /\ i \in 1 .. n /\ i \notin Separators(s) /\ i < k
        BY <1>2 DEF Before
      <3>2. k - 1 \in Separators(s)
        BY <1>4, <3>1
      <3>3. i < k - 1
        BY <3>1, <3>2
      <3> QED
        BY <3>1, <3>2, <3>3 DEF Ended
    <2> QED
      BY <1>3, <2>1
  <1>5. ASSUME NEW b \in ArgumentStarts(s), GoesOn(s, k - 1, b)
        PROVE  Before(s, k) = Ended(s, k - 1) \cup {b} /\ \A i \in Ended(s, k - 1) : i < b
    <2>1. b \in 1 .. n /\ b <= k - 1 /\ \A j \in b .. k - 1 : j \notin Separators(s)
      BY <1>2, <1>5 DEF GoesOn
    <2>2. b = 1 \/ b - 1 \in Separators(s)
      BY <1>2
    <2>3. b \in Before(s, k)
      BY <2>1 DEF Before
    <2>4. ASSUME NEW i \in Ended(s, k - 1) PROVE i < b
      <3>1. PICK j \in Separators(s) : i < j /\ j <= k - 1
        BY DEF Ended
      <3>2. i \in 1 .. n /\ j \in 1 .. n
        BY <1>1, <1>2 DEF Ended
      <3>3. j \notin b .. k - 1
        BY <2>1
      <3> QED
        BY <2>1, <3>1, <3>2, <3>3
    <2>5. ASSUME NEW i \in Before(s, k), i # b PROVE i \in Ended(s, k - 1)
      <3>1. /\ i \in ArgumentStarts(s) /\ i \in 1 .. n /\ i \notin Separators(s) /\ i < k
            /\ i = 1 \/ i - 1 \in Separators(s)
        BY <1>2 DEF Before
      <3>2. CASE i < b
        <4>1. b - 1 \in Separators(s)
          BY <2>1, <2>2, <3>1, <3>2
        <4>2. i < b - 1
          BY <2>1, <3>1, <3>2, <4>1
        <4> QED
          BY <2>1, <3>1, <4>1, <4>2 DEF Ended
      <3>3. CASE b < i
        <4>1. i - 1 \in Separators(s)
          BY <2>1, <3>1, <3>3
        <4>2. i - 1 \in b .. k - 1
          BY <2>1, <3>1, <3>3
        <4> QED
          BY <2>1, <4>1, <4>2
      <3> QED
        BY <2>1, <2>5, <3>1, <3>2, <3>3
    <2> QED
      BY <1>3, <2>3, <2>4, <2>5
  <1>6. ASSUME k \in Separators(s) PROVE Ended(s, k) = Before(s, k)
    BY <1>1, <1>2, <1>6 DEF Ended, Before
  <1>7. ASSUME k \in 1 .. n, k \notin Separators(s) PROVE Ended(s, k) = Ended(s, k - 1)
    <2>1. \A j \in Separators(s) : j <= k <=> j <= k - 1
      BY <1>1, <1>7
    <2> QED
      BY <2>1 DEF Ended
  <1>8. k = n + 1 => Before(s, k) = ArgumentStarts(s)
    BY <1>2 DEF Before
  <1> QED
    BY <1>4, <1>5, <1>6, <1>7, <1>8

LEMMA DocumentsMore ==
    ASSUME NEW A, NEW s, NEW arguments \in Seq(A), NEW S \in SUBSET Nat,
           Documents(s, arguments, S), NEW b \in Nat, \A i \in S : i < b,
           NEW argument \in A, argument = ArgumentFrom(s, b)
    PROVE  Documents(s, Append(arguments, argument), S \cup {b})
  <1> DEFINE n == Len(arguments)
             longer == Append(arguments, argument)
  <1>1. PICK starts \in [DOMAIN arguments -> S] :
            /\ \A l, m \in DOMAIN arguments : l < m => starts[l] < starts[m]
            /\ \A i \in S : \E m \in DOMAIN arguments : starts[m] = i
            /\ \A m \in DOMAIN arguments : arguments[m] = ArgumentFrom(s, starts[m])
    BY DEF Documents
  <1>2. n \in Nat /\ DOMAIN arguments = 1 .. n
    OBVIOUS
  <1>3. /\ DOMAIN longer = 1 .. n + 1 /\ longer[n + 1] = argument
        /\ \A m \in 1 .. n : longer[m] = arguments[m]
    BY <1>2
  <1> HIDE DEF longer, n
  <1> DEFINE more == [m \in 1 .. n + 1 |-> IF m = n + 1 THEN b ELSE starts[m]]
  <1>4. \A m \in 1 .. n : m \in 1 .. n + 1 /\ m # n + 1
    BY <1>2
  <1>5. more[n + 1] = b /\ \A m \in 1 .. n : more[m] = starts[m] /\ starts[m] \in S
    BY <1>1, <1>2, <1>4
  <1>6. ASSUME NEW m \in 1 .. n + 1 PROVE m = n + 1 \/ m \in 1 .. n
    BY <1>2
  <1>7. more \in [DOMAIN longer -> S \cup {b}]
    BY <1>1, <1>2, <1>3, <1>6
  <1> HIDE DEF more
  <1>8. ASSUME NEW l \in 1 .. n + 1, NEW m \in 1 .. n + 1, l < m PROVE more[l] < more[m]
    <2>1. l \in 1 .. n
      BY <1>2, <1>8
    <2>2. CASE m = n + 1
      BY <1>5, <2>1, <2>2
    <2>3. CASE m \in 1 .. n
      BY <1>1, <1>2, <1>5, <1>8, <2>1, <2>3
    <2> QED
      BY <1>6, <2>2, <2>3
  <1>9. ASSUME NEW i \in S \cup {b} PROVE \E m \in 1 .. n + 1 : more[m] = i
    <2>1. n + 1 \in 1 .. n + 1
      BY <1>2
    <2>2. CASE i = b
      BY <1>5, <2>1, <2>2
    <2>3. CASE i \in S
      BY <1>1, <1>2, <1>4, <1>5, <2>3
    <2> QED
      BY <2>2, <2>3
  <1>10. ASSUME NEW m \in 1 .. n + 1 PROVE longer[m] = ArgumentFrom(s, more[m])
    BY <1>1, <1>2, <1>3, <1>5, <1>6
  <1>11. Documents(s, longer, S \cup {b})
    <2>1. \A l, m \in DOMAIN longer : l < m => more[l] < more[m]
      BY <1>3, <1>8
    <2>2. \A i \in S \cup {b} : \E m \in DOMAIN longer : more[m] = i
      BY <1>3, <1>9
    <2>3. \A m \in DOMAIN longer : longer[m] = ArgumentFrom(s, more[m])
      BY <1>3, <1>10
    <2> QED
      BY <1>7, <2>1, <2>2, <2>3 DEF Documents
  <1> QED
    BY <1>11 DEF longer

\* At a separator, or at the end, what has been built is the argument.
LEMMA AddArgumentStep ==
    ASSUME NEW P, NEW s \in Seq(P), NEW scan \in Scanned(P), NEW k \in 1 .. Len(s) + 1,
           k = Len(s) + 1 \/ k \in Separators(s),
           Documents(s, scan.arguments, Ended(s, k - 1)), Building(s, k - 1, scan.builder)
    PROVE  /\ AddArgument(scan).builder = <<>>
           /\ Documents(s, AddArgument(scan).arguments, Before(s, k))
  <1>1. /\ scan.builder \in Seq(P) /\ scan.arguments \in Seq(Seq(P)) /\ Len(s) \in Nat
        /\ Separators(s) \in SUBSET (1 .. Len(s))
    BY StartsAre DEF Scanned
  <1>2. CASE scan.builder = <<>> /\ (k = 1 \/ k - 1 \in Separators(s))
    <2>1. AddArgument(scan) = scan
      BY <1>2 DEF AddArgument
    <2>2. Before(s, k) = Ended(s, k - 1)
      BY <1>2, BeforeIs
    <2> QED
      BY <1>2, <2>1, <2>2
  <1>3. ASSUME NEW b \in ArgumentStarts(s), GoesOn(s, k - 1, b),
               scan.builder = SubSeq(s, b, k - 1)
        PROVE  /\ AddArgument(scan).builder = <<>>
               /\ Documents(s, AddArgument(scan).arguments, Before(s, k))
    <2>1. b \in 1 .. Len(s) /\ b <= k - 1
      BY <1>3, StartsAre DEF GoesOn
    <2>2. k - 1 \in 1 .. Len(s) /\ (k - 1) + 1 = k
      BY <1>1, <2>1
    <2>3. scan.builder # <<>>
      <3>1. Len(SubSeq(s, b, k - 1)) = (k - 1) - b + 1
        BY <1>1, <2>1, <2>2
      <3>2. (k - 1) - b + 1 # 0
        BY <2>1, <2>2
      <3>3. Len(<<>>) = 0
        OBVIOUS
      <3> QED
        BY <1>3, <3>1, <3>2, <3>3
    <2>4. /\ AddArgument(scan).builder = <<>>
          /\ AddArgument(scan).arguments = Append(scan.arguments, scan.builder)
      BY <2>3 DEF AddArgument, Scanned
    <2>5. k - 1 = Len(s) \/ (k - 1) + 1 \in Separators(s)
      BY <1>1, <2>2
    <2>6. scan.builder = ArgumentFrom(s, b)
      BY <1>3, <2>2, <2>5, ArgumentEnds
    <2>7. /\ Before(s, k) = Ended(s, k - 1) \cup {b}
          /\ \A i \in Ended(s, k - 1) : i < b
      BY <1>3, BeforeIs
    <2>8. Ended(s, k - 1) \in SUBSET Nat
      BY StartsAre DEF Ended
    <2>9. Documents(s, Append(scan.arguments, scan.builder), Ended(s, k - 1) \cup {b})
      BY <1>1, <2>1, <2>6, <2>7, <2>8, DocumentsMore
    <2> QED
      BY <2>4, <2>7, <2>9
  <1>4. \/ scan.builder = <<>> /\ (k = 1 \/ k - 1 \in Separators(s))
        \/ \E b \in ArgumentStarts(s) : GoesOn(s, k - 1, b) /\ scan.builder = SubSeq(s, b, k - 1)
    BY <1>1 DEF Building
  <1> QED
    BY <1>2, <1>3, <1>4

LEMMA ScanPieceIs ==
    ASSUME NEW P, NEW scan \in Scanned(P), NEW c \in P
    PROVE  /\ ScanPiece(scan, c).quote =
                IF c \in Quotes /\ scan.quote = None THEN c
                ELSE IF c \in Quotes /\ scan.quote = c THEN None ELSE scan.quote
           /\ IF c = Space /\ scan.quote = None THEN ScanPiece(scan, c) = AddArgument(scan)
              ELSE /\ ScanPiece(scan, c).arguments = scan.arguments
                   /\ ScanPiece(scan, c).builder = Append(scan.builder, c)
  <1>1. Space \notin Quotes
    BY DEF Space, Quotes
  <1>2. CASE c = Space /\ scan.quote = None
    <2>1. ScanPiece(scan, c) = AddArgument(scan)
      BY <1>2 DEF ScanPiece
    <2>2. AddArgument(scan).quote = scan.quote
      BY DEF AddArgument, Scanned
    <2> QED
      BY <1>1, <1>2, <2>1, <2>2
  <1>3. CASE ~(c = Space /\ scan.quote = None)
    <2> DEFINE quote == CASE c \in Quotes /\ scan.quote = None -> c
                          [] c \in Quotes /\ scan.quote = c -> None
                          [] OTHER -> scan.quote
    <2>1. quote = IF c \in Quotes /\ scan.quote = None THEN c
                  ELSE IF c \in Quotes /\ scan.quote = c THEN None ELSE scan.quote
      BY NoneAssumption
    <2>2. ScanPiece(scan, c) = [scan EXCEPT !.builder = Append(@, c), !.quote = quote]
      BY <1>3 DEF ScanPiece
    <2> HIDE DEF quote
    <2> QED
      BY <1>3, <2>1, <2>2 DEF Scanned
  <1> QED
    BY <1>2, <1>3

LEMMA SplitsAsDocumented ==
    ASSUME NEW P, NEW s \in Seq(P)
    PROVE  Documented(s, ArgumentsIn(s))
  <1> DEFINE n == Len(s)
             Acc == Scanned(P)
             start == [arguments |-> <<>>, builder |-> <<>>, quote |-> None]
  <1>1. start \in Acc /\ ScanPieceKeeps(Acc, P)
    <2>1. start \in Scanned(P)
      BY DEF Scanned
    <2> QED
      BY <2>1, ScanPieceType
  <1>2. Scan(s) = ScanPieceOfAll(start, s)
    BY DEF Scan, ScanPieceOfAll
  <1> HIDE DEF Acc, start
  <1>3. PICK F \in [0 .. n -> Acc] :
            /\ F[0] = start /\ F[n] = ScanPieceOfAll(start, s)
            /\ \A k \in 1 .. n : F[k] = ScanPiece(F[k - 1], s[k])
    BY <1>1, ScanPieceChain
  <1>4. n \in Nat /\ \A k \in 1 .. n : s[k] \in P /\ k - 1 \in 0 .. n
    OBVIOUS
  <1>5. \A k \in 0 .. n : F[k] \in Scanned(P)
    BY <1>3 DEF Acc
  <1> DEFINE q == [k \in 0 .. n |-> F[k].quote]
  <1>6. Quoted(s, q)
    <2>1. q \in [0 .. n -> Quotes \cup {None}]
      BY <1>5 DEF Scanned
    <2>2. q[0] = None
      BY <1>3, <1>4 DEF start
    <2>3. ASSUME NEW k \in 1 .. n
          PROVE  q[k] = IF s[k] \in Quotes /\ q[k - 1] = None THEN s[k]
                        ELSE IF s[k] \in Quotes /\ q[k - 1] = s[k] THEN None ELSE q[k - 1]
      <3>1. F[k - 1] \in Scanned(P) /\ s[k] \in P /\ F[k] = ScanPiece(F[k - 1], s[k])
        BY <1>3, <1>4, <1>5
      <3>2. q[k] = F[k].quote /\ q[k - 1] = F[k - 1].quote
        BY <1>4
      <3> HIDE DEF q
      <3> QED
        BY <3>1, <3>2, ScanPieceIs
    <2> HIDE DEF q
    <2> QED
      BY <2>1, <2>2, <2>3 DEF Quoted
  <1>7. ASSUME NEW k \in 1 .. n
        PROVE  k \in Separators(s) <=> s[k] = Space /\ F[k - 1].quote = None
    <2>1. q[k - 1] = F[k - 1].quote
      BY <1>4
    <2> HIDE DEF q
    <2> QED
      BY <1>6, <2>1, SeparatorsAre
  <1> HIDE DEF q
  <1> DEFINE S == {k \in 0 .. n : /\ Documents(s, F[k].arguments, Ended(s, k))
                                  /\ Building(s, k, F[k].builder)}
  <1>8. 0 \in S
    <2>1. F[0].arguments = <<>> /\ F[0].builder = <<>>
      BY <1>3 DEF start
    <2>2. Ended(s, 0) = {}
      BY StartsAre DEF Ended
    <2>3. Documents(s, <<>>, {})
      <3>1. [m \in {} |-> 0] \in [DOMAIN <<>> -> {}] /\ DOMAIN <<>> = {}
        OBVIOUS
      <3> QED
        BY <3>1 DEF Documents
    <2>4. Building(s, 0, <<>>)
      BY DEF Building
    <2> QED
      BY <1>4, <2>1, <2>2, <2>3, <2>4
  <1>9. ASSUME NEW k \in 1 .. n, k - 1 \in S PROVE k \in S
    <2> DEFINE scan == F[k - 1]
    <2>1. /\ scan \in Scanned(P) /\ s[k] \in P /\ F[k] = ScanPiece(scan, s[k])
          /\ k \in 1 .. n + 1 /\ k \in 0 .. n
      BY <1>3, <1>4, <1>5
    <2>2. Documents(s, scan.arguments, Ended(s, k - 1)) /\ Building(s, k - 1, scan.builder)
      BY <1>9
    <2> HIDE DEF scan
    <2>3. CASE k \in Separators(s)
      <3>1. F[k] = AddArgument(scan)
        BY <1>7, <2>1, <2>3, ScanPieceIs DEF scan
      <3>2. /\ AddArgument(scan).builder = <<>>
            /\ Documents(s, AddArgument(scan).arguments, Before(s, k))
        BY <2>1, <2>2, <2>3, AddArgumentStep
      <3>3. Before(s, k) = Ended(s, k)
        BY <2>1, <2>3, BeforeIs
      <3>4. Building(s, k, <<>>)
        BY <2>3 DEF Building
      <3> QED
        BY <2>1, <3>1, <3>2, <3>3, <3>4
    <2>4. CASE k \notin Separators(s)
      <3>1. F[k].arguments = scan.arguments /\ F[k].builder = Append(scan.builder, s[k])
        BY <1>7, <2>1, <2>4, ScanPieceIs DEF scan
      <3>2. Ended(s, k) = Ended(s, k - 1)
        BY <2>1, <2>4, BeforeIs
      <3>3. Building(s, k, Append(scan.builder, s[k]))
        <4>1. CASE scan.builder = <<>> /\ (k = 1 \/ k - 1 \in Separators(s))
          <5>1. k \in ArgumentStarts(s) /\ GoesOn(s, k, k)
            BY <2>4, <4>1, StartsAre DEF GoesOn
          <5>2. Append(scan.builder, s[k]) = SubSeq(s, k, k)
            <6>1. SubSeq(s, k, k) = <<s[k]>>
              OBVIOUS
            <6> QED
              BY <4>1, <6>1
          <5> QED
            BY <5>1, <5>2 DEF Building
        <4>2. ASSUME NEW b \in ArgumentStarts(s), GoesOn(s, k - 1, b),
                     scan.builder = SubSeq(s, b, k - 1)
              PROVE  Building(s, k, Append(scan.builder, s[k]))
          <5>1. b \in 1 .. n /\ b <= k - 1
            BY <4>2, StartsAre DEF GoesOn
          <5>2. GoesOn(s, k, b)
            BY <2>4, <4>2, <5>1 DEF GoesOn
          <5>3. Append(SubSeq(s, b, k - 1), s[k]) = SubSeq(s, b, k)
            <6>1. SubSeq(s, b, k) = SubSeq(s, b, k - 1) \o <<s[k]>>
              BY <5>1, SubSeqRecursiveSecond
            <6>2. SubSeq(s, b, k - 1) \in Seq(P)
              BY <5>1
            <6> QED
              BY <2>1, <6>1, <6>2, AppendIsConcat
          <5> QED
            BY <4>2, <5>2, <5>3 DEF Building
        <4>3. \/ scan.builder = <<>> /\ (k = 1 \/ k - 1 \in Separators(s))
              \/ \E b \in ArgumentStarts(s) :
                     GoesOn(s, k - 1, b) /\ scan.builder = SubSeq(s, b, k - 1)
          BY <2>2 DEF Building
        <4> QED
          BY <4>1, <4>2, <4>3
      <3> QED
        BY <2>1, <2>2, <3>1, <3>2, <3>3
    <2> QED
      BY <2>3, <2>4
  <1>10. n \in S
    <2> HIDE DEF S, n
    <2>1. 0 .. n \subseteq S
      BY <1>4, <1>8, <1>9, Induction
    <2> QED
      BY <1>4, <2>1
  <1>11. Documents(s, AddArgument(F[n]).arguments, ArgumentStarts(s))
    <2> DEFINE scan == F[n]
    <2>1. /\ scan \in Scanned(P) /\ n + 1 \in 1 .. n + 1 /\ (n + 1) - 1 = n
          /\ Documents(s, scan.arguments, Ended(s, n)) /\ Building(s, n, scan.builder)
      BY <1>4, <1>5, <1>10
    <2> HIDE DEF scan
    <2>2. Documents(s, AddArgument(scan).arguments, Before(s, n + 1))
      BY <2>1, AddArgumentStep
    <2>3. Before(s, n + 1) = ArgumentStarts(s)
      BY <2>1, BeforeIs
    <2> QED
      BY <2>2, <2>3 DEF scan
  <1> QED
    BY <1>2, <1>3, <1>11 DEF Documents, Documented, ArgumentsIn

-----------------------------------------------------------------------------
(***************************************************************************)
(* How a command line is read: the words of its writings are put together  *)
(* (AddWords), the properties are taken out (Extract), the rest is parsed  *)
(* (ParseWord).  All three are folds; of the last two, one more word is    *)
(* one more step.                                                          *)
(***************************************************************************)

AddWordsKeeps(Acc, W) == \A acc \in Acc : \A e \in W : AddWords(acc, e) \in Acc

AddWordsOfAll(base, s) == FoldLeft(AddWords, base, s)

AddWordsIterated(iter, base, s) ==
    iter = [t \in SUBSET DOMAIN s |->
              IF t = {} THEN base ELSE AddWords(iter[t \ {Max(t)}], s[Max(t)])]

LEMMA AddWordsChain ==
    ASSUME NEW W, NEW Acc, NEW base \in Acc, NEW s \in Seq(W),
           AddWordsKeeps(Acc, W)
    PROVE  \E F \in [0 .. Len(s) -> Acc] :
               /\ F[0] = base /\ F[Len(s)] = AddWordsOfAll(base, s)
               /\ \A k \in 1 .. Len(s) : F[k] = AddWords(F[k - 1], s[k])
  <1> DEFINE n == Len(s)
             h == [k \in 1 .. n |-> [acc \in Acc |-> AddWords(acc, s[k])]]
             it == CHOOSE iter : AddWordsIterated(iter, base, s)
  <1>1. n \in Nat /\ DOMAIN s = 1 .. n /\ base \in Acc
    OBVIOUS
  <1>2. AddWordsOfAll(base, s) = it[DOMAIN s]
    BY DEF AddWordsOfAll, FoldLeft, MapThenFoldSet, AddWordsIterated
  <1>3. h \in [1 .. n -> [Acc -> Acc]]
    <2>1. ASSUME NEW k \in 1 .. n, NEW acc \in Acc PROVE AddWords(acc, s[k]) \in Acc
      <3>1. s[k] \in W
        BY <1>1
      <3> QED
        BY <3>1 DEF AddWordsKeeps
    <2> QED
      BY <2>1
  <1>4. \A k \in 1 .. n : \A acc \in Acc : h[k][acc] = AddWords(acc, s[k])
    OBVIOUS
  <1>5. \A t \in SUBSET (1 .. n) : t # {} => Max(t) \in 1 .. n /\ t \ {Max(t)} \in SUBSET (1 .. n)
    BY <1>1, Greatest
  <1> HIDE DEF n, h, it
  <1>6. AddWordsIterated(it, base, s)
    <2>1. PICK fold \in [SUBSET (1 .. n) -> Acc] : Folded(fold, base, h, n)
      BY <1>1, <1>3, FoldExists
    <2>2. ASSUME NEW t \in SUBSET (1 .. n)
          PROVE  fold[t] = IF t = {} THEN base ELSE AddWords(fold[t \ {Max(t)}], s[Max(t)])
      BY <1>4, <1>5, <2>1, <2>2 DEF Folded
    <2>3. fold = [t \in SUBSET DOMAIN s |->
                    IF t = {} THEN base ELSE AddWords(fold[t \ {Max(t)}], s[Max(t)])]
      BY <1>1, <2>1, <2>2
    <2>4. AddWordsIterated(fold, base, s)
      BY <2>3 DEF AddWordsIterated
    <2> QED
      BY <2>4 DEF it
  <1>7. \A t \in SUBSET (1 .. n) :
            it[t] = IF t = {} THEN base ELSE AddWords(it[t \ {Max(t)}], s[Max(t)])
    BY <1>1, <1>6 DEF AddWordsIterated
  <1>8. Follows(it, base, h, n, Acc)
    BY <1>1, <1>3, <1>4, <1>5, <1>7 DEF Follows
  <1>9. PICK F \in [0 .. n -> Acc] :
             F[0] = base /\ F[n] = it[1 .. n] /\ \A k \in 1 .. n : F[k] = h[k][F[k - 1]]
    BY <1>8, FoldChain
  <1>10. \A k \in 1 .. n : F[k] = AddWords(F[k - 1], s[k])
    <2>1. ASSUME NEW k \in 1 .. n PROVE F[k - 1] \in Acc
      BY <1>1
    <2> QED
      BY <1>4, <1>9, <2>1
  <1> QED
    BY <1>1, <1>2, <1>9, <1>10 DEF n

ExtractKeeps(Acc, X) == \A acc \in Acc : \A e \in X : Extract(acc, e) \in Acc

ExtractOfAll(base, s) == FoldLeft(Extract, base, s)

ExtractIterated(iter, base, s) ==
    iter = [t \in SUBSET DOMAIN s |->
              IF t = {} THEN base ELSE Extract(iter[t \ {Max(t)}], s[Max(t)])]

LEMMA ExtractChain ==
    ASSUME NEW X, NEW Acc, NEW base \in Acc, NEW s \in Seq(X),
           ExtractKeeps(Acc, X)
    PROVE  \E F \in [0 .. Len(s) -> Acc] :
               /\ F[0] = base /\ F[Len(s)] = ExtractOfAll(base, s)
               /\ \A k \in 1 .. Len(s) : F[k] = Extract(F[k - 1], s[k])
  <1> DEFINE n == Len(s)
             h == [k \in 1 .. n |-> [acc \in Acc |-> Extract(acc, s[k])]]
             it == CHOOSE iter : ExtractIterated(iter, base, s)
  <1>1. n \in Nat /\ DOMAIN s = 1 .. n /\ base \in Acc
    OBVIOUS
  <1>2. ExtractOfAll(base, s) = it[DOMAIN s]
    BY DEF ExtractOfAll, FoldLeft, MapThenFoldSet, ExtractIterated
  <1>3. h \in [1 .. n -> [Acc -> Acc]]
    <2>1. ASSUME NEW k \in 1 .. n, NEW acc \in Acc PROVE Extract(acc, s[k]) \in Acc
      <3>1. s[k] \in X
        BY <1>1
      <3> QED
        BY <3>1 DEF ExtractKeeps
    <2> QED
      BY <2>1
  <1>4. \A k \in 1 .. n : \A acc \in Acc : h[k][acc] = Extract(acc, s[k])
    OBVIOUS
  <1>5. \A t \in SUBSET (1 .. n) : t # {} => Max(t) \in 1 .. n /\ t \ {Max(t)} \in SUBSET (1 .. n)
    BY <1>1, Greatest
  <1> HIDE DEF n, h, it
  <1>6. ExtractIterated(it, base, s)
    <2>1. PICK fold \in [SUBSET (1 .. n) -> Acc] : Folded(fold, base, h, n)
      BY <1>1, <1>3, FoldExists
    <2>2. ASSUME NEW t \in SUBSET (1 .. n)
          PROVE  fold[t] = IF t = {} THEN base ELSE Extract(fold[t \ {Max(t)}], s[Max(t)])
      BY <1>4, <1>5, <2>1, <2>2 DEF Folded
    <2>3. fold = [t \in SUBSET DOMAIN s |->
                    IF t = {} THEN base ELSE Extract(fold[t \ {Max(t)}], s[Max(t)])]
      BY <1>1, <2>1, <2>2
    <2>4. ExtractIterated(fold, base, s)
      BY <2>3 DEF ExtractIterated
    <2> QED
      BY <2>4 DEF it
  <1>7. \A t \in SUBSET (1 .. n) :
            it[t] = IF t = {} THEN base ELSE Extract(it[t \ {Max(t)}], s[Max(t)])
    BY <1>1, <1>6 DEF ExtractIterated
  <1>8. Follows(it, base, h, n, Acc)
    BY <1>1, <1>3, <1>4, <1>5, <1>7 DEF Follows
  <1>9. PICK F \in [0 .. n -> Acc] :
             F[0] = base /\ F[n] = it[1 .. n] /\ \A k \in 1 .. n : F[k] = h[k][F[k - 1]]
    BY <1>8, FoldChain
  <1>10. \A k \in 1 .. n : F[k] = Extract(F[k - 1], s[k])
    <2>1. ASSUME NEW k \in 1 .. n PROVE F[k - 1] \in Acc
      BY <1>1
    <2> QED
      BY <1>4, <1>9, <2>1
  <1> QED
    BY <1>1, <1>2, <1>9, <1>10 DEF n

LEMMA ExtractMore ==
    ASSUME NEW X, NEW Acc, NEW base \in Acc, NEW s \in Seq(X), NEW e \in X,
           ExtractKeeps(Acc, X)
    PROVE  /\ ExtractOfAll(base, s) \in Acc
           /\ ExtractOfAll(base, Append(s, e)) = Extract(ExtractOfAll(base, s), e)
  <1> DEFINE n == Len(s)
             t == Append(s, e)
  <1>0. t \in Seq(X)
    OBVIOUS
  <1>1. /\ n \in Nat /\ Len(t) = n + 1 /\ t[n + 1] = e
        /\ \A k \in 1 .. n : t[k] = s[k]
    OBVIOUS
  <1>2. PICK F \in [0 .. Len(s) -> Acc] :
            /\ F[0] = base /\ F[Len(s)] = ExtractOfAll(base, s)
            /\ \A k \in 1 .. Len(s) : F[k] = Extract(F[k - 1], s[k])
    BY ExtractChain
  <1> HIDE DEF t
  <1>3. PICK G \in [0 .. Len(t) -> Acc] :
            /\ G[0] = base /\ G[Len(t)] = ExtractOfAll(base, t)
            /\ \A k \in 1 .. Len(t) : G[k] = Extract(G[k - 1], t[k])
    BY <1>0, ExtractChain
  <1> DEFINE S == {k \in 0 .. n : F[k] = G[k]}
  <1>4. 0 \in S
    BY <1>1, <1>2, <1>3
  <1>5. ASSUME NEW k \in 1 .. n, k - 1 \in S PROVE k \in S
    <2>1. F[k] = Extract(F[k - 1], s[k])
      BY <1>2
    <2>2. G[k] = Extract(G[k - 1], t[k]) /\ t[k] = s[k]
      BY <1>1, <1>3
    <2> QED
      BY <1>5, <2>1, <2>2
  <1>6. n \in S
    <2> HIDE DEF S
    <2>1. 0 .. n \subseteq S
      BY <1>1, <1>4, <1>5, Induction
    <2> QED
      BY <1>1, <2>1
  <1>7. G[n + 1] = Extract(G[n], e)
    <2>1. n + 1 \in 1 .. Len(t) /\ (n + 1) - 1 = n
      BY <1>1
    <2> QED
      BY <1>1, <1>3, <2>1
  <1>8. F[n] \in Acc
    BY <1>1, <1>2
  <1> QED
    BY <1>1, <1>2, <1>3, <1>6, <1>7, <1>8 DEF t

ParseWordKeeps(Acc, X) == \A acc \in Acc : \A e \in X : ParseWord(acc, e) \in Acc

ParseWordOfAll(base, s) == FoldLeft(ParseWord, base, s)

ParseWordIterated(iter, base, s) ==
    iter = [t \in SUBSET DOMAIN s |->
              IF t = {} THEN base ELSE ParseWord(iter[t \ {Max(t)}], s[Max(t)])]

LEMMA ParseWordChain ==
    ASSUME NEW X, NEW Acc, NEW base \in Acc, NEW s \in Seq(X),
           ParseWordKeeps(Acc, X)
    PROVE  \E F \in [0 .. Len(s) -> Acc] :
               /\ F[0] = base /\ F[Len(s)] = ParseWordOfAll(base, s)
               /\ \A k \in 1 .. Len(s) : F[k] = ParseWord(F[k - 1], s[k])
  <1> DEFINE n == Len(s)
             h == [k \in 1 .. n |-> [acc \in Acc |-> ParseWord(acc, s[k])]]
             it == CHOOSE iter : ParseWordIterated(iter, base, s)
  <1>1. n \in Nat /\ DOMAIN s = 1 .. n /\ base \in Acc
    OBVIOUS
  <1>2. ParseWordOfAll(base, s) = it[DOMAIN s]
    BY DEF ParseWordOfAll, FoldLeft, MapThenFoldSet, ParseWordIterated
  <1>3. h \in [1 .. n -> [Acc -> Acc]]
    <2>1. ASSUME NEW k \in 1 .. n, NEW acc \in Acc PROVE ParseWord(acc, s[k]) \in Acc
      <3>1. s[k] \in X
        BY <1>1
      <3> QED
        BY <3>1 DEF ParseWordKeeps
    <2> QED
      BY <2>1
  <1>4. \A k \in 1 .. n : \A acc \in Acc : h[k][acc] = ParseWord(acc, s[k])
    OBVIOUS
  <1>5. \A t \in SUBSET (1 .. n) : t # {} => Max(t) \in 1 .. n /\ t \ {Max(t)} \in SUBSET (1 .. n)
    BY <1>1, Greatest
  <1> HIDE DEF n, h, it
  <1>6. ParseWordIterated(it, base, s)
    <2>1. PICK fold \in [SUBSET (1 .. n) -> Acc] : Folded(fold, base, h, n)
      BY <1>1, <1>3, FoldExists
    <2>2. ASSUME NEW t \in SUBSET (1 .. n)
          PROVE  fold[t] = IF t = {} THEN base ELSE ParseWord(fold[t \ {Max(t)}], s[Max(t)])
      BY <1>4, <1>5, <2>1, <2>2 DEF Folded
    <2>3. fold = [t \in SUBSET DOMAIN s |->
                    IF t = {} THEN base ELSE ParseWord(fold[t \ {Max(t)}], s[Max(t)])]
      BY <1>1, <2>1, <2>2
    <2>4. ParseWordIterated(fold, base, s)
      BY <2>3 DEF ParseWordIterated
    <2> QED
      BY <2>4 DEF it
  <1>7. \A t \in SUBSET (1 .. n) :
            it[t] = IF t = {} THEN base ELSE ParseWord(it[t \ {Max(t)}], s[Max(t)])
    BY <1>1, <1>6 DEF ParseWordIterated
  <1>8. Follows(it, base, h, n, Acc)
    BY <1>1, <1>3, <1>4, <1>5, <1>7 DEF Follows
  <1>9. PICK F \in [0 .. n -> Acc] :
             F[0] = base /\ F[n] = it[1 .. n] /\ \A k \in 1 .. n : F[k] = h[k][F[k - 1]]
    BY <1>8, FoldChain
  <1>10. \A k \in 1 .. n : F[k] = ParseWord(F[k - 1], s[k])
    <2>1. ASSUME NEW k \in 1 .. n PROVE F[k - 1] \in Acc
      BY <1>1
    <2> QED
      BY <1>4, <1>9, <2>1
  <1> QED
    BY <1>1, <1>2, <1>9, <1>10 DEF n

LEMMA ParseWordMore ==
    ASSUME NEW X, NEW Acc, NEW base \in Acc, NEW s \in Seq(X), NEW e \in X,
           ParseWordKeeps(Acc, X)
    PROVE  /\ ParseWordOfAll(base, s) \in Acc
           /\ ParseWordOfAll(base, Append(s, e)) = ParseWord(ParseWordOfAll(base, s), e)
  <1> DEFINE n == Len(s)
             t == Append(s, e)
  <1>0. t \in Seq(X)
    OBVIOUS
  <1>1. /\ n \in Nat /\ Len(t) = n + 1 /\ t[n + 1] = e
        /\ \A k \in 1 .. n : t[k] = s[k]
    OBVIOUS
  <1>2. PICK F \in [0 .. Len(s) -> Acc] :
            /\ F[0] = base /\ F[Len(s)] = ParseWordOfAll(base, s)
            /\ \A k \in 1 .. Len(s) : F[k] = ParseWord(F[k - 1], s[k])
    BY ParseWordChain
  <1> HIDE DEF t
  <1>3. PICK G \in [0 .. Len(t) -> Acc] :
            /\ G[0] = base /\ G[Len(t)] = ParseWordOfAll(base, t)
            /\ \A k \in 1 .. Len(t) : G[k] = ParseWord(G[k - 1], t[k])
    BY <1>0, ParseWordChain
  <1> DEFINE S == {k \in 0 .. n : F[k] = G[k]}
  <1>4. 0 \in S
    BY <1>1, <1>2, <1>3
  <1>5. ASSUME NEW k \in 1 .. n, k - 1 \in S PROVE k \in S
    <2>1. F[k] = ParseWord(F[k - 1], s[k])
      BY <1>2
    <2>2. G[k] = ParseWord(G[k - 1], t[k]) /\ t[k] = s[k]
      BY <1>1, <1>3
    <2> QED
      BY <1>5, <2>1, <2>2
  <1>6. n \in S
    <2> HIDE DEF S
    <2>1. 0 .. n \subseteq S
      BY <1>1, <1>4, <1>5, Induction
    <2> QED
      BY <1>1, <2>1
  <1>7. G[n + 1] = ParseWord(G[n], e)
    <2>1. n + 1 \in 1 .. Len(t) /\ (n + 1) - 1 = n
      BY <1>1
    <2> QED
      BY <1>1, <1>3, <2>1
  <1>8. F[n] \in Acc
    BY <1>1, <1>2
  <1> QED
    BY <1>1, <1>2, <1>3, <1>6, <1>7, <1>8 DEF t

-----------------------------------------------------------------------------
(***************************************************************************)
(* The words of a set of writings, and what reading them can lead to.      *)
(***************************************************************************)

Styles == {"property", "alone", "joined", "separate"}

Spoken(W) ==
    {OptionWord(w.option, None) : w \in W} \cup {OptionWord(w.option, w.value) : w \in W}
      \cup {PropertyWord(w.option, w.value) : w \in W} \cup {ValueWord(w.value) : w \in W}

LEMMA WordsOfAre ==
    ASSUME NEW W, NEW w \in W, w.style \in Styles
    PROVE  /\ w.style = "property" => WordsOf(w) = <<PropertyWord(w.option, w.value)>>
           /\ w.style = "alone" => WordsOf(w) = <<OptionWord(w.option, None)>>
           /\ w.style = "joined" => WordsOf(w) = <<OptionWord(w.option, w.value)>>
           /\ w.style = "separate" =>
                WordsOf(w) = <<OptionWord(w.option, None), ValueWord(w.value)>>
           /\ {OptionWord(w.option, None), OptionWord(w.option, w.value),
               PropertyWord(w.option, w.value), ValueWord(w.value)} \subseteq Spoken(W)
           /\ WordsOf(w) \in Seq(Spoken(W))
  <1>1. /\ w.style = "property" => WordsOf(w) = <<PropertyWord(w.option, w.value)>>
        /\ w.style = "alone" => WordsOf(w) = <<OptionWord(w.option, None)>>
        /\ w.style = "joined" => WordsOf(w) = <<OptionWord(w.option, w.value)>>
        /\ w.style = "separate" => WordsOf(w) = <<OptionWord(w.option, None), ValueWord(w.value)>>
    BY DEF WordsOf, Styles
  <1>2. {OptionWord(w.option, None), OptionWord(w.option, w.value),
         PropertyWord(w.option, w.value), ValueWord(w.value)} \subseteq Spoken(W)
    BY DEF Spoken
  <1>3. WordsOf(w) \in Seq(Spoken(W))
    <2>1. \A x \in Spoken(W) : <<x>> \in Seq(Spoken(W))
      OBVIOUS
    <2>2. \A x, y \in Spoken(W) : <<x, y>> \in Seq(Spoken(W))
      OBVIOUS
    <2> QED
      BY <1>1, <1>2, <2>1, <2>2 DEF Styles
  <1> QED
    BY <1>1, <1>2, <1>3

LEMMA AddWordsType ==
    ASSUME NEW W, \A w \in W : w.style \in Styles
    PROVE  AddWordsKeeps(Seq(Spoken(W)), W)
  <1> SUFFICES ASSUME NEW words \in Seq(Spoken(W)), NEW w \in W
               PROVE  AddWords(words, w) \in Seq(Spoken(W))
    BY DEF AddWordsKeeps
  <1>1. WordsOf(w) \in Seq(Spoken(W))
    BY WordsOfAre
  <1> QED
    BY <1>1 DEF AddWords

Maps(N, V) == UNION {[M -> V] : M \in SUBSET N}

Parts(X) ==
    [properties : Maps({x.name : x \in X}, {x.value : x \in X}), remaining : Seq(X)]

LEMMA PutType ==
    ASSUME NEW N, NEW V, NEW properties \in Maps(N, V),
           NEW name \in N, NEW value \in V
    PROVE  /\ Put(properties, name, value) \in Maps(N, V)
           /\ DOMAIN Put(properties, name, value) = DOMAIN properties \cup {name}
           /\ Put(properties, name, value)[name] = value
           /\ \A n \in DOMAIN properties : n # name => Put(properties, name, value)[n] = properties[n]
  <1>1. PICK M \in SUBSET N : properties \in [M -> V]
    BY DEF Maps
  <1>2. Put(properties, name, value) \in [M \cup {name} -> V]
    BY <1>1 DEF Put
  <1>3. M \cup {name} \in SUBSET N
    BY <1>1
  <1> QED
    BY <1>1, <1>2, <1>3 DEF Put, Maps

LEMMA ExtractIs ==
    ASSUME NEW X, NEW parts \in Parts(X), NEW x \in X
    PROVE  /\ Extract(parts, x) \in Parts(X)
           /\ x.is = "property" =>
                /\ Extract(parts, x).properties = Put(parts.properties, x.name, x.value)
                /\ Extract(parts, x).remaining = parts.remaining
           /\ x.is # "property" =>
                /\ Extract(parts, x).properties = parts.properties
                /\ Extract(parts, x).remaining = Append(parts.remaining, x)
  <1> DEFINE N == {y.name : y \in X}
             V == {y.value : y \in X}
             M == Maps(N, V)
  <1>1. x.name \in N /\ x.value \in V
    OBVIOUS
  <1>2. parts \in [properties : M, remaining : Seq(X)]
    BY DEF Parts
  <1>3. Parts(X) = [properties : M, remaining : Seq(X)]
    BY DEF Parts
  <1>4. Put(parts.properties, x.name, x.value) \in M
    <2>1. parts.properties \in M
      BY <1>2
    <2> HIDE DEF N, V
    <2> QED
      BY <1>1, <2>1, PutType
  <1>5. Append(parts.remaining, x) \in Seq(X)
    BY <1>2
  <1> HIDE DEF M
  <1> QED
    BY <1>2, <1>3, <1>4, <1>5 DEF Extract

LEMMA ExtractType ==
    ASSUME NEW X
    PROVE  ExtractKeeps(Parts(X), X)
  BY ExtractIs DEF ExtractKeeps

-----------------------------------------------------------------------------
(***************************************************************************)
(* The flag parser, one word at a time.                                    *)
(***************************************************************************)

ParserOf(V) ==
    [options : {f \in [Options(goal) -> V \cup Seq(V)] : \A o \in Repeatable(goal) : f[o] \in Seq(V)},
     awaits : Taking(goal) \cup {None},
     ended : {None, "usage", "help", "stopped"}]

LEMMA EndIs ==
    ASSUME NEW V, NEW parse \in ParserOf(V), NEW how \in {"usage", "help", "stopped"}
    PROVE  End(parse, how) \in ParserOf(V) /\ End(parse, how).ended = how
  BY DEF End, ParserOf

LEMMA AwaitIs ==
    ASSUME NEW V, NEW parse \in ParserOf(V), NEW option \in Taking(goal)
    PROVE  /\ Await(parse, option) \in ParserOf(V) /\ Await(parse, option).awaits = option
           /\ Await(parse, option).ended = parse.ended
           /\ Await(parse, option).options = parse.options
  BY DEF Await, ParserOf

LEMMA GiveIs ==
    ASSUME NEW V, NEW parse \in ParserOf(V), NEW option \in Options(goal), NEW value \in V
    PROVE  LET given == Give(parse, option, value) IN
           /\ given \in ParserOf(V)
           /\ given.awaits = None
           /\ given.ended = IF option = "environmentVariables" /\ value \notin Pairs
                            THEN "usage" ELSE None
           /\ given.options[option] = IF option \in Repeatable(goal)
                                      THEN Append(parse.options[option], value) ELSE value
           /\ \A o \in Options(goal) : o # option => given.options[o] = parse.options[o]
  <1> DEFINE new == IF option \in Repeatable(goal)
                    THEN Append(parse.options[option], value) ELSE value
             options == [parse.options EXCEPT ![option] = new]
             ended == IF option = "environmentVariables" /\ value \notin Pairs
                      THEN "usage" ELSE None
             Opts == {f \in [Options(goal) -> V \cup Seq(V)] :
                         \A o \in Repeatable(goal) : f[o] \in Seq(V)}
  <1>1. /\ parse \in [options : Opts, awaits : Taking(goal) \cup {None},
                      ended : {None, "usage", "help", "stopped"}]
        /\ ParserOf(V) = [options : Opts, awaits : Taking(goal) \cup {None},
                        ended : {None, "usage", "help", "stopped"}]
    BY DEF ParserOf
  <1>2. Give(parse, option, value) =
            [parse EXCEPT !.awaits = None, !.options = options, !.ended = ended]
    BY <1>1 DEF Give
  <1>3. /\ parse.options \in [Options(goal) -> V \cup Seq(V)]
        /\ \A o \in Repeatable(goal) : parse.options[o] \in Seq(V)
    BY <1>1
  <1>4. new \in V \cup Seq(V) /\ (option \in Repeatable(goal) => new \in Seq(V))
    BY <1>3
  <1> HIDE DEF new
  <1>5. /\ options[option] = new
        /\ \A o \in Options(goal) : o # option => options[o] = parse.options[o]
    BY <1>3
  <1>7. options \in Opts
    <2>1. options \in [Options(goal) -> V \cup Seq(V)]
      BY <1>3, <1>4
    <2>2. ASSUME NEW o \in Repeatable(goal) PROVE options[o] \in Seq(V)
      <3>1. o \in Options(goal)
        BY DEF Options, Taking
      <3> HIDE DEF options
      <3> QED
        BY <1>3, <1>4, <1>5, <3>1
    <2> HIDE DEF options
    <2> QED
      BY <2>1, <2>2
  <1>6. ended \in {None, "usage", "help", "stopped"}
    OBVIOUS
  <1> HIDE DEF options, ended, Opts
  <1> QED
    BY <1>1, <1>2, <1>5, <1>6, <1>7 DEF new, ended

\* What one word does to a parser that waits for no value.
LEMMA IdleParse ==
    ASSUME NEW V, NEW parse \in ParserOf(V), parse.ended = None, parse.awaits = None,
           goal \in Goals, NEW x, x.name # "--", x.name # "help"
    PROVE  /\ x.is = "word" => ParseWord(parse, x) = End(parse, "usage")
           /\ x.is = "option" /\ x.name \notin Options(goal) =>
                ParseWord(parse, x) = End(parse, "usage")
           /\ x.is = "option" /\ x.name \in Switches(goal) =>
                ParseWord(parse, x) = IF x.value \in {None, "true", "false"}
                                      THEN Give(parse, x.name,
                                                IF x.value = None THEN "true" ELSE x.value)
                                      ELSE End(parse, "usage")
           /\ x.is = "option" /\ x.name \in Taking(goal) =>
                ParseWord(parse, x) = IF x.value = None THEN Await(parse, x.name)
                                      ELSE Give(parse, x.name, x.value)
  <1>1. ParseWord(parse, x) = ParseOne(parse, x)
    BY NoValueAssumption DEF ParseWord
  <1>2. CASE x.is = "word"
    BY <1>1, <1>2 DEF ParseOne
  <1>3. CASE x.is = "option" /\ x.name \notin Options(goal)
    <2>1. /\ x.is # "word" /\ x.name # "--" /\ x.name # "help"
          /\ x.name \notin Switches(goal) /\ x.name \notin Taking(goal)
      BY <1>3 DEF Options
    <2> QED
      BY <1>1, <2>1 DEF ParseOne
  <1>4. CASE x.is = "option" /\ x.name \in Switches(goal)
    <2>1. x.name \notin Taking(goal)
      BY <1>4, NameAssumption DEF Taking
    <2> QED
      BY <1>1, <1>4, <2>1 DEF ParseOne, Options, Taking
  <1>5. CASE x.is = "option" /\ x.name \in Taking(goal)
    <2>1. x.name \notin Switches(goal)
      BY <1>5, NameAssumption DEF Taking
    <2> QED
      BY <1>1, <1>5, <2>1 DEF ParseOne, Options, Taking
  <1> QED
    BY <1>2, <1>3, <1>4, <1>5 DEF Options, Taking

LEMMA AwaitingParse ==
    ASSUME NEW parse, parse.ended = None, parse.awaits # None, NEW x
    PROVE  ParseWord(parse, x) = Give(parse, parse.awaits, x.spelling)
  <1>1. None \notin {"stopped", "usage", "help"}
    BY NoValueAssumption
  <1> QED
    BY <1>1 DEF ParseWord

LEMMA EndedParse ==
    ASSUME NEW parse, parse.ended = "usage", NEW x
    PROVE  ParseWord(parse, x) = parse
  <1>1. parse.ended # "stopped" /\ parse.ended \in {"usage", "help"} /\ parse.ended # None
    BY NoValueAssumption
  <1> QED
    BY <1>1, Zenon DEF ParseWord

\* Whatever the words, the parser stays one.
LEMMA ParseWordType ==
    ASSUME NEW X, NEW V, "true" \in V,
           \A x \in X : x.spelling \in V /\ (x.value \in V \/ x.value = None), goal \in Goals
    PROVE  ParseWordKeeps(ParserOf(V), X)
  <1> SUFFICES ASSUME NEW parse \in ParserOf(V), NEW x \in X
               PROVE  ParseWord(parse, x) \in ParserOf(V)
    BY DEF ParseWordKeeps
  <1>1. /\ End(parse, "usage") \in ParserOf(V)
        /\ End(parse, "stopped") \in ParserOf(V)
        /\ End(parse, "help") \in ParserOf(V)
    BY EndIs
  <1>2. parse.ended \in {None, "usage", "help", "stopped"} /\ parse.awaits \in Taking(goal) \cup {None}
    BY DEF ParserOf
  <1>3. CASE parse.ended \in {"usage", "help", "stopped"}
    <2>1. parse.ended # None
      BY <1>3, NoValueAssumption
    <2>2. ParseWord(parse, x) \in {parse, End(parse, "usage")}
      <3>1. CASE parse.ended = "stopped"
        <4>1. parse.ended \notin {"usage", "help"}
          BY <3>1
        <4> QED
          BY <2>1, <3>1, <4>1, Zenon DEF ParseWord
      <3>2. CASE parse.ended \in {"usage", "help"}
        <4>1. parse.ended # "stopped"
          BY <3>2
        <4> QED
          BY <2>1, <3>2, <4>1, Zenon DEF ParseWord
      <3> QED
        BY <1>3, <3>1, <3>2
    <2> QED
      BY <1>1, <2>2
  <1>4. CASE parse.ended = None /\ parse.awaits # None
    <2>1. parse.awaits \in Options(goal) /\ x.spelling \in V
      BY <1>2, <1>4 DEF Options, Taking
    <2>2. Give(parse, parse.awaits, x.spelling) \in ParserOf(V)
      BY <2>1, GiveIs
    <2> QED
      BY <1>4, <2>2, AwaitingParse
  <1>5. CASE parse.ended = None /\ parse.awaits = None
    <2>1. None \notin {"stopped", "usage", "help"}
      BY NoValueAssumption
    <2>7. ParseWord(parse, x) = ParseOne(parse, x)
      BY <1>5, <2>1 DEF ParseWord
    <2>2. CASE x.name \in {"--", "help"}
      <3>1. x.name \notin Options(goal)
        BY <2>2, NameAssumption
      <3>2. x.name \notin Switches(goal) /\ x.name \notin Taking(goal)
        BY <3>1 DEF Options
      <3>3. ParseOne(parse, x) \in {End(parse, "usage"), End(parse, "stopped"), End(parse, "help")}
        BY <2>2, <3>2 DEF ParseOne
      <3> QED
        BY <1>1, <2>7, <3>3
    <2>3. CASE x.name \notin {"--", "help"} /\ x.is \notin {"word", "option"}
      BY <1>1, <2>3, <2>7 DEF ParseOne
    <2>4. CASE x.name \notin {"--", "help"} /\ (x.is = "word" \/ x.name \notin Options(goal))
      BY <1>1, <1>5, <2>3, <2>4, IdleParse
    <2>5. CASE x.name \notin {"--", "help"} /\ x.is = "option" /\ x.name \in Switches(goal)
      <3>1. x.value # None => x.value \in V
        OBVIOUS
      <3>2. x.name \in Options(goal)
        BY <2>5 DEF Options
      <3>3. x.value \in {None, "true", "false"} =>
                Give(parse, x.name, IF x.value = None THEN "true" ELSE x.value) \in ParserOf(V)
        BY <3>1, <3>2, GiveIs
      <3>4. ParseWord(parse, x) = IF x.value \in {None, "true", "false"}
                                  THEN Give(parse, x.name,
                                            IF x.value = None THEN "true" ELSE x.value)
                                  ELSE End(parse, "usage")
        BY <1>5, <2>5, IdleParse
      <3> QED
        BY <1>1, <3>3, <3>4
    <2>6. CASE x.name \notin {"--", "help"} /\ x.is = "option" /\ x.name \in Taking(goal)
      <3>1. x.name \in Options(goal)
        BY <2>6 DEF Options, Taking
      <3>2. x.value # None => Give(parse, x.name, x.value) \in ParserOf(V)
        BY <3>1, GiveIs
      <3>3. Await(parse, x.name) \in ParserOf(V)
        BY <2>6, AwaitIs
      <3>4. ParseWord(parse, x) = IF x.value = None THEN Await(parse, x.name)
                                  ELSE Give(parse, x.name, x.value)
        BY <1>5, <2>6, IdleParse
      <3> QED
        BY <3>2, <3>3, <3>4
    <2> QED
      BY <2>2, <2>3, <2>4, <2>5, <2>6 DEF Options, Taking
  <1> QED
    BY <1>2, <1>3, <1>4, <1>5

-----------------------------------------------------------------------------
(***************************************************************************)
(* The properties and the parser after a sequence of words, word by word   *)
(* and then writing by writing.                                            *)
(***************************************************************************)

Apart == [properties |-> <<>>, remaining |-> <<>>]

PropertiesIn(words) == ExtractOfAll(Apart, words).properties
ParserAfter(words) == ParseWordOfAll(Unparsed, ExtractOfAll(Apart, words).remaining)

\* What the fields of the words of X can be, for the parser to keep its type.
Speakable(X, V) ==
    /\ goal \in Goals
    /\ "true" \in V
    /\ \A x \in X : x.spelling \in V /\ (x.value \in V \/ x.value = None)
    /\ \A o \in Options(goal) : DefaultOf(goal, o) \in V

LEMMA ApartType ==
    ASSUME NEW X
    PROVE  Apart \in Parts(X)
  <1>1. <<>> \in Maps({x.name : x \in X}, {x.value : x \in X})
    <2> DEFINE N == {x.name : x \in X}
               V == {x.value : x \in X}
    <2>1. <<>> = [i \in {} |-> i]
      OBVIOUS
    <2>2. [i \in {} |-> i] \in [{} -> V] /\ {} \in SUBSET N
      OBVIOUS
    <2>3. \E M \in SUBSET N : <<>> \in [M -> V]
      BY <2>1, <2>2
    <2> HIDE DEF N, V
    <2>4. <<>> \in Maps(N, V)
      BY <2>3 DEF Maps
    <2> QED
      BY <2>4 DEF N, V
  <1> QED
    BY <1>1 DEF Parts, Apart

LEMMA UnparsedType ==
    ASSUME NEW V, goal \in Goals, \A o \in Options(goal) : DefaultOf(goal, o) \in V
    PROVE  /\ Unparsed \in ParserOf(V) /\ Unparsed.ended = None /\ Unparsed.awaits = None
           /\ \A o \in Options(goal) : Unparsed.options[o] = DefaultOf(goal, o)
           /\ \A o \in Repeatable(goal) : DefaultOf(goal, o) = <<>>
  <1> DEFINE options == [o \in Options(goal) |-> DefaultOf(goal, o)]
  <1>1. ASSUME NEW o \in Repeatable(goal) PROVE DefaultOf(goal, o) = <<>>
    BY DEF DefaultOf
  <1>2. options \in {f \in [Options(goal) -> V \cup Seq(V)] :
                        \A o \in Repeatable(goal) : f[o] \in Seq(V)}
    <2>1. \A o \in Repeatable(goal) : o \in Options(goal)
      BY DEF Options, Taking
    <2>2. options \in [Options(goal) -> V \cup Seq(V)]
      OBVIOUS
    <2>3. ASSUME NEW o \in Repeatable(goal) PROVE options[o] \in Seq(V)
      <3>1. options[o] = DefaultOf(goal, o)
        BY <2>1
      <3>2. <<>> \in Seq(V)
        OBVIOUS
      <3> HIDE DEF options
      <3> QED
        BY <1>1, <3>1, <3>2
    <2> HIDE DEF options
    <2> QED
      BY <2>2, <2>3
  <1>3. Unparsed = [options |-> options, awaits |-> None, ended |-> None]
    BY DEF Unparsed
  <1>4. \A o \in Options(goal) : options[o] = DefaultOf(goal, o)
    OBVIOUS
  <1> HIDE DEF options
  <1> QED
    BY <1>1, <1>2, <1>3, <1>4 DEF ParserOf

\* One more word.
LEMMA WordRead ==
    ASSUME NEW X, NEW V, Speakable(X, V), NEW words \in Seq(X), NEW x \in X
    PROVE  LET longer == Append(words, x) IN
           /\ ParserAfter(words) \in ParserOf(V)
           /\ PropertiesIn(words) \in Maps({y.name : y \in X}, {y.value : y \in X})
           /\ x.is = "property" =>
                /\ PropertiesIn(longer) = Put(PropertiesIn(words), x.name, x.value)
                /\ ParserAfter(longer) = ParserAfter(words)
           /\ x.is # "property" =>
                /\ PropertiesIn(longer) = PropertiesIn(words)
                /\ ParserAfter(longer) = ParseWord(ParserAfter(words), x)
  <1> DEFINE parts == ExtractOfAll(Apart, words)
             more == ExtractOfAll(Apart, Append(words, x))
  <1>1. parts \in Parts(X) /\ more = Extract(parts, x)
    BY ApartType, ExtractType, ExtractMore
  <1>2. parts.remaining \in Seq(X) /\ parts.properties \in Maps({y.name : y \in X}, {y.value : y \in X})
    BY <1>1 DEF Parts
  <1>3. Unparsed \in ParserOf(V) /\ ParseWordKeeps(ParserOf(V), X)
    BY UnparsedType, ParseWordType DEF Speakable
  <1>4. /\ PropertiesIn(words) = parts.properties
        /\ PropertiesIn(Append(words, x)) = more.properties
        /\ ParserAfter(words) = ParseWordOfAll(Unparsed, parts.remaining)
        /\ ParserAfter(Append(words, x)) = ParseWordOfAll(Unparsed, more.remaining)
    BY DEF PropertiesIn, ParserAfter
  <1> HIDE DEF parts, more
  <1>5. /\ ParseWordOfAll(Unparsed, parts.remaining) \in ParserOf(V)
        /\ ParseWordOfAll(Unparsed, Append(parts.remaining, x))
             = ParseWord(ParseWordOfAll(Unparsed, parts.remaining), x)
    BY <1>2, <1>3, ParseWordMore
  <1>6. /\ x.is = "property" => /\ more.properties = Put(parts.properties, x.name, x.value)
                                /\ more.remaining = parts.remaining
        /\ x.is # "property" => /\ more.properties = parts.properties
                                /\ more.remaining = Append(parts.remaining, x)
    BY <1>1, ExtractIs
  <1> QED
    BY <1>2, <1>4, <1>5, <1>6

\* One more writing; a value on its own that is no property.
LEMMA WritingRead ==
    ASSUME NEW W, NEW V, Speakable(Spoken(W), V), NEW words \in Seq(Spoken(W)),
           NEW w \in W, w.style \in Styles,
           w.style = "separate" => Beginning(w.value) \notin PropertyLike
    PROVE  LET longer == AddWords(words, w)
               parser == ParserAfter(words)
               opened == ParseWord(parser, OptionWord(w.option, None)) IN
           /\ parser \in ParserOf(V)
           /\ w.style = "property" =>
                /\ PropertiesIn(longer) = Put(PropertiesIn(words), w.option, w.value)
                /\ ParserAfter(longer) = parser
           /\ w.style # "property" => PropertiesIn(longer) = PropertiesIn(words)
           /\ w.style = "alone" => ParserAfter(longer) = opened
           /\ w.style = "joined" =>
                ParserAfter(longer) = ParseWord(parser, OptionWord(w.option, w.value))
           /\ w.style = "separate" =>
                ParserAfter(longer) = ParseWord(opened, ValueWord(w.value))
  <1> DEFINE X == Spoken(W)
             option == OptionWord(w.option, None)
             joined == OptionWord(w.option, w.value)
             property == PropertyWord(w.option, w.value)
             value == ValueWord(w.value)
  <1>1. option \in X /\ joined \in X /\ property \in X /\ value \in X
    BY WordsOfAre
  <1>2. option.is = "option" /\ joined.is = "option"
    BY DEF OptionWord
  <1>3. property.is = "property" /\ property.name = w.option /\ property.value = w.value
    BY DEF PropertyWord
  <1>4. w.style = "separate" => value.is # "property"
    BY DEF ValueWord
  <1>5. /\ w.style = "property" => AddWords(words, w) = words \o <<property>>
        /\ w.style = "alone" => AddWords(words, w) = words \o <<option>>
        /\ w.style = "joined" => AddWords(words, w) = words \o <<joined>>
        /\ w.style = "separate" => AddWords(words, w) = words \o <<option, value>>
    BY WordsOfAre DEF AddWords
  <1> HIDE DEF X, option, joined, property, value
  <1>6. words \in Seq(X) /\ Speakable(X, V)
    BY DEF X
  <1>7. /\ words \o <<property>> = Append(words, property)
        /\ words \o <<option>> = Append(words, option)
        /\ words \o <<joined>> = Append(words, joined)
        /\ words \o <<option, value>> = Append(Append(words, option), value)
        /\ Append(words, option) \in Seq(X)
    BY <1>1, <1>6
  <1>8. ParserAfter(words) \in ParserOf(V)
    BY <1>1, <1>6, WordRead
  <1>9. w.style = "property" =>
            /\ PropertiesIn(AddWords(words, w)) = Put(PropertiesIn(words), w.option, w.value)
            /\ ParserAfter(AddWords(words, w)) = ParserAfter(words)
    <2>1. /\ PropertiesIn(Append(words, property)) = Put(PropertiesIn(words), w.option, w.value)
          /\ ParserAfter(Append(words, property)) = ParserAfter(words)
      BY <1>1, <1>3, <1>6, WordRead
    <2> QED
      BY <1>5, <1>7, <2>1
  <1>10. w.style = "alone" =>
            /\ PropertiesIn(AddWords(words, w)) = PropertiesIn(words)
            /\ ParserAfter(AddWords(words, w)) = ParseWord(ParserAfter(words), option)
    <2>1. /\ PropertiesIn(Append(words, option)) = PropertiesIn(words)
          /\ ParserAfter(Append(words, option)) = ParseWord(ParserAfter(words), option)
      BY <1>1, <1>2, <1>6, WordRead
    <2> QED
      BY <1>5, <1>7, <2>1
  <1>11. w.style = "joined" =>
            /\ PropertiesIn(AddWords(words, w)) = PropertiesIn(words)
            /\ ParserAfter(AddWords(words, w)) = ParseWord(ParserAfter(words), joined)
    <2>1. /\ PropertiesIn(Append(words, joined)) = PropertiesIn(words)
          /\ ParserAfter(Append(words, joined)) = ParseWord(ParserAfter(words), joined)
      BY <1>1, <1>2, <1>6, WordRead
    <2> QED
      BY <1>5, <1>7, <2>1
  <1>12. w.style = "separate" =>
            /\ PropertiesIn(AddWords(words, w)) = PropertiesIn(words)
            /\ ParserAfter(AddWords(words, w)) = ParseWord(ParseWord(ParserAfter(words), option), value)
    <2>1. /\ PropertiesIn(Append(words, option)) = PropertiesIn(words)
          /\ ParserAfter(Append(words, option)) = ParseWord(ParserAfter(words), option)
      BY <1>1, <1>2, <1>6, WordRead
    <2>2. w.style = "separate" =>
            /\ PropertiesIn(Append(Append(words, option), value)) = PropertiesIn(Append(words, option))
            /\ ParserAfter(Append(Append(words, option), value))
                 = ParseWord(ParserAfter(Append(words, option)), value)
      BY <1>1, <1>4, <1>6, <1>7, WordRead
    <2> QED
      BY <1>5, <1>7, <2>1, <2>2
  <1> QED
    BY <1>8, <1>9, <1>10, <1>11, <1>12 DEF Styles, option, joined, value

-----------------------------------------------------------------------------
(***************************************************************************)
(* A clear writing, against a parser that waits for nothing: one that is   *)
(* accepted gives its option its value, one that is not ends the parsing.  *)
(***************************************************************************)

Writable(w) == w.style \in Styles /\ w.option # "--" /\ (w.style = "joined" => w.value # None)

Idle(parse) == parse.ended = None /\ parse.awaits = None

ValueOf(w) == IF w.style = "alone" THEN "true" ELSE w.value

\* What follows from its words alone.
LEMMA ClearWords ==
    ASSUME NEW W, NEW V, Speakable(Spoken(W), V), NEW w \in W, Writable(w), Clear(w)
    PROVE  /\ OptionWord(w.option, None).is = "option" /\ OptionWord(w.option, None).name = w.option
           /\ OptionWord(w.option, None).value = None
           /\ OptionWord(w.option, w.value).is = "option" /\ OptionWord(w.option, w.value).name = w.option
           /\ OptionWord(w.option, w.value).value = w.value
           /\ ValueWord(w.value).spelling = w.value /\ w.value \in V
           /\ w.option # "--" /\ w.option # "help" /\ "true" \in V
           /\ w.style = "separate" =>
                \/ ValueWord(w.value).is = "word"
                \/ /\ ValueWord(w.value).is = "option"
                   /\ ValueWord(w.value).name \notin Options(goal) \cup {"--", "help"}
           /\ goal \in Goals
  <1>1. /\ OptionWord(w.option, None).is = "option" /\ OptionWord(w.option, None).name = w.option
        /\ OptionWord(w.option, None).value = None
    BY DEF OptionWord
  <1>2. /\ OptionWord(w.option, w.value).is = "option" /\ OptionWord(w.option, w.value).name = w.option
        /\ OptionWord(w.option, w.value).value = w.value
    BY DEF OptionWord
  <1>3. /\ ValueWord(w.value).spelling = w.value /\ ValueWord(w.value).name = Beginning(w.value)
        /\ ValueWord(w.value).is = IF Beginning(w.value) \in PropertyLike THEN "property"
                                   ELSE IF Beginning(w.value) \in OptionLike THEN "option" ELSE "word"
    BY DEF ValueWord
  <1>4. w.value \in V
    <2>1. ValueWord(w.value) \in Spoken(W)
      BY DEF Spoken
    <2> QED
      BY <1>3, <2>1 DEF Speakable
  <1>5. w.option # "help" /\ (w.style = "separate" => Beginning(w.value) \notin PropertyLike \cup {"--"})
    BY DEF Clear
  <1>6. goal \in Goals /\ "true" \in V
    BY DEF Speakable
  <1>7. \A b \in OptionLike : b \notin Options(goal) /\ b # "help"
    BY <1>6, NameAssumption, LikeAssumption
  <1> QED
    BY <1>1, <1>2, <1>3, <1>4, <1>5, <1>6, <1>7 DEF Writable

LEMMA AcceptedRead ==
    ASSUME NEW W, NEW V, Speakable(Spoken(W), V), NEW words \in Seq(Spoken(W)),
           NEW w \in W, Writable(w), Clear(w), Accepted(w), w.style # "property",
           Idle(ParserAfter(words))
    PROVE  /\ w.option \in Options(goal) /\ ValueOf(w) \in V
           /\ ParserAfter(AddWords(words, w)) = Give(ParserAfter(words), w.option, ValueOf(w))
           /\ Idle(ParserAfter(AddWords(words, w)))
  <1> DEFINE parser == ParserAfter(words)
             option == OptionWord(w.option, None)
             joined == OptionWord(w.option, w.value)
             value == ValueWord(w.value)
             after == ParserAfter(AddWords(words, w))
  <1>1. w.style \in Styles /\ (w.style = "separate" => Beginning(w.value) \notin PropertyLike)
    BY DEF Clear, Writable
  <1>2. /\ parser \in ParserOf(V)
        /\ w.style = "alone" => after = ParseWord(parser, option)
        /\ w.style = "joined" => after = ParseWord(parser, joined)
        /\ w.style = "separate" => after = ParseWord(ParseWord(parser, option), value)
    BY <1>1, WritingRead
  <1>3. /\ option.is = "option" /\ option.name = w.option /\ option.value = None
        /\ joined.is = "option" /\ joined.name = w.option /\ joined.value = w.value
        /\ value.spelling = w.value /\ w.value \in V
        /\ w.option # "--" /\ w.option # "help" /\ "true" \in V /\ goal \in Goals
    BY ClearWords
  <1>4. parser.ended = None /\ parser.awaits = None
    BY DEF Idle
  <1> HIDE DEF parser, option, joined, value, after
  <1>5. /\ w.option \in Options(goal) /\ ValueOf(w) \in V
        /\ w.option = "environmentVariables" => ValueOf(w) \in Pairs
    <2>1. w.option \in Switches(goal) => w.option # "environmentVariables"
      <3>1. "environmentVariables" \in Taking(goal)
        BY DEF Taking, Repeatable
      <3> QED
        BY <1>3, <3>1, NameAssumption
    <2>2. w.option \in Options(goal)
      BY DEF Accepted, Options
    <2>3. ValueOf(w) \in V
      BY <1>3 DEF ValueOf
    <2>4. w.option = "environmentVariables" => w.style # "alone" /\ w.value \in Pairs
      BY <2>1 DEF Accepted
    <2> QED
      BY <2>2, <2>3, <2>4 DEF ValueOf
  <1>6. after = Give(parser, w.option, ValueOf(w))
    <2>1. CASE w.style = "alone"
      <3>1. w.option \in Switches(goal)
        BY <2>1 DEF Accepted
      <3>2. ParseWord(parser, option) = Give(parser, w.option, "true")
        BY <1>2, <1>3, <1>4, <3>1, IdleParse
      <3> QED
        BY <1>2, <2>1, <3>2 DEF ValueOf
    <2>2. CASE w.style = "joined"
      <3>1. w.value # None /\ ValueOf(w) = w.value
        BY <2>2 DEF Writable, ValueOf
      <3>2. CASE w.option \in Switches(goal)
        <4>1. w.option \notin Taking(goal)
          BY <1>3, <3>2, NameAssumption
        <4>2. w.value \in {"true", "false"}
          BY <2>2, <4>1 DEF Accepted
        <4>3. ParseWord(parser, joined) = Give(parser, w.option, w.value)
          BY <1>2, <1>3, <1>4, <3>1, <3>2, <4>2, IdleParse
        <4> QED
          BY <1>2, <2>2, <3>1, <4>3
      <3>3. CASE w.option \in Taking(goal)
        <4>1. ParseWord(parser, joined) = Give(parser, w.option, w.value)
          BY <1>2, <1>3, <1>4, <3>1, <3>3, IdleParse
        <4> QED
          BY <1>2, <2>2, <3>1, <4>1
      <3> QED
        BY <3>2, <3>3 DEF Accepted
    <2>3. CASE w.style = "separate"
      <3>1. w.option \in Taking(goal) /\ ValueOf(w) = w.value
        BY <2>3 DEF Accepted, ValueOf
      <3> DEFINE waiting == Await(parser, w.option)
      <3>2. ParseWord(parser, option) = waiting
        BY <1>2, <1>3, <1>4, <3>1, IdleParse
      <3>3. waiting.ended = None /\ waiting.awaits = w.option /\ w.option # None
        BY <1>2, <1>3, <1>4, <1>5, <3>1, AwaitIs, NameAssumption
      <3>4. ParseWord(waiting, value) = Give(waiting, w.option, w.value)
        <4> HIDE DEF waiting
        <4> QED
          BY <1>3, <3>3, AwaitingParse
      <3>5. Give(waiting, w.option, w.value) = Give(parser, w.option, w.value)
        <4>1. waiting \in ParserOf(V) /\ waiting.options = parser.options
          BY <1>2, <3>1, AwaitIs
        <4> HIDE DEF waiting
        <4> QED
          BY <1>2, <4>1 DEF Give, ParserOf
      <3> QED
        BY <1>2, <2>3, <3>1, <3>2, <3>4, <3>5
    <2> QED
      BY <1>1, <2>1, <2>2, <2>3 DEF Styles
  <1>7. Idle(after)
    BY <1>2, <1>5, <1>6, GiveIs DEF Idle
  <1> QED
    BY <1>5, <1>6, <1>7 DEF parser, after

LEMMA RefusedRead ==
    ASSUME NEW W, NEW V, Speakable(Spoken(W), V), NEW words \in Seq(Spoken(W)),
           NEW w \in W, Writable(w), Clear(w), ~Accepted(w),
           Idle(ParserAfter(words))
    PROVE  ParserAfter(AddWords(words, w)).ended = "usage"
  <1> DEFINE parser == ParserAfter(words)
             option == OptionWord(w.option, None)
             joined == OptionWord(w.option, w.value)
             value == ValueWord(w.value)
             after == ParserAfter(AddWords(words, w))
  <1>1. w.style \in Styles /\ (w.style = "separate" => Beginning(w.value) \notin PropertyLike)
    BY DEF Clear, Writable
  <1>2. /\ parser \in ParserOf(V)
        /\ w.style = "alone" => after = ParseWord(parser, option)
        /\ w.style = "joined" => after = ParseWord(parser, joined)
        /\ w.style = "separate" => after = ParseWord(ParseWord(parser, option), value)
    BY <1>1, WritingRead
  <1>3. /\ option.is = "option" /\ option.name = w.option /\ option.value = None
        /\ joined.is = "option" /\ joined.name = w.option /\ joined.value = w.value
        /\ value.spelling = w.value /\ w.value \in V
        /\ w.option # "--" /\ w.option # "help" /\ "true" \in V /\ goal \in Goals
        /\ w.style = "separate" =>
             \/ value.is = "word"
             \/ value.is = "option" /\ value.name \notin Options(goal) \cup {"--", "help"}
    BY ClearWords
  <1>4. parser.ended = None /\ parser.awaits = None
    BY DEF Idle
  <1> HIDE DEF parser, option, joined, value, after
  <1>5. End(parser, "usage").ended = "usage" /\ End(parser, "usage") \in ParserOf(V)
    BY <1>2, EndIs
  <1>6. CASE w.option \notin Options(goal)
    <2>1. ParseWord(parser, option) = End(parser, "usage")
      BY <1>2, <1>3, <1>4, <1>6, IdleParse
    <2>2. ParseWord(parser, joined) = End(parser, "usage")
      BY <1>2, <1>3, <1>4, <1>6, IdleParse
    <2>3. ParseWord(End(parser, "usage"), value) = End(parser, "usage")
      BY <1>5, EndedParse
    <2>4. w.style # "property"
      BY DEF Accepted
    <2> QED
      BY <1>1, <1>2, <1>5, <2>1, <2>2, <2>3, <2>4 DEF Styles, after
  <1>7. CASE w.option \in Switches(goal)
    <2>1. w.style \notin {"property", "alone"} /\ (w.style = "joined" => w.value \notin {"true", "false"})
      BY <1>7 DEF Accepted
    <2>2. CASE w.style = "joined"
      <3>1. w.value \notin {None, "true", "false"}
        BY <2>1, <2>2 DEF Writable
      <3>2. ParseWord(parser, joined) = End(parser, "usage")
        BY <1>2, <1>3, <1>4, <1>7, <3>1, IdleParse
      <3> QED
        BY <1>2, <1>5, <2>2, <3>2 DEF after
    <2>3. CASE w.style = "separate"
      <3> DEFINE given == Give(parser, w.option, "true")
      <3>1. ParseWord(parser, option) = given
        BY <1>2, <1>3, <1>4, <1>7, IdleParse
      <3>2. given \in ParserOf(V) /\ given.ended = None /\ given.awaits = None
        <4>1. "environmentVariables" \in Taking(goal)
          BY DEF Taking, Repeatable
        <4>2. w.option # "environmentVariables"
          BY <1>3, <1>7, <4>1, NameAssumption
        <4>3. w.option \in Options(goal)
          BY <1>7 DEF Options
        <4> QED
          BY <1>2, <1>3, <4>2, <4>3, GiveIs
      <3> HIDE DEF given
      <3>3. \/ value.is = "word" 
            \/ value.is = "option" /\ value.name \notin Options(goal) \cup {"--", "help"}
        BY <1>3, <2>3
      <3>4. ParseWord(given, value) = End(given, "usage")
        <4>1. CASE value.is = "word"
          <5>1. ParseWord(given, value) = ParseOne(given, value)
            BY <3>2, NoValueAssumption DEF ParseWord
          <5> QED
            BY <4>1, <5>1 DEF ParseOne
        <4>2. CASE value.is = "option" /\ value.name \notin Options(goal) \cup {"--", "help"}
          BY <1>3, <3>2, <4>2, IdleParse
        <4> QED
          BY <3>3, <4>1, <4>2
      <3>5. End(given, "usage").ended = "usage"
        BY <3>2, EndIs
      <3> QED
        BY <1>2, <2>3, <3>1, <3>4, <3>5 DEF after
    <2> QED
      BY <1>1, <2>1, <2>2, <2>3 DEF Styles
  <1>8. CASE w.option \in Taking(goal)
    <2>1. /\ w.style \in {"joined", "separate"}
          /\ w.option = "environmentVariables" /\ w.value \notin Pairs
      BY <1>1, <1>8 DEF Accepted, Clear, Styles
    <2>2. w.option \in Options(goal) /\ w.option # None
      BY <1>3, <1>8, NameAssumption DEF Options
    <2>3. CASE w.style = "joined"
      <3>1. w.value # None
        BY <2>3 DEF Writable
      <3>2. ParseWord(parser, joined) = Give(parser, w.option, w.value)
        BY <1>2, <1>3, <1>4, <1>8, <3>1, IdleParse
      <3>3. Give(parser, w.option, w.value).ended = "usage"
        BY <1>2, <1>3, <2>1, <2>2, GiveIs
      <3> QED
        BY <1>2, <2>3, <3>2, <3>3 DEF after
    <2>4. CASE w.style = "separate"
      <3> DEFINE waiting == Await(parser, w.option)
      <3>1. ParseWord(parser, option) = waiting
        BY <1>2, <1>3, <1>4, <1>8, IdleParse
      <3>2. waiting \in ParserOf(V) /\ waiting.ended = None /\ waiting.awaits = w.option
        BY <1>2, <1>4, <1>8, AwaitIs
      <3> HIDE DEF waiting
      <3>3. ParseWord(waiting, value) = Give(waiting, w.option, w.value)
        BY <1>3, <2>2, <3>2, AwaitingParse
      <3>4. Give(waiting, w.option, w.value).ended = "usage"
        BY <1>3, <2>1, <2>2, <3>2, GiveIs
      <3> QED
        BY <1>2, <2>4, <3>1, <3>3, <3>4 DEF after
    <2> QED
      BY <2>1, <2>3, <2>4
  <1> QED
    BY <1>6, <1>7, <1>8 DEF Options

LEMMA UsageStays ==
    ASSUME NEW W, NEW V, Speakable(Spoken(W), V), NEW words \in Seq(Spoken(W)),
           NEW w \in W, Writable(w), Clear(w),
           ParserAfter(words).ended = "usage"
    PROVE  ParserAfter(AddWords(words, w)).ended = "usage"
  <1> DEFINE parser == ParserAfter(words)
             after == ParserAfter(AddWords(words, w))
  <1>1. w.style \in Styles /\ (w.style = "separate" => Beginning(w.value) \notin PropertyLike)
    BY DEF Clear, Writable
  <1>2. \A x : ParseWord(parser, x) = parser
    BY EndedParse
  <1>3. after = parser
    BY <1>1, <1>2, WritingRead DEF Styles
  <1> QED
    BY <1>3

-----------------------------------------------------------------------------
(***************************************************************************)
(* A whole line, writing by writing: what it says after the first k.       *)
(***************************************************************************)

WrittenTo(k, option) == {i \in 1 .. k : line[i].option = option /\ line[i].style # "property"}
OverridingTo(k, option) == {i \in 1 .. k : line[i].option = option /\ line[i].style = "property"}
AcceptedTo(k) == \A i \in 1 .. k : Accepted(line[i])

SaidIn(S, option) == IF S = {} THEN DefaultOf(goal, option) ELSE ValueOf(line[Max(S)])

CollectedIn(S, values) ==
    \E at \in [DOMAIN values -> S] :
        /\ \A m, n \in DOMAIN values : m < n => at[m] < at[n]
        /\ \A i \in S : \E n \in DOMAIN values : at[n] = i
        /\ \A n \in DOMAIN values : values[n] = line[at[n]].value

ReadsIn(S, option, value) ==
    IF option \in Repeatable(goal) THEN CollectedIn(S, value) ELSE value = SaidIn(S, option)

OverriddenIn(S, name, properties) ==
    /\ name \in DOMAIN properties <=> S # {}
    /\ S # {} => properties[name] = line[Max(S)].value

LEMMA NextWriting ==
    ASSUME NEW k \in Nat, k >= 1, NEW option
    PROVE  /\ WrittenTo(k - 1, option) \in SUBSET (1 .. k - 1)
           /\ OverridingTo(k - 1, option) \in SUBSET (1 .. k - 1)
           /\ WrittenTo(k, option) =
                IF line[k].option = option /\ line[k].style # "property"
                THEN WrittenTo(k - 1, option) \cup {k} ELSE WrittenTo(k - 1, option)
           /\ OverridingTo(k, option) =
                IF line[k].option = option /\ line[k].style = "property"
                THEN OverridingTo(k - 1, option) \cup {k} ELSE OverridingTo(k - 1, option)
           /\ AcceptedTo(k) <=> AcceptedTo(k - 1) /\ Accepted(line[k])
           /\ \A S \in SUBSET (1 .. k - 1) : Max(S \cup {k}) = k
  <1>1. 1 .. k = (1 .. k - 1) \cup {k}
    OBVIOUS
  <1>2. ASSUME NEW S \in SUBSET (1 .. k - 1) PROVE Max(S \cup {k}) = k
    <2>1. S \cup {k} \in SUBSET (1 .. k) /\ k \in S \cup {k} /\ \A t \in S \cup {k} : t <= k
      OBVIOUS
    <2> QED
      BY <2>1, GreatestIs
  <1>3. AcceptedTo(k) <=> AcceptedTo(k - 1) /\ Accepted(line[k])
    BY <1>1 DEF AcceptedTo
  <1>4. WrittenTo(k, option) =
            IF line[k].option = option /\ line[k].style # "property"
            THEN WrittenTo(k - 1, option) \cup {k} ELSE WrittenTo(k - 1, option)
    BY <1>1 DEF WrittenTo
  <1>5. OverridingTo(k, option) =
            IF line[k].option = option /\ line[k].style = "property"
            THEN OverridingTo(k - 1, option) \cup {k} ELSE OverridingTo(k - 1, option)
    BY <1>1 DEF OverridingTo
  <1> QED
    BY <1>2, <1>3, <1>4, <1>5 DEF WrittenTo, OverridingTo

LEMMA CollectedMore ==
    ASSUME NEW k \in Nat, k >= 1, NEW S \in SUBSET (1 .. k - 1), NEW V, NEW values \in Seq(V),
           CollectedIn(S, values)
    PROVE  CollectedIn(S \cup {k}, Append(values, line[k].value))
  <1> DEFINE n == Len(values)
             more == Append(values, line[k].value)
  <1>1. /\ n \in Nat /\ DOMAIN values = 1 .. n /\ DOMAIN more = 1 .. n + 1
        /\ \A m \in 1 .. n : more[m] = values[m]
        /\ more[n + 1] = line[k].value
    OBVIOUS
  <1>2. PICK at \in [DOMAIN values -> S] :
            /\ \A m, o \in DOMAIN values : m < o => at[m] < at[o]
            /\ \A i \in S : \E m \in DOMAIN values : at[m] = i
            /\ \A m \in DOMAIN values : values[m] = line[at[m]].value
    BY DEF CollectedIn
  <1> DEFINE at2 == [m \in 1 .. n + 1 |-> IF m = n + 1 THEN k ELSE at[m]]
  <1>3. /\ at2 \in [1 .. n + 1 -> S \cup {k}] /\ at2[n + 1] = k
        /\ \A m \in 1 .. n : at2[m] = at[m] /\ at[m] \in S
    BY <1>1, <1>2
  <1> HIDE DEF n, more, at2
  <1>4. ASSUME NEW m \in 1 .. n + 1, NEW o \in 1 .. n + 1, m < o PROVE at2[m] < at2[o]
    <2>1. m \in 1 .. n /\ (o = n + 1 \/ o \in 1 .. n)
      BY <1>1, <1>4
    <2>2. at2[m] = at[m] /\ at[m] \in 1 .. k - 1
      BY <1>3, <2>1
    <2>3. CASE o = n + 1
      <3>1. at2[o] = k
        BY <1>3, <2>3
      <3> QED
        BY <2>2, <3>1
    <2>4. CASE o \in 1 .. n
      BY <1>1, <1>2, <1>3, <1>4, <2>1, <2>4
    <2> QED
      BY <2>1, <2>3, <2>4
  <1>5. ASSUME NEW i \in S \cup {k} PROVE \E m \in 1 .. n + 1 : at2[m] = i
    <2>1. CASE i = k
      BY <1>1, <1>3, <2>1
    <2>2. CASE i \in S
      <3>1. PICK m \in 1 .. n : at[m] = i
        BY <1>1, <1>2, <2>2
      <3>2. m \in 1 .. n + 1 /\ at2[m] = i
        BY <1>1, <1>3, <3>1
      <3> QED
        BY <3>2
    <2> QED
      BY <2>1, <2>2
  <1>6. ASSUME NEW m \in 1 .. n + 1 PROVE more[m] = line[at2[m]].value
    <2>1. CASE m = n + 1
      BY <1>1, <1>3, <2>1
    <2>2. CASE m \in 1 .. n
      BY <1>1, <1>2, <1>3, <2>2
    <2> QED
      BY <1>1, <2>1, <2>2
  <1>7. CollectedIn(S \cup {k}, more)
    <2>1. at2 \in [DOMAIN more -> S \cup {k}]
      BY <1>1, <1>3
    <2>2. \A m, o \in DOMAIN more : m < o => at2[m] < at2[o]
      BY <1>1, <1>4
    <2>3. \A i \in S \cup {k} : \E m \in DOMAIN more : at2[m] = i
      BY <1>1, <1>5
    <2>4. \A m \in DOMAIN more : more[m] = line[at2[m]].value
      BY <1>1, <1>6
    <2> QED
      BY <2>1, <2>2, <2>3, <2>4 DEF CollectedIn
  <1> QED
    BY <1>7 DEF more

LEMMA PutOverrides ==
    ASSUME NEW N, NEW V, NEW properties \in Maps(N, V), NEW option \in N, NEW value \in V,
           NEW k \in Nat, k >= 1, NEW name,
           OverriddenIn(OverridingTo(k - 1, name), name, properties),
           line[k].option = option, line[k].value = value, line[k].style = "property"
    PROVE  OverriddenIn(OverridingTo(k, name), name, Put(properties, option, value))
  <1> DEFINE more == Put(properties, option, value)
             S == OverridingTo(k - 1, name)
  <1>1. /\ DOMAIN more = DOMAIN properties \cup {option}
        /\ more[option] = value
        /\ \A n \in DOMAIN properties : n # option => more[n] = properties[n]
    BY DEF Put
  <1>2. /\ S \in SUBSET (1 .. k - 1)
        /\ OverridingTo(k, name) = IF option = name THEN S \cup {k} ELSE S
        /\ \A T \in SUBSET (1 .. k - 1) : Max(T \cup {k}) = k
    BY NextWriting
  <1> HIDE DEF more, S
  <1>3. CASE option = name
    <2>1. OverridingTo(k, name) = S \cup {k} /\ Max(S \cup {k}) = k
      BY <1>2, <1>3
    <2> QED
      BY <1>1, <1>3, <2>1 DEF OverriddenIn, more
  <1>4. CASE option # name
    <2>1. OverriddenIn(S, name, more)
      BY <1>1, <1>4 DEF OverriddenIn, S
    <2> QED
      BY <1>2, <1>4, <2>1 DEF more
  <1> QED
    BY <1>3, <1>4

\* One more writing of a clear line.
LEMMA LineStep ==
    ASSUME NEW W, NEW V, Speakable(Spoken(W), V), NEW words \in Seq(Spoken(W)),
           NEW k \in Nat, k >= 1, line[k] \in W, Writable(line[k]), Clear(line[k]), NEW name,
           OverriddenIn(OverridingTo(k - 1, name), name, PropertiesIn(words)),
           AcceptedTo(k - 1) =>
               /\ Idle(ParserAfter(words))
               /\ \A o \in Options(goal) :
                     ReadsIn(WrittenTo(k - 1, o), o, ParserAfter(words).options[o]),
           ~AcceptedTo(k - 1) => ParserAfter(words).ended = "usage"
    PROVE  LET longer == AddWords(words, line[k]) IN
           /\ OverriddenIn(OverridingTo(k, name), name, PropertiesIn(longer))
           /\ AcceptedTo(k) =>
                /\ Idle(ParserAfter(longer))
                /\ \A o \in Options(goal) : ReadsIn(WrittenTo(k, o), o, ParserAfter(longer).options[o])
           /\ ~AcceptedTo(k) => ParserAfter(longer).ended = "usage"
  <1> DEFINE w == line[k]
             longer == AddWords(words, w)
  <1>1. w \in W /\ Writable(w) /\ Clear(w)
    OBVIOUS
  <1>2. w.style \in Styles /\ (w.style = "separate" => Beginning(w.value) \notin PropertyLike)
    BY <1>1 DEF Clear, Writable
  <1>3. /\ ParserAfter(words) \in ParserOf(V)
        /\ w.style = "property" =>
             /\ PropertiesIn(longer) = Put(PropertiesIn(words), w.option, w.value)
             /\ ParserAfter(longer) = ParserAfter(words)
        /\ w.style # "property" => PropertiesIn(longer) = PropertiesIn(words)
    BY <1>1, <1>2, WritingRead
  <1> DEFINE Names == {y.name : y \in Spoken(W)}
             Values == {y.value : y \in Spoken(W)}
  <1>4. PropertiesIn(words) \in Maps(Names, Values)
    BY <1>1, WordsOfAre, <1>2, WordRead
  <1>5. OverriddenIn(OverridingTo(k, name), name, PropertiesIn(longer))
    <2>1. CASE w.style = "property"
      <3> DEFINE property == PropertyWord(w.option, w.value)
      <3>1. property \in Spoken(W) /\ property.name = w.option /\ property.value = w.value
        BY <1>1, <1>2, WordsOfAre DEF PropertyWord
      <3>2. w.option \in Names /\ w.value \in Values
        <4> HIDE DEF property, w
        <4> QED
          BY <3>1
      <3> DEFINE before == PropertiesIn(words)
      <3>3. /\ before \in Maps(Names, Values) /\ PropertiesIn(longer) = Put(before, w.option, w.value)
            /\ OverriddenIn(OverridingTo(k - 1, name), name, before)
        BY <1>3, <1>4, <2>1
      <3> HIDE DEF Names, Values, before, longer
      <3> QED
        BY <2>1, <3>2, <3>3, PutOverrides
    <2>2. CASE w.style # "property"
      <3>1. OverridingTo(k, name) = OverridingTo(k - 1, name)
        BY <2>2, NextWriting
      <3> QED
        BY <1>3, <2>2, <3>1
    <2> QED
      BY <2>1, <2>2
  <1>6. AcceptedTo(k) <=> AcceptedTo(k - 1) /\ Accepted(w)
    BY NextWriting
  <1>7. ASSUME ~AcceptedTo(k) PROVE ParserAfter(longer).ended = "usage"
    <2>1. CASE ~AcceptedTo(k - 1)
      BY <1>1, <2>1, UsageStays
    <2>2. CASE AcceptedTo(k - 1) /\ ~Accepted(w)
      BY <1>1, <2>2, RefusedRead
    <2> QED
      BY <1>6, <1>7, <2>1, <2>2
  <1>8. ASSUME AcceptedTo(k)
        PROVE  /\ Idle(ParserAfter(longer))
               /\ \A o \in Options(goal) : ReadsIn(WrittenTo(k, o), o, ParserAfter(longer).options[o])
    <2>1. /\ Accepted(w) /\ Idle(ParserAfter(words))
          /\ \A o \in Options(goal) :
                ReadsIn(WrittenTo(k - 1, o), o, ParserAfter(words).options[o])
      BY <1>6, <1>8
    <2>2. CASE w.style = "property"
      <3>1. \A o : WrittenTo(k, o) = WrittenTo(k - 1, o)
        BY <2>2, NextWriting
      <3> QED
        BY <1>3, <2>1, <2>2, <3>1
    <2>3. CASE w.style # "property"
      <3>1. /\ w.option \in Options(goal) /\ ValueOf(w) \in V
            /\ ParserAfter(longer) = Give(ParserAfter(words), w.option, ValueOf(w))
            /\ Idle(ParserAfter(longer))
        BY <1>1, <2>1, <2>3, AcceptedRead
      <3>2. /\ ParserAfter(longer).options[w.option] =
                 IF w.option \in Repeatable(goal)
                 THEN Append(ParserAfter(words).options[w.option], ValueOf(w)) ELSE ValueOf(w)
            /\ \A o \in Options(goal) : o # w.option =>
                  ParserAfter(longer).options[o] = ParserAfter(words).options[o]
        BY <1>3, <3>1, GiveIs
      <3>3. ASSUME NEW o \in Options(goal)
            PROVE  ReadsIn(WrittenTo(k, o), o, ParserAfter(longer).options[o])
        <4> DEFINE S == WrittenTo(k - 1, o)
        <4>1. CASE o # w.option
          <5>1. WrittenTo(k, o) = S
            BY <4>1, NextWriting
          <5> QED
            BY <2>1, <3>2, <4>1, <5>1
        <4>2. CASE o = w.option
          <5>1. WrittenTo(k, o) = S \cup {k} /\ S \in SUBSET (1 .. k - 1) /\ Max(S \cup {k}) = k
            BY <2>3, <4>2, NextWriting
          <5>2. CASE o \in Repeatable(goal)
            <6>1. ParserAfter(words).options[o] \in Seq(V)
              BY <1>3, <5>2 DEF ParserOf
            <6>2. CollectedIn(S, ParserAfter(words).options[o])
              BY <2>1, <5>2 DEF ReadsIn
            <6>3. ValueOf(w) = w.value
              <7>1. w.option \notin Switches(goal)
                <8>1. o \in Taking(goal) /\ goal \in Goals
                  BY <5>2 DEF Taking, Speakable
                <8> QED
                  BY <4>2, <8>1, NameAssumption
              <7>2. w.style # "alone"
                BY <2>1, <2>3, <7>1 DEF Accepted
              <7> QED
                BY <7>2 DEF ValueOf
            <6> HIDE DEF S
            <6>4. CollectedIn(S \cup {k}, Append(ParserAfter(words).options[o], line[k].value))
              BY <5>1, <6>1, <6>2, CollectedMore
            <6> QED
              BY <3>2, <4>2, <5>1, <5>2, <6>3, <6>4 DEF ReadsIn
          <5>3. CASE o \notin Repeatable(goal)
            <6> HIDE DEF S
            <6>1. SaidIn(S \cup {k}, o) = ValueOf(w)
              BY <5>1 DEF SaidIn
            <6> QED
              BY <3>2, <4>2, <5>1, <5>3, <6>1 DEF ReadsIn
          <5> QED
            BY <5>2, <5>3
        <4> QED
          BY <4>1, <4>2
      <3> QED
        BY <3>1, <3>3
    <2> QED
      BY <2>2, <2>3
  <1> QED
    BY <1>5, <1>7, <1>8

\* What is known after the first k writings, whose words are these.
LineRead(k, words, name) ==
    /\ OverriddenIn(OverridingTo(k, name), name, PropertiesIn(words))
    /\ AcceptedTo(k) =>
         /\ Idle(ParserAfter(words))
         /\ \A o \in Options(goal) : ReadsIn(WrittenTo(k, o), o, ParserAfter(words).options[o])
    /\ ~AcceptedTo(k) => ParserAfter(words).ended = "usage"

LEMMA ExtractNone ==
    ASSUME NEW X, NEW Acc, NEW base \in Acc, NEW none \in Seq(X),
           ExtractKeeps(Acc, X)
    PROVE  Len(none) = 0 => ExtractOfAll(base, none) = base
  <1>1. PICK F \in [0 .. Len(none) -> Acc] :
            /\ F[0] = base /\ F[Len(none)] = ExtractOfAll(base, none)
            /\ \A k \in 1 .. Len(none) : F[k] = Extract(F[k - 1], none[k])
    BY ExtractChain
  <1> QED
    BY <1>1

LEMMA ParseWordNone ==
    ASSUME NEW X, NEW Acc, NEW base \in Acc, NEW none \in Seq(X),
           ParseWordKeeps(Acc, X)
    PROVE  Len(none) = 0 => ParseWordOfAll(base, none) = base
  <1>1. PICK F \in [0 .. Len(none) -> Acc] :
            /\ F[0] = base /\ F[Len(none)] = ParseWordOfAll(base, none)
            /\ \A k \in 1 .. Len(none) : F[k] = ParseWord(F[k - 1], none[k])
    BY ParseWordChain
  <1> QED
    BY <1>1

LEMMA NoWords ==
    ASSUME NEW X, NEW V, Speakable(X, V)
    PROVE  PropertiesIn(<<>>) = <<>> /\ ParserAfter(<<>>) = Unparsed
  <1> DEFINE none == <<>>
             A == Parts(X)
             B == ParserOf(V)
  <1>1. none \in Seq(X) /\ Len(none) = 0
    OBVIOUS
  <1>2. Apart \in A /\ ExtractKeeps(A, X)
    BY ApartType, ExtractType
  <1>3. Unparsed \in B /\ ParseWordKeeps(B, X)
    BY UnparsedType, ParseWordType DEF Speakable
  <1>4. Apart.properties = <<>> /\ Apart.remaining = <<>>
    BY DEF Apart
  <1> HIDE DEF none, A, B
  <1>5. ExtractOfAll(Apart, none) = Apart /\ ParseWordOfAll(Unparsed, none) = Unparsed
    BY <1>1, <1>2, <1>3, ExtractNone, ParseWordNone
  <1> QED
    BY <1>4, <1>5 DEF PropertiesIn, ParserAfter, none

LEMMA NothingCollected ==
    CollectedIn({}, <<>>)
  <1> DEFINE none == [i \in {} |-> i]
  <1>1. none \in [DOMAIN <<>> -> {}] /\ DOMAIN <<>> = {}
    OBVIOUS
  <1> QED
    BY <1>1 DEF CollectedIn

LEMMA LineStart ==
    ASSUME NEW X, NEW V, Speakable(X, V), NEW name
    PROVE  LineRead(0, <<>>, name)
  <1>1. PropertiesIn(<<>>) = <<>> /\ ParserAfter(<<>>) = Unparsed
    BY NoWords
  <1>2. /\ Unparsed.ended = None /\ Unparsed.awaits = None
        /\ \A o \in Options(goal) : Unparsed.options[o] = DefaultOf(goal, o)
        /\ \A o \in Repeatable(goal) : DefaultOf(goal, o) = <<>>
    BY UnparsedType DEF Speakable
  <1>3. AcceptedTo(0) /\ (\A o : WrittenTo(0, o) = {} /\ OverridingTo(0, o) = {})
    BY DEF AcceptedTo, WrittenTo, OverridingTo
  <1>4. OverriddenIn({}, name, <<>>)
    BY DEF OverriddenIn
  <1>5. ASSUME NEW o \in Options(goal) PROVE ReadsIn({}, o, DefaultOf(goal, o))
    <2>1. CASE o \in Repeatable(goal)
      <3>1. DefaultOf(goal, o) = <<>>
        BY <1>2, <2>1
      <3> QED
        BY <2>1, <3>1, NothingCollected DEF ReadsIn
    <2>2. CASE o \notin Repeatable(goal)
      BY <2>2 DEF ReadsIn, SaidIn
    <2> QED
      BY <2>1, <2>2
  <1> QED
    BY <1>1, <1>2, <1>3, <1>4, <1>5 DEF LineRead, Idle

LEMMA WholeLine ==
    ASSUME NEW W, line \in Seq(W), goal \in Goals, \A w \in W : Writable(w),
           \A i \in DOMAIN line : Clear(line[i]), NEW name
    PROVE  LineRead(Len(line), CommandWords, name)
  <1> DEFINE n == Len(line)
             X == Spoken(W)
             V == {x.value : x \in X} \cup {x.spelling : x \in X} \cup {"true"}
                    \cup {DefaultOf(goal, o) : o \in Options(goal)}
             Acc == Seq(X)
             none == <<>>
  <1>1. /\ n \in Nat /\ DOMAIN line = 1 .. n
        /\ \A k \in 1 .. n : line[k] \in W /\ Writable(line[k]) /\ Clear(line[k])
    OBVIOUS
  <1>2. Speakable(X, V)
    <2> HIDE DEF X
    <2> QED
      BY DEF Speakable
  <1>3. none \in Acc /\ AddWordsKeeps(Acc, W)
    <2>1. \A w \in W : w.style \in Styles
      BY DEF Writable
    <2> QED
      BY <2>1, AddWordsType
  <1> HIDE DEF V, Acc, none, n
  <1>4. PICK F \in [0 .. Len(line) -> Acc] :
            /\ F[0] = none /\ F[Len(line)] = AddWordsOfAll(none, line)
            /\ \A k \in 1 .. Len(line) : F[k] = AddWords(F[k - 1], line[k])
    BY <1>3, AddWordsChain
  <1> DEFINE S == {k \in 0 .. n : LineRead(k, F[k], name)}
  <1>5. 0 \in S
    <2>1. LineRead(0, <<>>, name)
      BY <1>2, LineStart
    <2> QED
      BY <1>1, <1>4, <2>1 DEF none
  <1>6. ASSUME NEW k \in 1 .. n, k - 1 \in S PROVE k \in S
    <2> DEFINE words == F[k - 1]
    <2>1. k \in Nat /\ k >= 1 /\ words \in Acc /\ F[k] = AddWords(words, line[k])
      BY <1>1, <1>4 DEF n
    <2>2. LineRead(k - 1, words, name)
      BY <1>6
    <2>3. line[k] \in W /\ Writable(line[k]) /\ Clear(line[k])
      BY <1>1
    <2> HIDE DEF words, S
    <2>4. /\ OverriddenIn(OverridingTo(k - 1, name), name, PropertiesIn(words))
          /\ AcceptedTo(k - 1) =>
               /\ Idle(ParserAfter(words))
               /\ \A o \in Options(goal) :
                     ReadsIn(WrittenTo(k - 1, o), o, ParserAfter(words).options[o])
          /\ ~AcceptedTo(k - 1) => ParserAfter(words).ended = "usage"
      BY <2>2 DEF LineRead
    <2>5. LineRead(k, AddWords(words, line[k]), name)
      BY <1>2, <2>1, <2>3, <2>4, LineStep DEF LineRead, Acc
    <2> QED
      BY <1>6, <2>1, <2>5 DEF S
  <1>7. n \in S
    <2> HIDE DEF S
    <2>1. 0 .. n \subseteq S
      BY <1>1, <1>5, <1>6, Induction
    <2> QED
      BY <1>1, <2>1
  <1>8. CommandWords = F[n]
    BY <1>4 DEF CommandWords, AddWordsOfAll, none, n
  <1> QED
    BY <1>7, <1>8 DEF n

LEMMA CommandWordsType ==
    ASSUME NEW W, line \in Seq(W), \A w \in W : Writable(w)
    PROVE  CommandWords \in Seq(Spoken(W))
  <1> DEFINE Acc == Seq(Spoken(W))
             none == <<>>
  <1>1. none \in Acc /\ AddWordsKeeps(Acc, W)
    <2>1. \A w \in W : w.style \in Styles
      BY DEF Writable
    <2> QED
      BY <2>1, AddWordsType
  <1> HIDE DEF Acc, none
  <1>2. PICK F \in [0 .. Len(line) -> Acc] :
            /\ F[0] = none /\ F[Len(line)] = AddWordsOfAll(none, line)
            /\ \A k \in 1 .. Len(line) : F[k] = AddWords(F[k - 1], line[k])
    BY <1>1, AddWordsChain
  <1>3. CommandWords = AddWordsOfAll(none, line)
    BY DEF CommandWords, AddWordsOfAll, none
  <1>4. Len(line) \in 0 .. Len(line)
    OBVIOUS
  <1> QED
    BY <1>2, <1>3, <1>4 DEF Acc

LEMMA ParserType ==
    ASSUME NEW X, NEW V, Speakable(X, V), NEW words \in Seq(X)
    PROVE  ParserAfter(words) \in ParserOf(V)
  <1>1. CASE words = <<>>
    <2>1. Unparsed \in ParserOf(V)
      BY UnparsedType DEF Speakable
    <2> QED
      BY <1>1, <2>1, NoWords
  <1>2. CASE words # <<>>
    <2>1. PICK x : x \in X
      <3>1. words[1] \in X
        BY <1>2
      <3> QED
        BY <3>1
    <2> QED
      BY <2>1, WordRead
  <1> QED
    BY <1>1, <1>2

\* What a clear line is read as.
LEMMA ReadLine ==
    ASSUME TypeInv, goal \in Goals, \A i \in DOMAIN line : Clear(line[i])
    PROVE  /\ DOMAIN Parsed.options = Options(goal)
           /\ (\A i \in DOMAIN line : Accepted(line[i])) =>
                /\ Parsed.ended = None /\ Parsed.awaits = None
                /\ \A o \in Options(goal) : ReadsAsWritten(o, Parsed.options[o])
           /\ ~(\A i \in DOMAIN line : Accepted(line[i])) => Parsed.ended = "usage"
           /\ OverriddenIn(Overriding("npmRegistryURL"), "npmRegistryURL", Extracted.properties)
  <1> DEFINE W == Writings(goal) \cup Behind(goal)
             X == Spoken(W)
             name == "npmRegistryURL"
  <1>1. line \in Seq(W)
    BY DEF TypeInv
  <1>2. \A w \in W : Writable(w)
    BY WritingAssumption DEF Writable, Styles
  <1>3. /\ Parsed = ParserAfter(CommandWords)
        /\ Extracted.properties = PropertiesIn(CommandWords)
    BY DEF Parsed, Extracted, ParserAfter, PropertiesIn, ParseWordOfAll, ExtractOfAll, Apart
  <1>4. DOMAIN line = 1 .. Len(line)
    BY <1>1
  <1> HIDE DEF W, name
  <1>5. LineRead(Len(line), CommandWords, name)
    BY <1>1, <1>2, WholeLine
  <1>6. CommandWords \in Seq(X)
    BY <1>1, <1>2, CommandWordsType
  <1>7. DOMAIN Parsed.options = Options(goal)
    <2> DEFINE V == {x.value : x \in X} \cup {x.spelling : x \in X} \cup {"true"}
                      \cup {DefaultOf(goal, o) : o \in Options(goal)}
    <2>1. Speakable(X, V)
      <3> HIDE DEF X
      <3> QED
        BY DEF Speakable
    <2> HIDE DEF V, X
    <2>2. Parsed \in ParserOf(V)
      BY <1>3, <1>6, <2>1, ParserType
    <2> QED
      BY <2>2 DEF ParserOf
  <1>8. \A o : WrittenTo(Len(line), o) = Written(o) /\ OverridingTo(Len(line), o) = Overriding(o)
    BY <1>4 DEF WrittenTo, Written, OverridingTo, Overriding
  <1>9. AcceptedTo(Len(line)) <=> \A i \in DOMAIN line : Accepted(line[i])
    BY <1>4 DEF AcceptedTo
  <1>10. /\ OverriddenIn(Overriding(name), name, Extracted.properties)
         /\ AcceptedTo(Len(line)) =>
              /\ Idle(Parsed)
              /\ \A o \in Options(goal) : ReadsIn(Written(o), o, Parsed.options[o])
         /\ ~AcceptedTo(Len(line)) => Parsed.ended = "usage"
    BY <1>3, <1>5, <1>8 DEF LineRead
  <1>11. ASSUME NEW o, NEW value, ReadsIn(Written(o), o, value)
         PROVE  ReadsAsWritten(o, value)
    <2>1. CASE o \in Repeatable(goal)
      <3>1. CollectedIn(Written(o), value)
        BY <1>11, <2>1 DEF ReadsIn
      <3>2. Collected(o, value)
        BY <3>1 DEF CollectedIn, Collected
      <3> QED
        BY <2>1, <3>2 DEF ReadsAsWritten
    <2>2. CASE o \notin Repeatable(goal)
      <3>1. value = SaidIn(Written(o), o)
        BY <1>11, <2>2 DEF ReadsIn
      <3>2. SaidIn(Written(o), o) = Said(o)
        BY DEF SaidIn, Said, ValueOf
      <3> QED
        BY <2>2, <3>1, <3>2 DEF ReadsAsWritten
    <2> QED
      BY <2>1, <2>2
  <1> QED
    BY <1>7, <1>9, <1>10, <1>11 DEF Idle, name

\* The versions of an installing goal and the registry of a package manager
\* are among their options.
LEMMA TextsAre ==
    /\ goal \in Installing => VersionsOf(goal) \subseteq Texts(goal)
    /\ goal \in PackageManagers => "npmRegistryURL" \in Texts(goal)
  <1> DEFINE own == CASE goal \in Installing -> VersionsOf(goal) \cup RootsOf(goal) \cup {"serverId"}
                      [] goal \in PackageManagers -> {ArgumentsOf(goal), "npmRegistryURL"}
                      [] goal \in Watched -> {ArgumentsOf(goal), "srcdir", "outputdir"}
                      [] goal = "karma" -> {"karmaConfPath"}
                      [] OTHER -> {ArgumentsOf(goal)}
  <1>1. own \subseteq Texts(goal)
    <2>1. Texts(goal) = {"workingDirectory", "installDirectory", "settings", "localRepository",
                         "lifecyclePhase", "logLevel"} \cup own
      BY DEF Texts
    <2> HIDE DEF own
    <2> QED
      BY <2>1
  <1>2. ASSUME goal \in Installing PROVE VersionsOf(goal) \subseteq own
    <2>1. goal \notin PackageManagers /\ goal \notin Watched /\ goal # "karma"
      BY <1>2 DEF Installing, PackageManagers, Watched
    <2>2. own = VersionsOf(goal) \cup RootsOf(goal) \cup {"serverId"}
      BY <1>2, <2>1, Zenon
    <2> HIDE DEF own
    <2> QED
      BY <2>2
  <1>3. ASSUME goal \in PackageManagers PROVE "npmRegistryURL" \in own
    <2>1. goal \notin Installing /\ goal \notin Watched /\ goal # "karma"
      BY <1>3 DEF Installing, PackageManagers, Watched
    <2>2. own = {ArgumentsOf(goal), "npmRegistryURL"}
      BY <1>3, <2>1, Zenon
    <2> HIDE DEF own
    <2> QED
      BY <2>2
  <1> HIDE DEF own
  <1> QED
    BY <1>1, <1>2, <1>3

-----------------------------------------------------------------------------
(***************************************************************************)
(* The theorems.                                                           *)
(***************************************************************************)

\* Whatever the proxies of the settings and wherever the registry is, the
\* proxy of a runner is there and fits (selectProxy, dereferenced unchecked).
THEOREM ProxiesFit == Spec => []ProxyFits
  <1>1. TypeInv => ProxyFits
    <2> SUFFICES ASSUME TypeInv, RunsTool, ProxyConfig # <<>>
                 PROVE  LET proxy == SelectProxy(ProxyConfig, registry) IN
                        /\ proxy # None
                        /\ registry # "" /\ IsNonProxyHost(proxy, Host(registry)) =>
                             \A i \in DOMAIN ProxyConfig :
                                 IsNonProxyHost(ProxyConfig[i], Host(registry))
      BY DEF ProxyFits
    <2>1. ProxyConfig \in Seq(MavenProxy)
      BY Runs, ProxyConfigIs
    <2> QED
      BY <2>1, SelectProxyIs, NoneAssumption
  <1> QED
    BY <1>1, TypeCorrect, PTL

\* For every registry and settings file and every text but an empty or "null"
\* one: the user's arguments stand first and untouched, and every argument a
\* runner adds that they lack follows, once (Parse).
THEOREM EachAddedOnce == Spec => []AddedOnce
  <1>1. TypeInv => AddedOnce
    <2> SUFFICES ASSUME TypeInv, RunsTool, ~IsUnset(ArgumentString)
                 PROVE  LET added == SubSeq(Arguments, Len(Own) + 1, Len(Arguments)) IN
                        /\ IsPrefix(Own, Arguments)
                        /\ IsInjective(added)
                        /\ ToSet(added) = ToSet(AdditionalArguments) \ ToSet(Own)
      BY DEF AddedOnce
    <2>1. PICK A : /\ Own \in Seq(A) /\ AdditionalArguments \in Seq(A) /\ Arguments \in Seq(A)
                   /\ AppendedTo(Own, AdditionalArguments, Len(AdditionalArguments), Arguments)
      BY ArgumentsAre
    <2> QED
      BY <2>1, AddedBehind
  <1> QED
    BY <1>1, TypeCorrect, PTL

\* Whatever the user typed, "--" included, every flag that is added for npx
\* stands behind one (BuildNpxNpmArguments).
THEOREM FlagsAreNpms == Spec => []NpxFlagsAreNpms
  <1>1. TypeInv => NpxFlagsAreNpms
    <2> SUFFICES ASSUME TypeInv, RunsTool, goal = "npx",
                        NEW i \in Len(Own) + 1 .. Len(Arguments)
                 PROVE  \E j \in 1 .. i : Arguments[j] = <<"--">>
      BY DEF NpxFlagsAreNpms
    <2>1. ~IsUnset(ArgumentString)
      <3>1. SUFFICES ASSUME IsUnset(ArgumentString) PROVE FALSE
        OBVIOUS
      <3>2. Own = <<>> /\ Arguments = <<>>
        BY <3>1, ArgumentsAre
      <3>3. Len(Own) + 1 .. Len(Arguments) = {}
        BY <3>2
      <3> QED
        BY <3>3
    <2>2. PICK A : /\ Own \in Seq(A) /\ AdditionalArguments \in Seq(A) /\ Arguments \in Seq(A)
                   /\ AppendedTo(Own, AdditionalArguments, Len(AdditionalArguments), Arguments)
      BY <2>1, ArgumentsAre
    <2>3. Len(Own) \in Nat /\ Len(Arguments) \in Nat /\ Len(AdditionalArguments) \in Nat
      BY <2>2
    <2>4. AdditionalArguments = NpxArguments
      <3>1. runner = "npx"
        BY DEF runner, PackageManagers
      <3> QED
        BY <3>1 DEF AdditionalArguments
    <2>5. Len(AdditionalArguments) >= 1
      <3>1. PICK m \in 1 .. Len(AdditionalArguments) : Arguments[i] = AdditionalArguments[m]
        BY <2>2 DEF AppendedTo
      <3> QED
        BY <2>3, <3>1
    <2>6. AdditionalArguments[1] = <<"--">>
      <3>1. AdditionalArguments # <<>>
        BY <2>2, <2>5
      <3> QED
        BY <2>4, <3>1, NpxArgumentsAre
    <2>7. CASE Contains(Own, <<"--">>)
      <3>1. PICK j \in 1 .. Len(Own) : Own[j] = <<"--">>
        BY <2>7 DEF Contains
      <3>2. Arguments[j] = <<"--">>
        BY <2>2, <3>1 DEF AppendedTo
      <3> QED
        BY <2>3, <3>1, <3>2
    <2>8. CASE ~Contains(Own, <<"--">>)
      <3>1. Arguments[Len(Own) + 1] = <<"--">>
        BY <2>2, <2>5, <2>6, <2>8 DEF AppendedTo
      <3> QED
        BY <2>3, <3>1
    <2> QED
      BY <2>7, <2>8
  <1> QED
    BY <1>1, TypeCorrect, PTL

\* Every text, of any length and with any quotes in it, is split as the comment
\* on Parse says: phrases are disjoint and hold all quotes, and the arguments lie
\* between the spaces outside them (ArgumentsParser.Parse).
THEOREM TextsSplit == Spec => []ParsesAsDocumented
  <1>1. TypeInv => ParsesAsDocumented
    <2> SUFFICES ASSUME TypeInv PROVE ParsesAsDocumented
      OBVIOUS
    <2> DEFINE P == Words \cup {Space} \cup Quotes
    <2>1. text \in Seq(P)
      BY DEF TypeInv
    <2> HIDE DEF P
    <2>2. CASE IsUnset(text)
      BY <2>2 DEF ParsesAsDocumented, Parse
    <2>3. CASE ~IsUnset(text)
      <3>1. Parse(text, <<>>) = AppendMissingOfAll(ArgumentsIn(text), <<>>)
        BY <2>3 DEF Parse, ArgumentsIn, AppendMissingOfAll
      <3>2. ArgumentsIn(text) \in Seq(Seq(P))
        BY <2>1, Split
      <3>3. Parse(text, <<>>) = ArgumentsIn(text)
        BY <3>1, <3>2, AppendedNone
      <3>4. Documented(text, ArgumentsIn(text))
        BY <2>1, SplitsAsDocumented
      <3> QED
        BY <2>3, <3>3, <3>4 DEF ParsesAsDocumented
    <2> QED
      BY <2>2, <2>3
  <1> QED
    BY <1>1, TypeCorrect, PTL

\* Whatever is written behind a goal, of any length and in any order and style: a
\* clear line with a mistake in it, or without a version the goal must have, is
\* refused, and any other is read as written, the last -DnpmRegistryURL before
\* every --npmRegistryURL (Run's two passes over the words, and requiredOf).
THEOREM LinesRead == Spec => []ReadOrRefused
  <1>1. TypeInv => ReadOrRefused
    <2> SUFFICES ASSUME TypeInv, goal \in Goals, \A i \in DOMAIN line : Clear(line[i])
                 PROVE  ReadOrRefused
      BY DEF ReadOrRefused
    <2> DEFINE accepted == \A i \in DOMAIN line : Accepted(line[i])
               complete == \A o \in requiredOf(goal) : Said(o) # ""
               overriding == Overriding("npmRegistryURL")
               read == registry = IF overriding = {} THEN Said("npmRegistryURL")
                                  ELSE line[Max(overriding)].value
    <2>1. /\ DOMAIN Parsed.options = Options(goal)
          /\ accepted =>
               /\ Parsed.ended = None /\ Parsed.awaits = None
               /\ \A o \in Options(goal) : ReadsAsWritten(o, Parsed.options[o])
          /\ ~accepted => Parsed.ended = "usage"
          /\ OverriddenIn(overriding, "npmRegistryURL", Extracted.properties)
      BY ReadLine
    <2>2. \A o \in Texts(goal) : o \in Options(goal) /\ o \notin Repeatable(goal)
      BY NameAssumption DEF Options, Taking
    <2>3. requiredOf(goal) \subseteq Texts(goal)
      BY TextsAre DEF requiredOf
    <2>4. ASSUME accepted PROVE \A o \in Texts(goal) : Option(o) = Said(o)
      <3>1. SUFFICES ASSUME NEW o \in Texts(goal) PROVE Option(o) = Said(o)
        OBVIOUS
      <3>2. ReadsAsWritten(o, Parsed.options[o])
        BY <2>1, <2>2, <2>4
      <3> QED
        BY <2>2, <3>2 DEF ReadsAsWritten, Option
    <2>5. accepted => (Missing = {} <=> complete)
      BY <2>3, <2>4 DEF Missing
    <2>6. goal \notin {"help", "version"} /\ None \notin {"usage", "help"}
      BY NoValueAssumption DEF Goals, Installing, PackageManagers, Watched
    <2> HIDE DEF accepted, complete, overriding, read
    <2>7. CASE accepted /\ complete
      <3>1. Verdict(TRUE) \in {"runs", "skipped"}
        BY <2>1, <2>5, <2>6, <2>7 DEF Verdict
      <3>2. \A o \in DOMAIN Parsed.options : ReadsAsWritten(o, Parsed.options[o])
        BY <2>1, <2>7
      <3>3. goal \in PackageManagers => read
        <4> SUFFICES ASSUME goal \in PackageManagers PROVE read
          OBVIOUS
        <4>1. "npmRegistryURL" \in Texts(goal)
          BY TextsAre
        <4>2. Option("npmRegistryURL") = Said("npmRegistryURL")
          BY <2>4, <2>7, <4>1
        <4> QED
          BY <2>1, <4>2 DEF read, registry, SystemProperty, OverriddenIn
      <3> QED
        BY <2>7, <3>1, <3>2, <3>3 DEF ReadOrRefused, accepted, complete, overriding, read
    <2>8. CASE ~(accepted /\ complete)
      <3>1. Verdict(TRUE) = "usage"
        BY <2>1, <2>5, <2>6, <2>8 DEF Verdict
      <3> QED
        BY <2>8, <3>1 DEF ReadOrRefused, accepted, complete
    <2> QED
      BY <2>7, <2>8
  <1> QED
    BY <1>1, TypeCorrect, PTL

=============================================================================
