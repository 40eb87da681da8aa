------------------------- MODULE DepartmentsProofs -------------------------
(* Theorems about Departments, for every number of departments, users and   *)
(* requests in flight.                                                     *)
EXTENDS Departments, FiniteSetTheorems, WellFoundedInduction, TLAPS

-----------------------------------------------------------------------------
(* What repeating a step yields, for the two modules whose code walks trees. *)

(* Induction over the natural numbers, with a set in place of a predicate.   *)
LEMMA SetInduction ==
  ASSUME NEW S, 0 \in S, \A n \in Nat : n \in S => n + 1 \in S
  PROVE  \A n \in Nat : n \in S
<1> DEFINE T == Nat \ S
<1> SUFFICES ASSUME T # {} PROVE FALSE
  OBVIOUS
<1>1. PICK m \in T : \A k \in T : ~(<<k, m>> \in OpToRel(<, Nat))
  <2>1. T \subseteq Nat
    OBVIOUS
  <2> HIDE DEF T
  <2> QED BY <2>1, WFMin, NatLessThanWellFounded
<1>2. \A k \in T : ~(k < m)
  BY <1>1 DEF OpToRel
<1>3. m # 0 /\ m \in Nat
  OBVIOUS
<1>4. m - 1 \in Nat /\ m - 1 < m /\ (m - 1) + 1 = m
  BY <1>3
<1> QED BY <1>2, <1>4

(* The first n iterates of a set under F.                                   *)
Iterate(B, F, n, h) == h[0] = B /\ \A i \in 0..(n - 1) : h[i + 1] = F[h[i]]

LEMMA IterateUnique ==
  ASSUME NEW B, NEW F, NEW n \in Nat, NEW m \in Nat, n <= m,
         NEW h, NEW k, Iterate(B, F, n, h), Iterate(B, F, m, k)
  PROVE  \A i \in 0..n : h[i] = k[i]
<1> DEFINE S == {i \in Nat : i <= n => h[i] = k[i]}
<1>1. 0 \in S
  BY DEF Iterate
<1>2. ASSUME NEW i \in Nat, i \in S PROVE i + 1 \in S
  BY <1>2 DEF Iterate
<1>3. \A i \in Nat : i \in S
  <2> HIDE DEF S
  <2> QED BY <1>1, <1>2, SetInduction
<1> QED BY <1>3

LEMMA IterateExists ==
  ASSUME NEW U, NEW B \in SUBSET U, NEW F \in [SUBSET U -> SUBSET U], NEW n \in Nat
  PROVE  \E h \in [0..n -> SUBSET U] : Iterate(B, F, n, h)
<1> DEFINE S == {j \in Nat : \E h \in [0..j -> SUBSET U] : Iterate(B, F, j, h)}
<1>1. 0 \in S
  <2> DEFINE h == [i \in 0..0 |-> B]
  <2>1. h \in [0..0 -> SUBSET U] /\ Iterate(B, F, 0, h)
    BY DEF Iterate
  <2> QED BY <2>1
<1>2. ASSUME NEW j \in Nat, j \in S PROVE j + 1 \in S
  <2>1. PICK h \in [0..j -> SUBSET U] : Iterate(B, F, j, h)
    BY <1>2
  <2> DEFINE k == [i \in 0..(j + 1) |-> IF i <= j THEN h[i] ELSE F[h[j]]]
  <2>2. k \in [0..(j + 1) -> SUBSET U]
    OBVIOUS
  <2>3. k[0] = B
    BY <2>1 DEF Iterate
  <2>4. ASSUME NEW i \in 0..j PROVE k[i + 1] = F[k[i]]
    BY <2>1 DEF Iterate
  <2> HIDE DEF k
  <2>5. (j + 1) - 1 = j /\ j + 1 \in Nat
    OBVIOUS
  <2>6. Iterate(B, F, j + 1, k)
    BY <2>3, <2>4, <2>5 DEF Iterate
  <2> QED BY <2>2, <2>5, <2>6
<1>3. \A j \in Nat : j \in S
  <2> HIDE DEF S
  <2> QED BY <1>1, <1>2, SetInduction
<1> QED BY <1>3

(* A step that only adds elements, within U.                                *)
Growing(U, B, F) ==
    B \in SUBSET U /\ F \in [SUBSET U -> SUBSET U] /\ \A X \in SUBSET U : X \subseteq F[X]

(* All of them: the defining equation of a recursive function has a solution.*)
LEMMA Iterates ==
  ASSUME NEW U, NEW B, NEW F, Growing(U, B, F)
  PROVE  \E g \in [Nat -> SUBSET U] : g[0] = B /\ \A n \in Nat : g[n + 1] = F[g[n]]
<1> DEFINE H(n) == CHOOSE h \in [0..n -> SUBSET U] : Iterate(B, F, n, h)
           g == [n \in Nat |-> H(n)[n]]
<1>1. ASSUME NEW n \in Nat PROVE H(n) \in [0..n -> SUBSET U] /\ Iterate(B, F, n, H(n))
  BY IterateExists DEF Growing
<1> HIDE DEF H
<1>2. g \in [Nat -> SUBSET U]
  BY <1>1
<1>3. g[0] = B
  BY <1>1 DEF Iterate
<1>4. ASSUME NEW n \in Nat PROVE g[n + 1] = F[g[n]]
  <2>1. H(n + 1)[n + 1] = F[H(n + 1)[n]]
    BY <1>1 DEF Iterate
  <2>2. H(n)[n] = H(n + 1)[n]
    BY <1>1, IterateUnique
  <2> QED BY <2>1, <2>2
<1> HIDE DEF g
<1> QED BY <1>2, <1>3, <1>4

(* A larger finite set has more elements.                                   *)
LEMMA StrictlyMore ==
  ASSUME NEW T, IsFiniteSet(T), NEW S \in SUBSET T, S # T
  PROVE  Cardinality(S) + 1 <= Cardinality(T)
<1>1. IsFiniteSet(S) /\ Cardinality(S) <= Cardinality(T) /\ Cardinality(S) # Cardinality(T)
  BY FS_Subset
<1>2. Cardinality(S) \in Nat /\ Cardinality(T) \in Nat
  BY <1>1, FS_CardinalityType
<1> QED BY <1>1, <1>2

(* Iterates that only grow, within a finite set, have stopped growing after  *)
(* as many steps as there are elements to add: they have then reached the    *)
(* least set with B in it that F adds nothing to.                           *)
LEMMA IteratesSettle ==
  ASSUME NEW U, IsFiniteSet(U), NEW B, NEW F, Growing(U, B, F),
         NEW N \in Nat, Cardinality(U) <= N + Cardinality(B), NEW g, Iterate(B, F, N, g)
  PROVE  /\ g[N] \in SUBSET U /\ B \subseteq g[N] /\ F[g[N]] = g[N]
         /\ \A Y : B \subseteq Y /\ (\A X \in SUBSET U : X \subseteq Y => F[X] \subseteq Y)
                   => g[N] \subseteq Y
<1> DEFINE I == {n \in Nat : n <= N => g[n] \in SUBSET U /\ B \subseteq g[n]}
           G == {n \in Nat : n < N => \/ g[n + 1] = g[n]
                                      \/ Cardinality(g[n + 1]) >= n + 1 + Cardinality(B)}
<1> USE DEF Growing
<1>0. 0 \in 0..N /\ g[0] = B /\ \A n \in Nat : n < N => g[n + 1] = F[g[n]]
  BY DEF Iterate
<1>1. \A n \in Nat : n \in I
  <2>1. 0 \in I
    BY <1>0
  <2>2. ASSUME NEW n \in Nat, n \in I PROVE n + 1 \in I
    BY <1>0, <2>2
  <2> HIDE DEF I
  <2> QED BY <2>1, <2>2, SetInduction
<1>2. \A n \in 0..N : /\ g[n] \in SUBSET U /\ IsFiniteSet(g[n]) /\ Cardinality(g[n]) \in Nat
                      /\ Cardinality(g[n]) <= Cardinality(U)
  BY <1>1, FS_Subset, FS_CardinalityType
<1>3. ASSUME NEW n \in Nat, n < N, g[n + 1] # g[n] PROVE Cardinality(g[n]) + 1 <= Cardinality(g[n + 1])
  <2>1. IsFiniteSet(g[n + 1]) /\ g[n] \in SUBSET g[n + 1]
    BY <1>0, <1>2, <1>3
  <2> QED BY <1>3, <2>1, StrictlyMore
<1>4. \A n \in Nat : n \in G
  <2>1. 0 \in G
    BY <1>0, <1>2, <1>3
  <2>2. ASSUME NEW n \in Nat, n \in G PROVE n + 1 \in G
    <3> SUFFICES ASSUME n + 1 < N, g[(n + 1) + 1] # g[n + 1]
                 PROVE  Cardinality(g[(n + 1) + 1]) >= (n + 1) + 1 + Cardinality(B)
      OBVIOUS
    <3>1. n < N /\ n + 1 \in Nat /\ n + 1 \in 0..N /\ (n + 1) + 1 \in 0..N
      OBVIOUS
    <3>2. g[n + 1] # g[n]
      BY <1>0, <3>1
    <3>3. Cardinality(g[n + 1]) >= n + 1 + Cardinality(B)
      BY <2>2, <3>1, <3>2
    <3>4. Cardinality(g[n + 1]) + 1 <= Cardinality(g[(n + 1) + 1])
      BY <1>3, <3>1
    <3>5. /\ Cardinality(B) \in Nat /\ Cardinality(g[n + 1]) \in Nat
          /\ Cardinality(g[(n + 1) + 1]) \in Nat
      BY <1>0, <1>2, <3>1
    <3> QED BY <3>3, <3>4, <3>5
  <2> HIDE DEF G
  <2> QED BY <2>1, <2>2, SetInduction
<1>5. g[N] \in SUBSET U /\ B \subseteq g[N]
  BY <1>1
<1>6. F[g[N]] = g[N]
  <2> SUFFICES ASSUME F[g[N]] # g[N] PROVE FALSE
    OBVIOUS
  <2>1. IsFiniteSet(F[g[N]]) /\ g[N] \in SUBSET F[g[N]]
    BY <1>5, FS_Subset
  <2>2. Cardinality(g[N]) + 1 <= Cardinality(F[g[N]])
    BY <2>1, StrictlyMore
  <2>3. Cardinality(F[g[N]]) <= Cardinality(U) /\ Cardinality(F[g[N]]) \in Nat /\ Cardinality(U) \in Nat
    BY <1>5, FS_Subset, FS_CardinalityType
  <2>4. Cardinality(g[N]) >= N + Cardinality(B)
    <3>1. CASE N = 0
      BY <1>0, <1>2, <3>1
    <3>2. CASE N # 0
      <4>1. N - 1 \in Nat /\ N - 1 < N /\ (N - 1) + 1 = N
        BY <3>2
      <4>2. g[N] = F[g[N - 1]]
        BY <1>0, <4>1
      <4>3. g[N] # g[N - 1]
        BY <4>2
      <4> QED BY <1>4, <4>1, <4>3
    <3> QED BY <3>1, <3>2
  <2>5. Cardinality(g[N]) \in Nat /\ Cardinality(B) \in Nat
    BY <1>0, <1>2
  <2> QED BY <2>2, <2>3, <2>4, <2>5
<1>7. ASSUME NEW Y, B \subseteq Y, \A X \in SUBSET U : X \subseteq Y => F[X] \subseteq Y
      PROVE  g[N] \subseteq Y
  <2> DEFINE S == {n \in Nat : n <= N => g[n] \subseteq Y}
  <2>1. 0 \in S
    BY <1>0, <1>7
  <2>2. ASSUME NEW n \in Nat, n \in S PROVE n + 1 \in S
    BY <1>0, <1>1, <1>7, <2>2
  <2>3. \A n \in Nat : n \in S
    <3> HIDE DEF S
    <3> QED BY <2>1, <2>2, SetInduction
  <2> QED BY <2>3
<1> QED BY <1>5, <1>6, <1>7

-----------------------------------------------------------------------------

CreatePcs == {"c_find1", "c_find2", "c_create"}
UpdatePcs == {"u_parent", "u_walk", "u_update"}

(* What a request in flight knows however many others there are: the id of  *)
(* a department to be created is its own, and an update never writes a      *)
(* department above itself.                                                *)
Own(p) ==
    /\ req[p].pc \in CreatePcs =>
          /\ req[p].dept \notin depts /\ req[p].to # req[p].dept /\ req[p].dept \in Depts
          /\ req[p].to \in Depts \cup {None}
          /\ \A q \in Procs \ {p} : req[q].pc \in CreatePcs \cup UpdatePcs => req[q].dept # req[p].dept
    /\ req[p].pc \in UpdatePcs => req[p].dept \in Depts
    /\ req[p].pc \in {"u_parent", "u_walk"} => req[p].to \in Depts
    /\ At(p, "u_walk") => req[p].cur \in Depts
    /\ At(p, "u_walk") => req[p].to # req[p].dept \/ (req[p].seen = {} /\ req[p].cur = req[p].to)
    /\ At(p, "u_update") => req[p].to # req[p].dept \/ req[p].dept \notin depts
    /\ At(p, "u_update") => req[p].to \in Depts \cup {None}
    /\ req[p].pc \in {"u_find", "u_parent"} => req[p].seen = {}
    /\ req[p].pc \in {"p_find", "p_update"} => req[p].dept \in Depts /\ req[p].user \in Users
    /\ req[p].pc \in {"t_match", "t_walk", "t_read"} => req[p].dept \in Depts
    /\ At(p, "t_walk") => req[p].cur \in Depts

IInv == TypeOK /\ NoSelfParent /\ \A p \in Procs : Own(p)

-----------------------------------------------------------------------------
LEMMA IInvInit == Init => IInv
<1> SUFFICES ASSUME Init PROVE IInv OBVIOUS
<1>1. Idle \in Request
  BY DEF Idle, Request, Ops, Statuses, Pcs
<1>2. TypeOK /\ NoSelfParent
  BY <1>1 DEF Init, TypeOK, NoSelfParent
<1>3. ASSUME NEW p \in Procs PROVE Own(p)
  BY DEF Init, Own, Idle, At, CreatePcs, UpdatePcs
<1> QED BY <1>2, <1>3 DEF IInv

(* A request arrives: nothing but its own record changes.                   *)
LEMMA ArriveKeepsIInv ==
  ASSUME IInv, NEW p \in Procs, Arrive(p)
  PROVE  IInv'
<1> USE DeptAssumption DEF IInv, Begin, Ops, Statuses, Idle, CreatePcs, UpdatePcs, At, tables
<1>1. TypeOK' /\ NoSelfParent'
  <2>1. ASSUME NEW d \in Depts, NEW x \in Depts \cup {None}, NEW s \in Statuses,
             Create(p, d, x, s) PROVE req' \in [Procs -> Request]
    BY <2>1 DEF Create, TypeOK, Request, Pcs
  <2>2. ASSUME NEW d \in Depts, NEW x \in Depts \cup {None, Keep}, NEW s \in Statuses,
             Update(p, d, x, s) PROVE req' \in [Procs -> Request]
    BY <2>2 DEF Update, TypeOK, Request, Pcs
  <2>3. ASSUME NEW ds \in SUBSET Depts, Remove(p, ds) PROVE req' \in [Procs -> Request]
    BY <2>3 DEF Remove, TypeOK, Request, Pcs
  <2>4. ASSUME NEW u \in Users, NEW d \in Depts, Place(p, u, d) PROVE req' \in [Procs -> Request]
    BY <2>4 DEF Place, TypeOK, Request, Pcs
  <2>5. ASSUME NEW d \in Depts, NEW s \in Statuses, Search(p, d, s) PROVE req' \in [Procs -> Request]
    BY <2>5 DEF Search, TypeOK, Request, Pcs
  <2>6. UNCHANGED tables /\ overlapped' \in BOOLEAN
    BY DEF Arrive, Create, Update, Remove, Place, Search, TypeOK, Quiet
  <2> QED BY <2>1, <2>2, <2>3, <2>4, <2>5, <2>6 DEF Arrive, TypeOK, NoSelfParent
<1>2. ASSUME NEW q \in Procs PROVE Own(q)'
  <2>1. CASE \E d \in Depts, x \in Depts \cup {None}, s \in Statuses : Create(p, d, x, s)
    BY <2>1 DEF Create, Fresh, Own, TypeOK, Request, Pcs
  <2>2. CASE \E d \in Depts, x \in Depts \cup {None, Keep}, s \in Statuses : Update(p, d, x, s)
    BY <2>2 DEF Update, Own, TypeOK
  <2>3. CASE \E ds \in SUBSET Depts : Remove(p, ds)
    BY <2>3 DEF Remove, Own, TypeOK
  <2>4. CASE \E u \in Users, d \in Depts : Place(p, u, d)
    BY <2>4 DEF Place, Own, TypeOK
  <2>5. CASE \E d \in Depts, s \in Statuses : Search(p, d, s)
    BY <2>5 DEF Search, Own, TypeOK
  <2> QED BY <2>1, <2>2, <2>3, <2>4, <2>5 DEF Arrive
<1> QED BY <1>1, <1>2

(* The reads of a request.                                                 *)
LEMMA ReadKeepsIInv ==
  ASSUME IInv, NEW p \in Procs,
         \/ CreateFind(p) \/ UpdateFind(p) \/ UpdateParent(p) \/ Walk(p) \/ RemoveFind(p)
         \/ PlaceFind(p) \/ SearchMatch(p) \/ SearchWalk(p) \/ SearchRead(p)
  PROVE  IInv'
<1> USE DeptAssumption DEF IInv, Finish, Goto, Ops, Statuses, Idle, CreatePcs, UpdatePcs, At, tables
<1>1. CASE CreateFind(p)
  BY <1>1 DEF CreateFind, TypeOK, NoSelfParent, Own, Request, Pcs
<1>2. CASE UpdateFind(p)
  <2>1. UNCHANGED <<tables, overlapped>> /\ req[p] \in Request /\ parent \in [Depts -> Depts \cup {None}]
    BY <1>2 DEF UpdateFind, TypeOK
  <2>2. CASE req[p].dept \notin depts
    BY <1>2, <2>2 DEF UpdateFind, TypeOK, NoSelfParent, Own, Request, Pcs
  <2>3. CASE req[p].dept \in depts
    <3> DEFINE pc == IF req[p].to \in Depts THEN "u_parent" ELSE "u_update"
               to == IF req[p].to = Keep THEN parent[req[p].dept] ELSE req[p].to
               r  == [req[p] EXCEPT !.pc = pc, !.to = to]
    <3>1. req' = [req EXCEPT ![p] = r]
      BY <1>2, <2>3 DEF UpdateFind
    <3>2. pc \in Pcs /\ to \in Depts \cup {None} /\ (to \in Depts \/ pc = "u_update")
      BY <2>1, <2>3 DEF Pcs, Request, TypeOK
    <3>3. r \in Request
      <4> HIDE DEF pc, to
      <4> QED BY <2>1, <3>2 DEF Request
    <3>4. TypeOK' /\ NoSelfParent'
      <4> HIDE DEF r
      <4> QED BY <2>1, <3>1, <3>3 DEF TypeOK, NoSelfParent
    <3>5. ASSUME NEW q \in Procs PROVE Own(q)'
      BY <1>2, <2>1, <2>3 DEF UpdateFind, TypeOK, NoSelfParent, Own, Request
    <3> QED BY <3>4, <3>5
  <2> QED BY <2>2, <2>3
<1>3. CASE UpdateParent(p)
  BY <1>3 DEF UpdateParent, TypeOK, NoSelfParent, Own, Request, Pcs
<1>4. CASE Walk(p)
  BY <1>4 DEF Walk, Circular, TypeOK, NoSelfParent, Own, Request, Pcs
<1>5. CASE RemoveFind(p)
  BY <1>5 DEF RemoveFind, TypeOK, NoSelfParent, Own, Request, Pcs
<1>6. CASE PlaceFind(p)
  BY <1>6 DEF PlaceFind, TypeOK, NoSelfParent, Own, Request, Pcs
<1>7. CASE SearchMatch(p)
  <2>1. /\ UNCHANGED <<tables, overlapped>> /\ req[p] \in Request /\ req[p].dept \in Depts
        /\ parent \in [Depts -> Depts \cup {None}]
    BY <1>7 DEF SearchMatch, TypeOK, Own
  <2>2. CASE req[p].dept \notin Having(req[p].status)
    BY <1>7, <2>2 DEF SearchMatch, TypeOK, NoSelfParent, Own, Request, Pcs
  <2>3. CASE req[p].dept \in Having(req[p].status)
    <3> DEFINE pc == IF parent[req[p].dept] = None THEN "t_read" ELSE "t_walk"
               r  == [req[p] EXCEPT !.pc = pc, !.seen = {req[p].dept}, !.cur = parent[req[p].dept]]
    <3>1. req' = [req EXCEPT ![p] = r]
      BY <1>7, <2>3 DEF SearchMatch
    <3>2. r \in Request
      BY <2>1 DEF Request, Pcs
    <3>3. TypeOK' /\ NoSelfParent'
      <4> HIDE DEF r
      <4> QED BY <2>1, <3>1, <3>2 DEF TypeOK, NoSelfParent
    <3>4. /\ req'[p].pc \in {"t_read", "t_walk"} /\ req'[p].dept = req[p].dept
          /\ req'[p].pc = "t_walk" => req'[p].cur \in Depts
      BY <2>1, <3>1 DEF TypeOK, Request
    <3>5. \A q \in Procs \ {p} : req'[q] = req[q]
      <4> HIDE DEF r
      <4> QED BY <3>1 DEF TypeOK
    <3>6. ASSUME NEW q \in Procs PROVE Own(q)'
      <4>1. CASE q = p
        BY <2>1, <3>4, <4>1 DEF Own
      <4>2. CASE q # p
        BY <2>1, <3>4, <3>5, <4>2 DEF Own
      <4> QED BY <4>1, <4>2
    <3> QED BY <3>3, <3>6
  <2> QED BY <2>2, <2>3
<1>8. CASE SearchWalk(p)
  <2>1. Above(req[p].cur) \in Depts \cup {None}
    BY <1>8 DEF TypeOK, Above
  <2>2. req[p].cur \in Depts
    BY <1>8 DEF SearchWalk, Own
  <2> DEFINE pc == IF Above(req[p].cur) = None THEN "t_read" ELSE "t_walk"
             a  == Above(req[p].cur)
             sn == req[p].seen \cup {req[p].cur}
             r  == [req[p] EXCEPT !.pc = pc, !.seen = sn, !.cur = a]
  <2>r. r \in Request
    <3>1. req[p] \in Request /\ pc \in Pcs /\ a \in Depts \cup {None}
      BY <2>1 DEF TypeOK, Pcs
    <3>2. sn \in SUBSET Depts
      BY <2>2, <3>1 DEF Request
    <3> HIDE DEF pc, a, sn
    <3> QED BY <3>1, <3>2 DEF Request
  <2>s. req' = [req EXCEPT ![p] = r]
    BY <1>8 DEF SearchWalk
  <2> HIDE DEF r
  <2>3. req' \in [Procs -> Request]
    BY <2>r, <2>s DEF TypeOK
  <2>4. TypeOK' /\ NoSelfParent'
    BY <1>8, <2>3 DEF SearchWalk, TypeOK, NoSelfParent
  <2>5. ASSUME NEW q \in Procs PROVE Own(q)'
    BY <1>8, <2>1 DEF SearchWalk, TypeOK, Own
  <2> QED BY <2>4, <2>5
<1>9. CASE SearchRead(p)
  BY <1>9 DEF SearchRead, TypeOK, NoSelfParent, Own, Request, Pcs
<1> QED BY <1>1, <1>2, <1>3, <1>4, <1>5, <1>6, <1>7, <1>8, <1>9

(* The writes.                                                             *)
LEMMA WriteKeepsIInv ==
  ASSUME IInv, NEW p \in Procs,
         CreateRow(p) \/ UpdateRow(p) \/ RemoveRows(p) \/ PlaceUser(p)
  PROVE  IInv'
<1> USE DeptAssumption DEF IInv, Finish, Ops, Statuses, Idle, CreatePcs, UpdatePcs, At, tables
<1>1. CASE CreateRow(p)
  BY <1>1 DEF CreateRow, Marked, TypeOK, NoSelfParent, Own, Request, Pcs
<1>2. CASE UpdateRow(p)
  BY <1>2 DEF UpdateRow, Marked, TypeOK, NoSelfParent, Own, Request, Pcs
<1>3. CASE RemoveRows(p)
  BY <1>3 DEF RemoveRows, TypeOK, NoSelfParent, Own, Request, Pcs
<1>4. CASE PlaceUser(p)
  BY <1>4 DEF PlaceUser, TypeOK, NoSelfParent, Own, Request, Pcs
<1> QED BY <1>1, <1>2, <1>3, <1>4

LEMMA IInvStep == IInv /\ [Next]_vars => IInv'
<1> SUFFICES ASSUME IInv, [Next]_vars PROVE IInv' OBVIOUS
<1>1. ASSUME NEW p \in Procs, Arrive(p) PROVE IInv'
  BY <1>1, ArriveKeepsIInv
<1>2. ASSUME NEW p \in Procs, Step(p) PROVE IInv'
  BY <1>2, ReadKeepsIInv, WriteKeepsIInv DEF Step
<1>3. ASSUME NEW u \in Users, UserGone(u) PROVE IInv'
  BY <1>3 DEF UserGone, IInv, TypeOK, NoSelfParent, Own, At
<1>4. CASE UNCHANGED vars
  BY <1>4 DEF vars, IInv, TypeOK, NoSelfParent, Own, At
<1> QED BY <1>1, <1>2, <1>3, <1>4 DEF Next

LEMMA Inductive == Spec => []IInv
  BY IInvInit, IInvStep, PTL DEF Spec

(* The records and columns keep their types.                               *)
THEOREM DepartmentTypes == Spec => []TypeOK
  BY Inductive, PTL DEF IInv

(* No interleaving of requests makes a department its own parent.           *)
THEOREM NeverOwnParent == Spec => []NoSelfParent
  BY Inductive, PTL DEF IInv

-----------------------------------------------------------------------------
(* What a request knows when it has been alone since the initial state.     *)
(* The walk of an update has collected a chain of ancestors that does not   *)
(* meet the department being moved; hanging it below that chain is harmless. *)
Harmless(d, q) ==
    \/ q = None
    \/ d \in depts /\ q = parent[d]
    \/ \E V \in SUBSET depts : q \in V /\ d \notin V /\ \A v \in V : parent[v] \in V \cup {None}

Knows(p) ==
    /\ req[p].pc \in {"c_find2", "c_create"} => req[p].to \in depts \cup {None}
    /\ req[p].pc \in UpdatePcs => req[p].dept \in depts
    /\ At(p, "u_walk") =>
          /\ req[p].to \in req[p].seen \cup {req[p].cur}
          /\ req[p].cur \in depts /\ req[p].seen \subseteq depts /\ req[p].dept \notin req[p].seen
          /\ \A v \in req[p].seen : parent[v] \in req[p].seen \cup {req[p].cur}
    /\ At(p, "u_update") => req[p].to \in depts \cup {None} /\ Harmless(req[p].dept, req[p].to)
    /\ At(p, "r_delete") => \A d \in req[p].ids \cap depts : ~Blocked(d)
    /\ At(p, "p_update") => req[p].dept \in depts
    /\ req[p].pc \in {"t_walk", "t_read"} =>
          /\ req[p].dept \in Having(req[p].status)
          /\ req[p].dept \in req[p].seen /\ req[p].seen \subseteq depts /\ IsFiniteSet(req[p].seen)
          /\ \A v \in req[p].seen : parent[v] \in req[p].seen \cup {req[p].cur}
    /\ At(p, "t_walk") => req[p].cur \in depts
    /\ At(p, "t_read") => req[p].cur = None

NoDangling == /\ \A d \in depts : parent[d] \in depts \cup {None}
              /\ \A u \in Users : userDept[u] \in depts \cup {None}

Alone == \A p, q \in Procs : p # q => req[p] = Idle \/ req[q] = Idle

Solo == Alone /\ Acyclic /\ NoDangling /\ \A p \in Procs : Knows(p)

SInv == IInv /\ (~overlapped => Solo)

-----------------------------------------------------------------------------
(* The three writes keep the tree acyclic.                                 *)

LEMMA CreateAcyclic ==
  ASSUME IInv, Acyclic, NoDangling, NEW d \in Depts \ depts, NEW q \in depts \cup {None},
         depts' = depts \cup {d}, parent' = [parent EXCEPT ![d] = q]
  PROVE  Acyclic'
<1> SUFFICES ASSUME NEW S \in SUBSET (depts \cup {d}), S # {}, \A e \in S : parent'[e] \in S
             PROVE  FALSE
  BY DEF Acyclic
<1>1. None \notin S /\ depts \subseteq Depts /\ parent \in [Depts -> Depts \cup {None}]
  BY DeptAssumption DEF IInv, TypeOK
<1>2. CASE d \notin S
  <2>1. S \in SUBSET depts /\ \A e \in S : parent[e] \in S
    BY <1>1, <1>2
  <2> QED BY <2>1 DEF Acyclic
<1>3. CASE d \in S
  <2> DEFINE T == S \ {d}
  <2>1. T \in SUBSET depts
    OBVIOUS
  <2>2. q \in T
    BY <1>1, <1>3
  <2>3. \A e \in T : parent[e] \in T
    BY <1>1 DEF NoDangling
  <2> HIDE DEF T
  <2> QED BY <2>1, <2>2, <2>3 DEF Acyclic
<1> QED BY <1>2, <1>3

LEMMA UpdateAcyclic ==
  ASSUME IInv, Acyclic, NoDangling, NEW d \in depts, NEW q, Harmless(d, q),
         depts' = depts, parent' = [parent EXCEPT ![d] = q]
  PROVE  Acyclic'
<1> SUFFICES ASSUME NEW S \in SUBSET depts, S # {}, \A e \in S : parent'[e] \in S
             PROVE  FALSE
  BY DEF Acyclic
<1>1. None \notin S /\ depts \subseteq Depts /\ parent \in [Depts -> Depts \cup {None}]
  BY DeptAssumption DEF IInv, TypeOK
<1>2. \A e \in S \ {d} : parent[e] \in S
  BY <1>1
<1>3. d \in S /\ q \in S
  BY <1>1, <1>2 DEF Acyclic
<1>4. q # parent[d]
  BY <1>2, <1>3 DEF Acyclic
<1>5. PICK V \in SUBSET depts :
        q \in V /\ d \notin V /\ \A v \in V : parent[v] \in V \cup {None}
  BY <1>1, <1>3, <1>4 DEF Harmless
<1>6. S \cap V \in SUBSET depts /\ S \cap V # {}
  BY <1>3, <1>5
<1>7. \A e \in S \cap V : parent[e] \in S \cap V
  BY <1>1, <1>2, <1>5
<1> QED BY <1>6, <1>7 DEF Acyclic

LEMMA RemoveAcyclic ==
  ASSUME IInv, Acyclic, NEW gone \in SUBSET Depts, depts' = depts \ gone,
         parent' = [d \in Depts |-> IF d \in gone THEN None ELSE parent[d]]
  PROVE  Acyclic'
<1> SUFFICES ASSUME NEW S \in SUBSET (depts \ gone), S # {}, \A e \in S : parent'[e] \in S
             PROVE  FALSE
  BY DEF Acyclic
<1>1. depts \subseteq Depts
  BY DEF IInv, TypeOK
<1>2. S \in SUBSET depts /\ \A e \in S : parent[e] \in S
  BY <1>1
<1> QED BY <1>2 DEF Acyclic

-----------------------------------------------------------------------------
LEMMA SoloInit == Init => Solo
<1> SUFFICES ASSUME Init PROVE Solo OBVIOUS
<1>1. Alone /\ Acyclic /\ NoDangling
  BY DEF Init, Alone, Acyclic, NoDangling
<1>2. ASSUME NEW p \in Procs PROVE Knows(p)
  BY DEF Init, Knows, Idle, At, UpdatePcs
<1> QED BY <1>1, <1>2 DEF Solo

(* The first request to arrive while nothing else is in flight.             *)
LEMMA SoloArrive ==
  ASSUME IInv, Solo, NEW p \in Procs, Arrive(p), ~overlapped'
  PROVE  Solo'
<1> USE DEF Idle, Begin, tables, At, UpdatePcs
<1>1. Quiet /\ UNCHANGED <<depts, parent, enabled, userDept>>
  BY DEF Arrive, Create, Update, Remove, Place, Search
<1>2. PICK r : req' = [req EXCEPT ![p] = r]
  BY DEF Arrive, Create, Update, Remove, Place, Search
<1>3. \A q \in Procs \ {p} : req'[q] = req[q]
  BY <1>2 DEF IInv, TypeOK
<1>4. Alone' /\ Acyclic' /\ NoDangling'
  BY <1>1, <1>3 DEF Solo, Alone, Acyclic, NoDangling, Quiet
<1>5. ASSUME NEW q \in Procs \ {p} PROVE Knows(q)'
  BY <1>1, <1>3 DEF Quiet, Knows
<1>6. Knows(p)'
  <2>1. req'[p].pc \in {"c_find1", "c_create", "u_find", "r_find", "p_find", "t_match"}
        /\ (req'[p].pc = "c_create" => req'[p].to = None)
    <3> USE DEF IInv, TypeOK
    <3>1. CASE \E d \in Depts, x \in Depts \cup {None}, s \in Statuses : Create(p, d, x, s)
      BY <3>1 DEF Create
    <3>2. CASE \E d \in Depts, x \in Depts \cup {None, Keep}, s \in Statuses : Update(p, d, x, s)
      BY <3>2 DEF Update
    <3>3. CASE \E ds \in SUBSET Depts : Remove(p, ds)
      BY <3>3 DEF Remove
    <3>4. CASE \E u \in Users, d \in Depts : Place(p, u, d)
      BY <3>4 DEF Place
    <3>5. CASE \E d \in Depts, s \in Statuses : Search(p, d, s)
      BY <3>5 DEF Search
    <3> QED BY <3>1, <3>2, <3>3, <3>4, <3>5 DEF Arrive, Statuses
  <2> QED BY <2>1 DEF Knows
<1> QED BY <1>4, <1>5, <1>6 DEF Solo

(* A step of the only request in flight.                                   *)
LEMMA OthersIdle ==
  ASSUME IInv, Solo, NEW p \in Procs, Step(p)
  PROVE  /\ \A q \in Procs \ {p} : req[q] = Idle /\ req'[q] = Idle
         /\ Alone' /\ \A q \in Procs \ {p} : Knows(q)'
<1>1. req[p] # Idle
  BY DEF Step, CreateFind, CreateRow, UpdateFind, UpdateParent, Walk, UpdateRow, RemoveFind, RemoveRows,
         PlaceFind, PlaceUser, SearchMatch, SearchWalk, SearchRead, At, Idle
<1>2. \E r : req' = [req EXCEPT ![p] = r]
  BY DEF Step, CreateFind, CreateRow, UpdateFind, UpdateParent, Walk, UpdateRow, RemoveFind, RemoveRows,
         PlaceFind, PlaceUser, SearchMatch, SearchWalk, SearchRead, Goto, Finish
<1>3. \A q \in Procs \ {p} : req[q] = Idle /\ req'[q] = Idle
  BY <1>1, <1>2 DEF Solo, Alone, IInv, TypeOK
<1>4. ASSUME NEW q \in Procs \ {p} PROVE Knows(q)'
  BY <1>3 DEF Knows, Idle, At, UpdatePcs
<1> QED BY <1>3, <1>4 DEF Alone

LEMMA SoloRead ==
  ASSUME IInv, Solo, NEW p \in Procs,
         \/ CreateFind(p) \/ UpdateFind(p) \/ UpdateParent(p) \/ Walk(p) \/ RemoveFind(p)
         \/ PlaceFind(p) \/ SearchMatch(p) \/ SearchWalk(p) \/ SearchRead(p)
  PROVE  Acyclic' /\ NoDangling' /\ Knows(p)'
<1> USE DeptAssumption DEF Finish, Goto, Idle, At, tables, UpdatePcs
<1>0. UNCHANGED <<depts, parent, enabled, userDept>> /\ Knows(p) /\ Own(p) /\ req[p] \in Request
      /\ depts \subseteq Depts /\ parent \in [Depts -> Depts \cup {None}] /\ req \in [Procs -> Request]
  BY DEF CreateFind, UpdateFind, UpdateParent, Walk, RemoveFind, PlaceFind, SearchMatch, SearchWalk,
         SearchRead, Solo, IInv, TypeOK
<1>1. Acyclic' /\ NoDangling'
  BY <1>0 DEF Solo, Acyclic, NoDangling
<1> SUFFICES Knows(p)'
  BY <1>1
<1>i. req'[p] = Idle => Knows(p)'
  BY DEF Knows
<1>r. \A r : req' = [req EXCEPT ![p] = r] => req'[p] = r
  BY <1>0
<1>2. CASE CreateFind(p)
  <2>1. CASE req[p].to \notin depts
    BY <1>2, <2>1, <1>i, <1>r DEF CreateFind
  <2>2. CASE req[p].to \in depts
    <3>1. req'[p] = [req[p] EXCEPT !.pc = IF req[p].pc = "c_find1" THEN "c_find2" ELSE "c_create"]
      BY <1>2, <2>2, <1>0 DEF CreateFind
    <3> QED BY <1>0, <2>2, <3>1 DEF Knows, Request
  <2> QED BY <2>1, <2>2
<1>3. CASE UpdateFind(p)
  <2>1. CASE req[p].dept \notin depts
    BY <1>3, <2>1, <1>i, <1>r DEF UpdateFind
  <2>2. CASE req[p].dept \in depts
    <3>1. req'[p] = [req[p] EXCEPT !.pc = IF req[p].to \in Depts THEN "u_parent" ELSE "u_update",
                                   !.to = IF req[p].to = Keep THEN parent[req[p].dept] ELSE req[p].to]
      BY <1>3, <2>2, <1>0 DEF UpdateFind
    <3>2. CASE req[p].to \in Depts
      BY <1>0, <2>2, <3>1, <3>2 DEF Knows, Request
    <3>3. CASE req[p].to \in {None, Keep}
      BY <1>0, <2>2, <3>1, <3>3 DEF Knows, Request, Solo, NoDangling, Harmless
    <3> QED BY <1>0, <3>2, <3>3 DEF Request
  <2> QED BY <2>1, <2>2
<1>4. CASE UpdateParent(p)
  <2>1. CASE req[p].to \notin depts
    BY <1>4, <2>1, <1>i, <1>r DEF UpdateParent
  <2>2. CASE req[p].to \in depts
    <3>1. req'[p] = [req[p] EXCEPT !.pc = "u_walk", !.cur = req[p].to]
      BY <1>4, <2>2, <1>0 DEF UpdateParent
    <3>2. req[p].pc = "u_parent"
      BY <1>4 DEF UpdateParent
    <3> QED BY <1>0, <2>2, <3>1, <3>2 DEF Knows, Own, Request
  <2> QED BY <2>1, <2>2
<1>5. CASE Walk(p)
  <2>1. CASE Circular(p)
    BY <1>5, <2>1, <1>i, <1>r DEF Walk
  <2>2. CASE ~Circular(p) /\ parent[req[p].cur] # None
    BY <1>0, <1>5, <2>2 DEF Walk, Circular, Knows, Request, Solo, NoDangling
  <2>3. CASE ~Circular(p) /\ parent[req[p].cur] = None
    <3> DEFINE V == req[p].seen \cup {req[p].cur}
    <3>1. V \in SUBSET depts /\ req[p].to \in V /\ req[p].dept \notin V
          /\ \A v \in V : parent[v] \in V \cup {None}
      BY <1>0, <1>5, <2>3 DEF Walk, Circular, Knows, Request
    <3>2. Harmless(req[p].dept, req[p].to)'
      BY <1>0, <1>5, <2>3, <3>1 DEF Walk, Knows, Harmless, Request
    <3> QED BY <1>0, <1>5, <2>3, <3>1, <3>2 DEF Walk, Knows, Request
  <2> QED BY <2>1, <2>2, <2>3
<1>6. CASE RemoveFind(p)
  <2>1. CASE \E d \in req[p].ids \cap depts : Blocked(d)
    BY <1>6, <2>1, <1>i, <1>r DEF RemoveFind
  <2>2. CASE ~ \E d \in req[p].ids \cap depts : Blocked(d)
    <3>1. req'[p] = [req[p] EXCEPT !.pc = "r_delete"]
      BY <1>6, <2>2, <1>0 DEF RemoveFind
    <3> QED BY <1>0, <2>2, <3>1 DEF Knows, Request, Blocked
  <2> QED BY <2>1, <2>2
<1>7. CASE PlaceFind(p)
  <2>1. CASE req[p].dept \notin depts
    BY <1>7, <2>1, <1>i, <1>r DEF PlaceFind
  <2>2. CASE req[p].dept \in depts
    <3>1. req'[p] = [req[p] EXCEPT !.pc = "p_update"]
      BY <1>7, <2>2, <1>0 DEF PlaceFind
    <3> QED BY <1>0, <2>2, <3>1 DEF Knows, Request
  <2> QED BY <2>1, <2>2
<1>8. CASE SearchMatch(p)
  <2>1. CASE req[p].dept \notin Having(req[p].status)
    BY <1>8, <2>1, <1>i, <1>r DEF SearchMatch
  <2>2. CASE req[p].dept \in Having(req[p].status)
    <3>1. req'[p] = [req[p] EXCEPT !.pc = IF parent[req[p].dept] = None THEN "t_read" ELSE "t_walk",
                                   !.seen = {req[p].dept}, !.cur = parent[req[p].dept]]
      BY <1>8, <2>2, <1>0 DEF SearchMatch
    <3>2. req[p].dept \in depts /\ parent[req[p].dept] \in depts \cup {None}
      BY <2>2 DEF Solo, NoDangling, Having
    <3>3. IsFiniteSet({req[p].dept})
      BY FS_Singleton
    <3>4. req'[p].status = req[p].status
      BY <1>0, <3>1 DEF Request
    <3>5. /\ req'[p].dept = req[p].dept /\ req'[p].seen = {req[p].dept}
          /\ req'[p].cur = parent[req[p].dept]
          /\ req'[p].pc = IF parent[req[p].dept] = None THEN "t_read" ELSE "t_walk"
      BY <1>0, <3>1 DEF Request
    <3>6. (req[p].dept \in Having(req[p].status))'
      BY <1>0, <2>2, <3>4, <3>5 DEF Having
    <3> QED BY <1>0, <3>2, <3>3, <3>5, <3>6 DEF Knows
  <2> QED BY <2>1, <2>2
<1>9. CASE SearchWalk(p)
  <2>1. req'[p] = [req[p] EXCEPT !.pc = IF Above(req[p].cur) = None THEN "t_read" ELSE "t_walk",
                                 !.seen = req[p].seen \cup {req[p].cur}, !.cur = Above(req[p].cur)]
    BY <1>9, <1>0 DEF SearchWalk
  <2>2. /\ req[p].cur \in depts /\ req[p].seen \subseteq depts
        /\ \A v \in req[p].seen : parent[v] \in req[p].seen \cup {req[p].cur}
        /\ req[p].dept \in req[p].seen /\ IsFiniteSet(req[p].seen \cup {req[p].cur})
    BY <1>0, <1>9, FS_AddElement DEF SearchWalk, Knows
  <2>3. Above(req[p].cur) = parent[req[p].cur] /\ Above(req[p].cur) \in depts \cup {None}
    BY <2>2 DEF Above, Solo, NoDangling
  <2>4. /\ req'[p].seen = req[p].seen \cup {req[p].cur} /\ req'[p].cur = Above(req[p].cur)
        /\ req'[p].dept = req[p].dept
        /\ req'[p].pc = IF Above(req[p].cur) = None THEN "t_read" ELSE "t_walk"
    BY <1>0, <2>1 DEF Request
  <2>5. IsFiniteSet(req'[p].seen)
    BY <2>2, <2>4
  <2>6. (req[p].dept \in Having(req[p].status))'
    <3>1. req'[p].status = req[p].status /\ req[p].dept \in Having(req[p].status)
      BY <1>0, <1>9, <2>1 DEF SearchWalk, Knows, Request
    <3> QED BY <1>0, <2>4, <3>1 DEF Having
  <2> QED BY <1>0, <2>2, <2>3, <2>4, <2>5, <2>6 DEF Knows
<1>10. CASE SearchRead(p)
  BY <1>10, <1>i, <1>r DEF SearchRead
<1> QED BY <1>1, <1>2, <1>3, <1>4, <1>5, <1>6, <1>7, <1>8, <1>9, <1>10

LEMMA SoloWrite ==
  ASSUME IInv, Solo, NEW p \in Procs,
         CreateRow(p) \/ UpdateRow(p) \/ RemoveRows(p) \/ PlaceUser(p)
  PROVE  Acyclic' /\ NoDangling' /\ Knows(p)'
<1> USE DeptAssumption DEF At
<1>0. Knows(p) /\ Own(p) /\ req[p] \in Request /\ depts \subseteq Depts
      /\ parent \in [Depts -> Depts \cup {None}] /\ userDept \in [Users -> Depts \cup {None}]
      /\ Acyclic /\ NoDangling
  BY DEF Solo, IInv, TypeOK
<1>1. Knows(p)'
  BY DEF CreateRow, UpdateRow, RemoveRows, PlaceUser, Finish, Idle, Knows, UpdatePcs, IInv, TypeOK
<1>2. CASE CreateRow(p)
  <2>1. req[p].dept \in Depts \ depts /\ req[p].to \in depts \cup {None}
    BY <1>0, <1>2 DEF CreateRow, Own, Knows, CreatePcs
  <2>2. Acyclic'
    BY <1>0, <1>2, <2>1, CreateAcyclic DEF CreateRow
  <2> QED BY <1>0, <1>1, <1>2, <2>1, <2>2 DEF CreateRow, NoDangling
<1>3. CASE UpdateRow(p)
  <2>1. req[p].dept \in depts /\ req[p].to \in depts \cup {None} /\ Harmless(req[p].dept, req[p].to)
    BY <1>0, <1>3 DEF UpdateRow, Knows, UpdatePcs
  <2>2. Acyclic'
    BY <1>0, <1>3, <2>1, UpdateAcyclic DEF UpdateRow
  <2> QED BY <1>0, <1>1, <1>3, <2>1, <2>2 DEF UpdateRow, NoDangling
<1>4. CASE RemoveRows(p)
  <2>1. \A d \in req[p].ids \cap depts : ~Blocked(d)
    BY <1>0, <1>4 DEF RemoveRows, Knows
  <2>2. Acyclic'
    BY <1>0, <1>4, RemoveAcyclic DEF RemoveRows, Request
  <2>3. \A d \in depts' : parent'[d] \in depts' \cup {None}
    BY <1>0, <1>4, <2>1 DEF RemoveRows, NoDangling, Blocked
  <2>4. \A u \in Users : userDept'[u] \in depts' \cup {None}
    BY <1>0, <1>4 DEF RemoveRows, NoDangling
  <2> QED BY <1>1, <2>2, <2>3, <2>4 DEF NoDangling
<1>5. CASE PlaceUser(p)
  <2>1. req[p].dept \in depts
    BY <1>0, <1>5 DEF PlaceUser, Knows
  <2>2. Acyclic'
    BY <1>0, <1>5 DEF PlaceUser, Acyclic
  <2> QED BY <1>0, <1>1, <1>5, <2>1, <2>2 DEF PlaceUser, NoDangling
<1> QED BY <1>2, <1>3, <1>4, <1>5, <1>1

LEMMA SoloStep == SInv /\ [Next]_vars => SInv'
<1> SUFFICES ASSUME SInv, [Next]_vars, ~overlapped' PROVE Solo'
  BY IInvStep DEF SInv
<1>0. IInv /\ Solo
  <2>1. ~overlapped
    BY DEF Next, Arrive, Create, Update, Remove, Place, Search, Begin, Step, CreateFind, CreateRow,
           UpdateFind, UpdateParent, Walk, UpdateRow, RemoveFind, RemoveRows, PlaceFind, PlaceUser,
           SearchMatch, SearchWalk, SearchRead, UserGone, vars
  <2> QED BY <2>1 DEF SInv
<1>1. ASSUME NEW p \in Procs, Arrive(p) PROVE Solo'
  BY <1>0, <1>1, SoloArrive
<1>2. ASSUME NEW p \in Procs, Step(p) PROVE Solo'
  <2>1. Acyclic' /\ NoDangling' /\ Knows(p)'
    BY <1>0, <1>2, SoloRead, SoloWrite DEF Step
  <2> QED BY <1>0, <1>2, <2>1, OthersIdle DEF Solo
<1>3. ASSUME NEW u \in Users, UserGone(u) PROVE Solo'
  <2>1. Alone' /\ Acyclic' /\ NoDangling'
    BY <1>0, <1>3 DEF UserGone, Solo, Alone, Acyclic, NoDangling, IInv, TypeOK
  <2>2. ASSUME NEW p \in Procs PROVE Knows(p)'
    BY <1>0, <1>3, DeptAssumption DEF UserGone, Solo, Knows, Having, Harmless, Blocked, At, IInv, TypeOK
  <2> QED BY <2>1, <2>2 DEF Solo
<1>4. CASE UNCHANGED vars
  <2>1. Alone' /\ Acyclic' /\ NoDangling'
    BY <1>0, <1>4 DEF vars, Solo, Alone, Acyclic, NoDangling
  <2>2. ASSUME NEW p \in Procs PROVE Knows(p)'
    BY <1>0, <1>4 DEF vars, Solo, Knows, Having, Harmless, Blocked, At
  <2> QED BY <2>1, <2>2 DEF Solo
<1> QED BY <1>1, <1>2, <1>3, <1>4 DEF Next

LEMMA SoloInductive == Spec => []SInv
<1>1. Init => SInv
  BY IInvInit, SoloInit DEF SInv
<1> QED BY <1>1, SoloStep, PTL DEF Spec

(* Requests that do not overlap keep the departments a forest.              *)
THEOREM DepartmentsStayForest == Spec => []SoloForest
<1>1. SInv => SoloForest
  BY DEF SInv, Solo, SoloForest
<1> QED BY <1>1, SoloInductive, PTL

(* Requests that do not overlap leave no reference to a removed department.  *)
THEOREM ReferencesExist == Spec => []SoloNoDangling
<1>1. SInv => SoloNoDangling
  BY DEF SInv, Solo, NoDangling, SoloNoDangling
<1> QED BY <1>1, SoloInductive, PTL

(* The ancestors that a search collects never repeat without overlaps: were *)
(* the next one among them, they would be a set closed under parents.       *)
THEOREM SearchEnds == Spec => []SearchNeverRevisits
<1>1. SInv => SearchNeverRevisits
  <2> SUFFICES ASSUME SInv, NEW p \in Procs, At(p, "t_walk"), ~overlapped, req[p].cur \in req[p].seen
               PROVE  FALSE
    BY DEF SearchNeverRevisits
  <2>1. req[p].seen \in SUBSET depts /\ req[p].seen # {}
        /\ \A v \in req[p].seen : parent[v] \in req[p].seen
    BY DEF SInv, Solo, Knows, At
  <2> QED BY <2>1 DEF SInv, Solo, Acyclic
<1> QED BY <1>1, SoloInductive, PTL

(* The nodes that an answer shows among the rows ds: its roots, and every    *)
(* row whose parent it shows.                                              *)
LEMMA ShownClosed ==
  ASSUME NEW ds, IsFiniteSet(ds)
  PROVE  /\ Roots(ds) \subseteq Shown(ds) /\ Shown(ds) \subseteq ds
         /\ \A d \in ds : parent[d] \in Shown(ds) => d \in Shown(ds)
<1> DEFINE Below(g) == g = [n \in Nat |-> IF n = 0 THEN Roots(ds)
                                          ELSE g[n - 1] \cup {d \in ds : parent[d] \in g[n - 1]}]
<1>a. PICK B : B = Roots(ds)
  OBVIOUS
<1>b. PICK F : F = [X \in SUBSET ds |-> X \cup {d \in ds : parent[d] \in X}]
  OBVIOUS
<1>c. PICK N : N = Cardinality(ds)
  OBVIOUS
<1>1. B \in SUBSET ds
  BY <1>a DEF Roots
<1>2. Growing(ds, B, F)
  BY <1>b, <1>1 DEF Growing
<1>4. N \in Nat /\ Cardinality(B) \in Nat
  BY <1>1, <1>c, FS_CardinalityType, FS_Subset
<1>5. PICK g \in [Nat -> SUBSET ds] : g[0] = B /\ \A n \in Nat : g[n + 1] = F[g[n]]
  BY <1>2, Iterates
<1>6. Below(g)
  <2>1. ASSUME NEW n \in Nat, n # 0
        PROVE  g[n] = g[n - 1] \cup {d \in ds : parent[d] \in g[n - 1]}
    <3>1. n - 1 \in Nat /\ (n - 1) + 1 = n
      BY <2>1
    <3> QED BY <1>5, <1>b, <3>1
  <2> QED BY <1>5, <1>a, <2>1
<1>7. PICK h : Below(h) /\ Shown(ds) = h[N]
  BY <1>6, <1>c DEF Shown
<1>8. \A n \in Nat : h[n] = g[n]
  <2> DEFINE S == {n \in Nat : h[n] = g[n]}
  <2>1. 0 \in S
    BY <1>5, <1>7, <1>a
  <2>2. ASSUME NEW n \in Nat, n \in S PROVE n + 1 \in S
    <3>1. n + 1 \in Nat /\ n + 1 # 0 /\ (n + 1) - 1 = n
      OBVIOUS
    <3>2. h[n + 1] = h[n] \cup {d \in ds : parent[d] \in h[n]}
      BY <1>7, <3>1
    <3>3. h[n + 1] = F[g[n]]
      BY <1>5, <1>b, <2>2, <3>2
    <3> QED BY <1>5, <3>3
  <2>3. \A n \in Nat : n \in S
    <3> HIDE DEF S
    <3> QED BY <2>1, <2>2, SetInduction
  <2> QED BY <2>3
<1>9. Iterate(B, F, N, g)
  BY <1>4, <1>5 DEF Iterate
<1>10. Cardinality(ds) <= N + Cardinality(B)
  BY <1>4, <1>c
<1>11. B \subseteq g[N] /\ F[g[N]] = g[N]
  BY <1>2, <1>4, <1>9, <1>10, IteratesSettle
<1> QED BY <1>4, <1>5, <1>7, <1>8, <1>11, <1>a, <1>b

(* Without a cycle no row is missing from the answer: those left out would   *)
(* be a set with all its parents within itself.                             *)
LEMMA AllShown ==
  ASSUME Acyclic, NEW ds \in SUBSET depts, IsFiniteSet(ds)
  PROVE  Shown(ds) = ds
<1> DEFINE Rest == ds \ Shown(ds)
<1>1. /\ Roots(ds) \subseteq Shown(ds) /\ Shown(ds) \subseteq ds
      /\ \A d \in ds : parent[d] \in Shown(ds) => d \in Shown(ds)
  BY ShownClosed
<1>2. \A d \in Rest : parent[d] \in Rest
  BY <1>1 DEF Roots
<1>3. Rest \in SUBSET depts
  OBVIOUS
<1>4. Rest = {}
  <2> HIDE DEF Rest
  <2> QED BY <1>2, <1>3 DEF Acyclic
<1> QED BY <1>1, <1>4

(* A search that has walked alone has collected its match and a chain of     *)
(* ancestors; the answer shows those among them that have the status asked  *)
(* for, the match always, and all of them when none is asked for.            *)
THEOREM SearchFindsMatch == Spec => []SearchShowsMatch
<1>1. SInv => SearchShowsMatch
  <2> SUFFICES ASSUME SInv, NEW p \in Procs, At(p, "t_read"), ~overlapped
               PROVE  /\ req[p].dept \in Rows(p) /\ Shown(Rows(p)) = Rows(p)
                      /\ \A d \in req[p].seen : parent[d] \in req[p].seen \cup {None}
                      /\ req[p].status = "any" => Rows(p) = req[p].seen
    BY DEF SearchShowsMatch
  <2>1. /\ req[p].dept \in req[p].seen /\ req[p].dept \in Having(req[p].status)
        /\ req[p].seen \subseteq depts /\ IsFiniteSet(req[p].seen)
        /\ \A v \in req[p].seen : parent[v] \in req[p].seen \cup {None}
    BY DEF SInv, Solo, Knows, At
  <2>2. req[p].dept \in Rows(p)
    BY <2>1 DEF Rows
  <2>3. Rows(p) \in SUBSET depts /\ IsFiniteSet(Rows(p))
    BY <2>1, FS_Subset DEF Rows
  <2>4. Shown(Rows(p)) = Rows(p)
    BY <2>3, AllShown DEF SInv, Solo
  <2>5. req[p].status = "any" => Rows(p) = req[p].seen
    BY <2>1 DEF Rows, Having
  <2> QED BY <2>1, <2>2, <2>4, <2>5
<1> QED BY <1>1, SoloInductive, PTL

(* Every step of checkCircularReference is a step towards its end, whatever *)
(* runs beside it.                                                         *)
THEOREM CircularCheckEnds == Spec => WalkProgresses
<1> DEFINE P == \A p \in Procs : At(p, "u_walk") /\ At(p, "u_walk")' /\ req'[p] # req[p] =>
                     req[p].seen # req'[p].seen /\ req[p].seen \subseteq req'[p].seen
<1>1. IInv /\ [Next]_vars => [P]_vars
  <2> SUFFICES ASSUME IInv, Next, NEW p \in Procs, At(p, "u_walk"), At(p, "u_walk")', req'[p] # req[p]
               PROVE  req[p].seen # req'[p].seen /\ req[p].seen \subseteq req'[p].seen
    OBVIOUS
  <2>1. ASSUME NEW q \in Procs, Arrive(q) PROVE FALSE
    <3>1. req[q] = Idle /\ \E r : req' = [req EXCEPT ![q] = r]
      BY <2>1 DEF Arrive, Create, Update, Remove, Place, Search, Begin
    <3> QED BY <3>1 DEF Idle, At, IInv, TypeOK
  <2>2. ASSUME NEW q \in Procs, Step(q) PROVE q = p /\ Walk(p)
    BY <2>2 DEF Step, CreateFind, CreateRow, UpdateFind, UpdateParent, Walk, UpdateRow, RemoveFind,
         RemoveRows, PlaceFind, PlaceUser, SearchMatch, SearchWalk, SearchRead, Goto, Finish, At,
         IInv, TypeOK
  <2>3. Walk(p)
    BY <2>1, <2>2 DEF Next, UserGone
  <2> QED BY <2>3 DEF Walk, Circular, Goto, Finish, Idle, At, IInv, TypeOK, Request
<1>2. [][P]_vars => WalkProgresses
  BY PTL DEF WalkProgresses
<1> QED BY <1>1, <1>2, Inductive, PTL DEF Spec
=============================================================================
