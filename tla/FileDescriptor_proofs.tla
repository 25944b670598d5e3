------------------------- MODULE FileDescriptor_proofs -------------------------
(***************************************************************************)
(* Proofs that FileDescriptor's ownership invariants hold for every number *)
(* of objects and every size of the descriptor table.                      *)
(***************************************************************************)
EXTENDS FileDescriptor, WellFoundedInduction, TLAPS

\* A destroyed object, or storage not yet constructed, holds nothing.
DeadHoldNothing == \A o \in Objs : ~alive[o] => fd[o] = -1

\* The three properties are inductive together once the descriptors that
\* callers hold after Release() are known to be open and the dead objects
\* to hold none.
IInv ==
    /\ TypeOK
    /\ DeadHoldNothing
    /\ loose \subseteq opened
    /\ OwnedOnce
    /\ NoDangling
    /\ NoLeak

\* The less-than relation on the naturals, as a set of pairs.
NatLess == OpToRel(<, Nat)

LEMMA NatLessPairs ==
    ASSUME NEW x \in Nat, NEW y \in Nat, ~(<<y, x>> \in NatLess)
    PROVE  ~(y < x)
BY Zenon DEF NatLess, OpToRel

\* open() succeeds with a descriptor that is not open whenever the table
\* is not full: a non-empty set of naturals has a least element.
LEMMA LowestFreeIsFree ==
    ASSUME opened \subseteq Fds, opened # Fds
    PROVE  LowestFree \in Fds \ opened
<1> DEFINE T == Fds \ opened
<1>1. T \subseteq Nat /\ T # {}
  <2>1. T # {}
    BY Zenon
  <2>2. Fds \subseteq Nat
    BY FdAssumption, SMT DEF Fds
  <2> QED
    BY <2>1, <2>2
<1>2. IsWellFoundedOn(NatLess, Nat)
  BY NatLessThanWellFounded, Zenon DEF NatLess
<1>3. \E x \in T : \A y \in T : ~(<<y, x>> \in NatLess)
  BY <1>1, <1>2, WFMin, Zenon
<1>4. \E x \in T : \A y \in T : x <= y
  <2>1. PICK x \in T : \A y \in T : ~(<<y, x>> \in NatLess)
    BY <1>3
  <2>2. \A y \in T : ~(y < x)
    BY <1>1, <2>1, NatLessPairs
  <2> QED
    BY <1>1, <2>2
<1> QED
  BY <1>4 DEF LowestFree

LEMMA InitIInv == Init => IInv
BY FdAssumption DEF Init, Fds, FdValues, IInv, TypeOK, DeadHoldNothing, OwnedOnce, NoDangling, NoLeak, Holds, Live

LEMMA IInvStep == IInv /\ [Next]_vars => IInv'
<1> SUFFICES ASSUME TypeOK, DeadHoldNothing, loose \subseteq opened, OwnedOnce,
                    NoDangling, NoLeak, [Next]_vars
             PROVE  IInv'
  BY DEF IInv
<1> USE FdAssumption DEF Fds, FdValues, Holds, Live, ClosedBy, TypeOK, DeadHoldNothing,
                        OwnedOnce, NoDangling, NoLeak
<1>1. ASSUME NEW o \in Objs, DefaultConstruct(o) PROVE IInv'
  <2>1. TypeOK'
    BY <1>1 DEF DefaultConstruct, TypeOK
  <2>2. DeadHoldNothing'
    BY <1>1 DEF DefaultConstruct, DeadHoldNothing
  <2>3. (loose \subseteq opened)'
    BY <1>1 DEF DefaultConstruct
  <2>4. OwnedOnce'
    BY <1>1 DEF DefaultConstruct, OwnedOnce
  <2>5. NoDangling'
    BY <1>1 DEF DefaultConstruct, NoDangling
  <2>6. NoLeak'
    BY <1>1 DEF DefaultConstruct, NoLeak
  <2> QED
    BY <2>1, <2>2, <2>3, <2>4, <2>5, <2>6 DEF IInv
<1>2. ASSUME NEW o \in Objs, OpenConstruct(o) PROVE IInv'
  <2>0. LowestFree \in Fds \ opened
    BY <1>2, LowestFreeIsFree DEF OpenConstruct, TypeOK
  <2>1. TypeOK'
    BY <1>2, <2>0 DEF OpenConstruct, TypeOK
  <2>2. DeadHoldNothing'
    BY <1>2, <2>0 DEF OpenConstruct, DeadHoldNothing
  <2>3. (loose \subseteq opened)'
    BY <1>2, <2>0 DEF OpenConstruct
  <2>4. OwnedOnce'
    BY <1>2, <2>0 DEF OpenConstruct, OwnedOnce
  <2>5. NoDangling'
    BY <1>2, <2>0 DEF OpenConstruct, NoDangling
  <2>6. NoLeak'
    BY <1>2, <2>0 DEF OpenConstruct, NoLeak
  <2> QED
    BY <2>1, <2>2, <2>3, <2>4, <2>5, <2>6 DEF IInv
<1>3. ASSUME NEW o \in Objs, Release(o) PROVE IInv'
  <2>0. fd[o] >= 0 => fd[o] \in opened
    BY <1>3 DEF Release
  <2>1. TypeOK'
    BY <1>3, <2>0 DEF Release, TypeOK
  <2>2. DeadHoldNothing'
    BY <1>3 DEF Release, DeadHoldNothing
  <2>3. (loose \subseteq opened)'
    BY <1>3, <2>0 DEF Release
  <2>4. OwnedOnce'
    BY <1>3 DEF Release, OwnedOnce
  <2>5. NoDangling'
    BY <1>3 DEF Release, NoDangling
  <2>6. NoLeak'
    BY <1>3 DEF Release, NoLeak
  <2> QED
    BY <2>1, <2>2, <2>3, <2>4, <2>5, <2>6 DEF IInv
<1>4. ASSUME NEW o \in Objs, ResetOpen(o) PROVE IInv'
  <2>0. LowestFree \in Fds \ opened
    BY <1>4, LowestFreeIsFree DEF ResetOpen, TypeOK
  <2>1. TypeOK'
    BY <1>4, <2>0 DEF ResetOpen, TypeOK
  <2>2. DeadHoldNothing'
    BY <1>4, <2>0 DEF ResetOpen, DeadHoldNothing
  <2>3. (loose \subseteq opened)'
    BY <1>4, <2>0 DEF ResetOpen
  <2>4. OwnedOnce'
    BY <1>4, <2>0 DEF ResetOpen, OwnedOnce
  <2>5. NoDangling'
    BY <1>4, <2>0 DEF ResetOpen, NoDangling
  <2>6. NoLeak'
    BY <1>4, <2>0 DEF ResetOpen, NoLeak
  <2> QED
    BY <2>1, <2>2, <2>3, <2>4, <2>5, <2>6 DEF IInv
<1>5. ASSUME NEW o \in Objs, Destroy(o) PROVE IInv'
  <2>1. TypeOK'
    BY <1>5 DEF Destroy, TypeOK
  <2>2. DeadHoldNothing'
    BY <1>5 DEF Destroy, DeadHoldNothing
  <2>3. (loose \subseteq opened)'
    BY <1>5 DEF Destroy
  <2>4. OwnedOnce'
    BY <1>5 DEF Destroy, OwnedOnce
  <2>5. NoDangling'
    BY <1>5 DEF Destroy, NoDangling
  <2>6. NoLeak'
    BY <1>5 DEF Destroy, NoLeak
  <2> QED
    BY <2>1, <2>2, <2>3, <2>4, <2>5, <2>6 DEF IInv
<1>6. ASSUME NEW o \in Objs, NEW newFd \in {-1, fd[o]} \cup loose, Reset(o, newFd)
      PROVE IInv'
  <2>1. TypeOK'
    BY <1>6 DEF Reset, TypeOK
  <2>2. DeadHoldNothing'
    BY <1>6 DEF Reset, DeadHoldNothing
  <2>3. (loose \subseteq opened)'
    BY <1>6 DEF Reset
  <2>4. OwnedOnce'
    BY <1>6 DEF Reset, OwnedOnce
  <2>5. NoDangling'
    BY <1>6 DEF Reset, NoDangling
  <2>6. NoLeak'
    BY <1>6 DEF Reset, NoLeak
  <2> QED
    BY <2>1, <2>2, <2>3, <2>4, <2>5, <2>6 DEF IInv
<1>7. ASSUME NEW o \in Objs, NEW p \in Objs, MoveConstruct(o, p) PROVE IInv'
  <2>1. TypeOK'
    BY <1>7 DEF MoveConstruct, TypeOK
  <2>2. DeadHoldNothing'
    BY <1>7 DEF MoveConstruct, DeadHoldNothing
  <2>3. (loose \subseteq opened)'
    BY <1>7 DEF MoveConstruct
  <2>4. OwnedOnce'
    BY <1>7 DEF MoveConstruct, OwnedOnce
  <2>5. NoDangling'
    BY <1>7 DEF MoveConstruct, NoDangling
  <2>6. NoLeak'
    BY <1>7 DEF MoveConstruct, NoLeak
  <2> QED
    BY <2>1, <2>2, <2>3, <2>4, <2>5, <2>6 DEF IInv
<1>8. ASSUME NEW o \in Objs, NEW p \in Objs, MoveAssign(o, p) PROVE IInv'
  <2>1. CASE o = p
    <3>1. UNCHANGED vars
      BY <1>8, <2>1 DEF MoveAssign, vars
    <3> QED
      BY <3>1 DEF vars, IInv
  <2>2. CASE o # p
    <3>0. /\ alive[o] /\ alive[p]
          /\ fd' = [q \in Objs |-> IF q = o THEN fd[p] ELSE IF q = p THEN -1 ELSE fd[q]]
          /\ opened' = opened \ ClosedBy(o, fd[p])
          /\ UNCHANGED <<alive, loose>>
      BY <1>8, <2>2 DEF MoveAssign
    <3>1. TypeOK'
      BY <3>0, <2>2 DEF TypeOK
    <3>2. DeadHoldNothing'
      BY <3>0, <2>2 DEF DeadHoldNothing
    <3>3. (loose \subseteq opened)'
      BY <3>0, <2>2
    <3>4. OwnedOnce'
      BY <3>0, <2>2 DEF OwnedOnce
    <3>5. NoDangling'
      BY <3>0, <2>2 DEF NoDangling
    <3>6. NoLeak'
      BY <3>0, <2>2 DEF NoLeak
    <3> QED
      BY <3>1, <3>2, <3>3, <3>4, <3>5, <3>6 DEF IInv
  <2> QED
    BY <2>1, <2>2
<1>9. CASE UNCHANGED vars
  BY <1>9 DEF vars, IInv, TypeOK, DeadHoldNothing, OwnedOnce, NoDangling, NoLeak
<1> QED
  BY <1>1, <1>2, <1>3, <1>4, <1>5, <1>6, <1>7, <1>8, <1>9 DEF Next

THEOREM Ownership == Spec => []IInv
BY InitIInv, IInvStep, PTL DEF Spec

\* No descriptor is ever held by two FileDescriptor objects, or by an
\* object and the caller of Release(): the move operations transfer it.
THEOREM OwnedOnceHolds == Spec => []OwnedOnce
BY Ownership, PTL DEF IInv

\* No object ever holds a closed descriptor: Reset's newFd != fd test
\* keeps a self-reset from closing the descriptor it keeps.
THEOREM NoDanglingHolds == Spec => []NoDangling
BY Ownership, PTL DEF IInv

\* No open descriptor is ever without an owner: the destructor and Reset
\* close what the object held.
THEOREM NoLeakHolds == Spec => []NoLeak
BY Ownership, PTL DEF IInv

=============================================================================
