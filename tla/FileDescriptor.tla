---------------------------- MODULE FileDescriptor ----------------------------
(***************************************************************************)
(* The move-only RAII class FileDescriptor of main.cpp, over a few objects *)
(* and a kernel that hands out the lowest free descriptor, as open() does. *)
(* Each action is one member function, run to completion; Get() reads     *)
(* only.  A descriptor that Release() hands to the caller is "loose": the  *)
(* caller owns it until it passes it to Reset().                           *)
(***************************************************************************)
EXTENDS Integers

CONSTANTS
    Objs,    \* the FileDescriptor objects (storage that may hold one)
    MaxFd    \* the process's descriptor table holds 0..MaxFd-1

ASSUME FdAssumption == MaxFd \in Nat \ {0}

Fds == 0..(MaxFd - 1)

\* The value of the member fd: a descriptor or -1.
FdValues == Fds \cup {-1}

VARIABLES
    alive,   \* alive[o]: the object o is constructed and not destroyed
    fd,      \* fd[o]: its member fd
    opened,  \* the descriptors open in the kernel
    loose    \* descriptors returned by Release() and not yet passed on

vars == <<alive, fd, opened, loose>>

TypeOK ==
    /\ alive \in [Objs -> BOOLEAN]
    /\ fd \in [Objs -> FdValues]
    /\ opened \subseteq Fds
    /\ loose \subseteq Fds

Init ==
    /\ alive = [o \in Objs |-> FALSE]
    /\ fd = [o \in Objs |-> -1]
    /\ opened = {}
    /\ loose = {}

\* open() returns the lowest descriptor that is not open.
LowestFree == CHOOSE f \in Fds \ opened : \A g \in Fds \ opened : f <= g

\* What Reset(newFd) closes: the old descriptor, unless it is the new one
\* or there is none.
ClosedBy(o, newFd) == IF newFd # fd[o] /\ fd[o] >= 0 THEN {fd[o]} ELSE {}

\* FileDescriptor() noexcept = default: fd = -1.  SetLatencyTarget's
\* "return FileDescriptor{}" when stat() or open() fails.
DefaultConstruct(o) ==
    /\ ~alive[o]
    /\ alive' = [alive EXCEPT ![o] = TRUE]
    /\ fd' = [fd EXCEPT ![o] = -1]
    /\ UNCHANGED <<opened, loose>>

\* FileDescriptor latencyTargetFd(rawFd) on the result of a successful
\* open().
OpenConstruct(o) ==
    /\ ~alive[o]
    /\ opened # Fds
    /\ alive' = [alive EXCEPT ![o] = TRUE]
    /\ fd' = [fd EXCEPT ![o] = LowestFree]
    /\ opened' = opened \cup {LowestFree}
    /\ UNCHANGED loose

\* int Release(): fd = -1, and the old value goes to the caller.
Release(o) ==
    /\ alive[o]
    /\ fd' = [fd EXCEPT ![o] = -1]
    /\ loose' = IF fd[o] >= 0 THEN loose \cup {fd[o]} ELSE loose
    /\ UNCHANGED <<alive, opened>>

\* Mutant: Reset without the newFd != fd test closes the descriptor it
\* keeps when given its own.
ResetNoSelfCheck(o, newFd) ==
    /\ alive[o]
    /\ opened' = IF fd[o] >= 0 THEN opened \ {fd[o]} ELSE opened
    /\ fd' = [fd EXCEPT ![o] = newFd]
    /\ loose' = loose \ {newFd}
    /\ UNCHANGED alive

\* int Reset(int newFd): if (newFd != fd && fd >= 0) close(fd); fd = newFd.
\* The argument is -1, the object's own descriptor, or one the caller
\* owns after a Release().
Reset(o, newFd) ==
    /\ alive[o]
    /\ opened' = opened \ ClosedBy(o, newFd)
    /\ fd' = [fd EXCEPT ![o] = newFd]
    /\ loose' = loose \ {newFd}
    /\ UNCHANGED alive

\* Reset(open(...)): the argument is opened before the old one is closed.
ResetOpen(o) ==
    /\ alive[o]
    /\ opened # Fds
    /\ opened' = (opened \cup {LowestFree}) \ ClosedBy(o, LowestFree)
    /\ fd' = [fd EXCEPT ![o] = LowestFree]
    /\ UNCHANGED <<alive, loose>>

\* Mutant: a move constructor that copies the member instead of taking it
\* with Release().
MoveConstructCopy(o, p) ==
    /\ ~alive[o]
    /\ alive[p]
    /\ alive' = [alive EXCEPT ![o] = TRUE]
    /\ fd' = [fd EXCEPT ![o] = fd[p]]
    /\ UNCHANGED <<opened, loose>>

\* FileDescriptor(FileDescriptor&& other) : fd(other.Release()).  This is
\* also how SetLatencyTarget's result reaches main()'s latencyTarget.
MoveConstruct(o, p) ==
    /\ ~alive[o]
    /\ alive[p]
    /\ alive' = [alive EXCEPT ![o] = TRUE]
    /\ fd' = [fd EXCEPT ![p] = -1, ![o] = fd[p]]
    /\ UNCHANGED <<opened, loose>>

\* operator=(FileDescriptor&& other): if (this != &other)
\* this->Reset(other.Release()).  Release() runs first, so Reset sees the
\* other's descriptor and this one's own.
MoveAssign(o, p) ==
    /\ alive[o] /\ alive[p]
    /\ IF o # p
       THEN /\ opened' = opened \ ClosedBy(o, fd[p])
            /\ fd' = [fd EXCEPT ![p] = -1, ![o] = fd[p]]
       ELSE UNCHANGED <<opened, fd>>
    /\ UNCHANGED <<alive, loose>>

\* Mutant: a destructor that does not call Reset().
DestroyNoReset(o) ==
    /\ alive[o]
    /\ alive' = [alive EXCEPT ![o] = FALSE]
    /\ fd' = [fd EXCEPT ![o] = -1]
    /\ UNCHANGED <<opened, loose>>

\* ~FileDescriptor() { Reset(); }
Destroy(o) ==
    /\ alive[o]
    /\ alive' = [alive EXCEPT ![o] = FALSE]
    /\ opened' = opened \ ClosedBy(o, -1)
    /\ fd' = [fd EXCEPT ![o] = -1]
    /\ UNCHANGED loose

Next ==
    \E o \in Objs :
        \/ DefaultConstruct(o) \/ OpenConstruct(o) \/ Release(o)
        \/ ResetOpen(o) \/ Destroy(o)
        \/ \E newFd \in {-1, fd[o]} \cup loose : Reset(o, newFd)
        \/ \E p \in Objs : MoveConstruct(o, p) \/ MoveAssign(o, p)

Spec == Init /\ [][Next]_vars

-----------------------------------------------------------------------------
(* Properties.                                                             *)

Live == {o \in Objs : alive[o]}

\* The descriptor a live object holds, if any.
Holds(o, f) == alive[o] /\ fd[o] = f

\* Move-only ownership: no descriptor is held by two live objects, nor by
\* a live object and a caller of Release() at once, so no two destructors
\* close it.
OwnedOnce ==
    \A f \in Fds :
        /\ \A o, p \in Objs : Holds(o, f) /\ Holds(p, f) => o = p
        /\ f \in loose => \A o \in Objs : ~Holds(o, f)

\* No object holds a descriptor that is closed: Reset, a move or a
\* destructor never closes a descriptor that some object still holds
\* (it would be reused by the next open() and closed from under its new
\* owner).
NoDangling == \A o \in Live : fd[o] >= 0 => fd[o] \in opened

\* No leak: every open descriptor is held by a live object or by the
\* caller that released it, so it is closed by a destructor or a Reset.
NoLeak == \A f \in opened : f \in loose \/ \E o \in Objs : Holds(o, f)

=============================================================================
