---------------------------- MODULE Audit_proofs ----------------------------
(***************************************************************************)
(* Proofs that ReportSystemConfiguration prints the checks in the order    *)
(* of section 6, each with its own result, and that every step of it is a *)
(* step of AuditSpec, for every core count and every set of arguments,    *)
(* hosts and machines.                                                     *)
(***************************************************************************)
EXTENDS Audit, SequenceTheorems, TLAPS

\* Every check the audit may run, in the order it runs them.
AllKinds == SystemKinds \o CoreKinds \o <<"NicPresent">> \o NicKinds

\* The first m of them.
Prefix(m) == [i \in 1..m |-> AllKinds[i]]

\* A list of checks with the result of each in the current context.
Res(kinds) == [i \in DOMAIN kinds |-> <<kinds[i], Evaluate(kinds[i], ctx, ds, env)>>]

\* The checks from position n + 1 to position m.
Pending(n, m) == [i \in 1..(m - n) |-> AllKinds[n + i]]

ValidCpu == 0 <= cpu /\ cpu < CpuCount

\* The context Start builds from the arguments.
StartCtx == [cpu |-> cpu, nic |-> IF nicName = "" THEN None ELSE nicName]

\* How many results a finished audit of a valid core has printed.
ExpLen ==
    IF ctx.nic = None THEN 15
    ELSE IF EvalNicPresent(ctx, ds) = Pass THEN 20 ELSE 16

\* The stages of the audit.  In each, what has been printed is the first
\* n results of AllKinds, what is pending is the rest of the current
\* vector, and the context is the one Start built from the arguments.
AtStart == pc = "start" /\ printed = <<>>

InSystem ==
    /\ pc = "system" /\ ValidCpu /\ ctx = StartCtx
    /\ \E n \in 0..5 : printed = Res(Prefix(n)) /\ pending = Pending(n, 5)

InCore ==
    /\ pc = "core" /\ ValidCpu /\ ctx = StartCtx
    /\ \E n \in 5..15 : printed = Res(Prefix(n)) /\ pending = Pending(n, 15)

AtPresence ==
    /\ pc = "presence" /\ ValidCpu /\ ctx = StartCtx
    /\ ctx.nic # None
    /\ printed = Res(Prefix(15))

InNic ==
    /\ pc = "nic" /\ ValidCpu /\ ctx = StartCtx
    /\ ctx.nic # None /\ EvalNicPresent(ctx, ds) = Pass
    /\ \E n \in 16..20 : printed = Res(Prefix(n)) /\ pending = Pending(n, 20)

DoneInvalid == pc = "done" /\ ~ValidCpu /\ printed = <<>>

DoneValid ==
    /\ pc = "done" /\ ValidCpu /\ ctx = StartCtx
    /\ printed = Res(Prefix(ExpLen))

\* The inductive invariant: the audit is in one of its stages.
AuditInv ==
    /\ cpu \in CpuArgs
    /\ \/ AtStart \/ InSystem \/ InCore \/ AtPresence \/ InNic
       \/ DoneInvalid \/ DoneValid

-----------------------------------------------------------------------------
(* The check lists.                                                        *)

LEMMA AllKindsFacts ==
    /\ Len(AllKinds) = 20
    /\ AllKinds[16] = "NicPresent"
    /\ SystemKinds = Prefix(5)
    /\ SystemKinds \o CoreKinds = Prefix(15)
    /\ SystemKinds \o CoreKinds \o <<>> = Prefix(15)
    /\ SystemKinds \o CoreKinds \o (<<"NicPresent">> \o <<>>) = Prefix(16)
    /\ SystemKinds \o CoreKinds \o (<<"NicPresent">> \o NicKinds) = Prefix(20)
    /\ CoreKinds = Pending(5, 15)
    /\ NicKinds = Pending(16, 20)
BY SMT DEF AllKinds, Prefix, Pending, SystemKinds, CoreKinds, NicKinds

\* Evaluate dispatches NicPresent to NicPresenceCheck.
LEMMA EvaluateNicPresent ==
    ASSUME NEW c, NEW d, NEW e
    PROVE  Evaluate("NicPresent", c, d, e) = EvalNicPresent(c, d)
BY SMT DEF Evaluate

\* The checks a section may still have pending.
KindSet == {AllKinds[j] : j \in 1..20}

LEMMA PendingIsSeq ==
    ASSUME NEW n \in Nat, NEW m \in Nat, m <= 20
    PROVE  Pending(n, m) \in Seq(KindSet)
<1>1. \A i \in 1..(m - n) : AllKinds[n + i] \in KindSet
  BY SMT DEF KindSet
<1> QED
  BY <1>1, IsASeq, EmptySeq, SMT DEF Pending

\* One iteration of a check loop: the head of the pending checks is the
\* next check of AllKinds and the tail the checks after it.
LEMMA LoopStep ==
    ASSUME NEW n \in Nat, NEW m \in Nat, n < m, m <= 20
    PROVE  /\ Head(Pending(n, m)) = AllKinds[n + 1]
           /\ Tail(Pending(n, m)) = Pending(n + 1, m)
<1>1. Pending(n, m) # <<>> /\ Head(Pending(n, m)) = AllKinds[n + 1]
  BY SMT DEF Pending
<1>2. Pending(n, m) \in Seq(KindSet)
  BY PendingIsSeq
<1>3. /\ Len(Tail(Pending(n, m))) = Len(Pending(n, m)) - 1
      /\ \A i \in 1..Len(Tail(Pending(n, m))) : Tail(Pending(n, m))[i] = Pending(n, m)[i + 1]
      /\ Tail(Pending(n, m)) \in Seq(KindSet)
  BY <1>1, <1>2, HeadTailProperties
<1>4. Tail(Pending(n, m)) \in [1..Len(Tail(Pending(n, m))) -> KindSet]
  <2>1. Tail(Pending(n, m)) \in Seq(KindSet)
    BY <1>3
  <2> QED
    BY <2>1, LenProperties, Zenon
<1>5. Len(Pending(n, m)) = m - n
  BY SMT DEF Pending
<1>6. \A i \in 1..(m - (n + 1)) : Tail(Pending(n, m))[i] = AllKinds[(n + 1) + i]
  BY <1>3, <1>5, SMT DEF Pending
<1>7. Tail(Pending(n, m)) = Pending(n + 1, m)
  BY <1>4, <1>3, <1>5, <1>6, SMT DEF Pending
<1> QED
  BY <1>1, <1>7

\* Printing the result of the next check extends the printed prefix.
LEMMA ResStep ==
    ASSUME NEW n \in Nat
    PROVE  Append(Res(Prefix(n)), <<AllKinds[n + 1], Evaluate(AllKinds[n + 1], ctx, ds, env)>>)
             = Res(Prefix(n + 1))
BY SMT DEF Res, Prefix

\* A loop goes on while something is pending.
LEMMA LoopOver ==
    ASSUME NEW n \in Nat, NEW m \in Nat, n <= m
    PROVE  Pending(n, m) = <<>> <=> n = m
BY SMT DEF Pending

\* What the audit derives from its arguments and its context does not
\* change while they do not.
LEMMA ArgsUnchanged ==
    ASSUME cpu' = cpu, nicName' = nicName
    PROVE  ValidCpu' = ValidCpu /\ StartCtx' = StartCtx
BY Zenon DEF ValidCpu, StartCtx

LEMMA CtxUnchanged ==
    ASSUME ds' = ds, env' = env, ctx' = ctx
    PROVE  /\ ExpLen' = ExpLen
           /\ \A n \in Nat : Res(Prefix(n))' = Res(Prefix(n))
BY Zenon DEF ExpLen, Res, Prefix

-----------------------------------------------------------------------------
(* The inductive invariant.                                                *)

\* What one iteration of a check loop changes.
LEMMA EvaluateNextEffect ==
    ASSUME EvaluateNext
    PROVE  /\ pc \in {"system", "core", "nic"} /\ pending # <<>>
           /\ printed' = Append(printed, <<Head(pending), Evaluate(Head(pending), ctx, ds, env)>>)
           /\ pending' = Tail(pending)
           /\ cpu' = cpu /\ nicName' = nicName /\ ds' = ds /\ env' = env
           /\ pc' = pc /\ ctx' = ctx
BY Zenon DEF EvaluateNext

\* An iteration of a loop over the checks n + 1 .. m of AllKinds, n of
\* them printed, prints the next one.
LEMMA EvaluateNextStep ==
    ASSUME EvaluateNext, NEW n \in Nat, NEW m \in Nat, n <= m, m <= 20,
           pending = Pending(n, m), printed = Res(Prefix(n))
    PROVE  /\ n + 1 <= m
           /\ pending' = Pending(n + 1, m)
           /\ printed' = Res(Prefix(n + 1))
<1>0. /\ pending # <<>>
      /\ printed' = Append(printed, <<Head(pending), Evaluate(Head(pending), ctx, ds, env)>>)
      /\ pending' = Tail(pending)
  BY EvaluateNextEffect
<1>1. n # m
  BY <1>0, LoopOver
<1>2. n < m /\ n + 1 <= m /\ n + 1 \in Nat
  BY <1>1
<1>3. Head(pending) = AllKinds[n + 1] /\ Tail(pending) = Pending(n + 1, m)
  BY <1>2, LoopStep
<1>4. Append(Res(Prefix(n)), <<AllKinds[n + 1], Evaluate(AllKinds[n + 1], ctx, ds, env)>>)
        = Res(Prefix(n + 1))
  BY ResStep, Zenon
<1> QED
  BY <1>0, <1>2, <1>3, <1>4, Zenon

\* NicPresent is result 16 of AllKinds.
LEMMA PresencePrints ==
    ASSUME Presence, AtPresence
    PROVE  printed' = Res(Prefix(16))
<1>0. /\ printed' = Append(printed, <<"NicPresent", EvalNicPresent(ctx, ds)>>)
  BY Zenon DEF Presence
<1>1. AllKinds[15 + 1] = "NicPresent" /\ 15 + 1 = 16 /\ 15 \in Nat /\ 16 \in Nat
  BY AllKindsFacts
<1>2. Evaluate("NicPresent", ctx, ds, env) = EvalNicPresent(ctx, ds)
  BY EvaluateNicPresent
<1>3. Append(Res(Prefix(15)), <<AllKinds[15 + 1], Evaluate(AllKinds[15 + 1], ctx, ds, env)>>)
        = Res(Prefix(15 + 1))
  BY <1>1, ResStep, Zenon
<1>4. printed = Res(Prefix(15))
  BY DEF AtPresence
<1> QED
  BY <1>0, <1>1, <1>2, <1>3, <1>4, Zenon

LEMMA InitAuditInv == Init => AuditInv
BY DEF Init, AuditInv, AtStart

\* Stutters and the steps that change neither the stage nor the results
\* keep every stage.
LEMMA AuditInvStep == AuditInv /\ [Next]_vars => AuditInv'
<1> SUFFICES ASSUME AuditInv, [Next]_vars PROVE AuditInv'
  OBVIOUS
<1>0. cpu \in Int
  BY AuditAssumption DEF AuditInv
<1>1. CASE Start
  <2>0. /\ AtStart
        /\ cpu' = cpu /\ nicName' = nicName /\ ds' = ds /\ env' = env
        /\ printed' = printed
        /\ ValidCpu' = ValidCpu /\ StartCtx' = StartCtx
    <3>1. AtStart /\ cpu' = cpu /\ nicName' = nicName /\ ds' = ds /\ env' = env
          /\ printed' = printed
      BY <1>1, Zenon DEF Start, AuditInv, AtStart, InSystem, InCore, AtPresence, InNic,
                         DoneInvalid, DoneValid
    <3> QED
      BY <3>1, ArgsUnchanged
  <2>1. CASE cpu < 0 \/ cpu >= CpuCount
    <3>1. pc' = "done"
      BY <1>1, <2>1, Zenon DEF Start
    <3>2. ~ValidCpu
      BY <1>0, <2>1, AuditAssumption DEF ValidCpu
    <3>3. DoneInvalid'
      BY <2>0, <3>1, <3>2, Zenon DEF AtStart, DoneInvalid
    <3> QED
      BY <2>0, <3>3, Zenon DEF AuditInv
  <2>2. CASE ~(cpu < 0 \/ cpu >= CpuCount)
    <3>1. /\ pc' = "system"
          /\ ctx' = [cpu |-> cpu, nic |-> IF nicName = "" THEN None ELSE nicName]
          /\ pending' = SystemKinds
      BY <1>1, <2>2, Zenon DEF Start
    <3>2. ValidCpu
      BY <1>0, <2>2, AuditAssumption DEF ValidCpu
    <3>3. ctx' = StartCtx'
      BY <2>0, <3>1, Zenon DEF StartCtx
    <3>4. SystemKinds = Pending(0, 5)
      BY AllKindsFacts, SMT DEF Pending, Prefix
    <3>5. Res(Prefix(0)) = <<>>
      BY SMT DEF Res, Prefix
    <3>6. printed' = Res(Prefix(0))'
      <4>1. Res(Prefix(0))' = <<>>
        BY SMT DEF Res, Prefix
      <4> QED
        BY <2>0, <4>1, Zenon DEF AtStart
    <3>7. InSystem'
      <4>1. 0 \in 0..5
        OBVIOUS
      <4> QED
        BY <2>0, <3>1, <3>2, <3>3, <3>4, <3>6, <4>1, Zenon DEF InSystem
    <3> QED
      BY <2>0, <3>7, Zenon DEF AuditInv
  <2> QED
    BY <2>1, <2>2
<1>2. CASE EvaluateNext
  <2>0. /\ pc \in {"system", "core", "nic"}
        /\ cpu' = cpu /\ nicName' = nicName /\ ds' = ds /\ env' = env
        /\ pc' = pc /\ ctx' = ctx
    BY <1>2, EvaluateNextEffect
  <2>1. /\ ValidCpu' = ValidCpu /\ StartCtx' = StartCtx
        /\ \A n \in Nat : Res(Prefix(n))' = Res(Prefix(n))
    BY <2>0, ArgsUnchanged, CtxUnchanged
  <2>2. ASSUME NEW n \in Nat, NEW m \in Nat, n <= m, m <= 20, pending = Pending(n, m),
               printed = Res(Prefix(n))
        PROVE  /\ n + 1 <= m
               /\ pending' = Pending(n + 1, m)
               /\ printed' = Res(Prefix(n + 1))'
    BY <1>2, <2>1, <2>2, EvaluateNextStep
  <2>3. CASE InSystem
    <3>1. PICK n \in 0..5 : printed = Res(Prefix(n)) /\ pending = Pending(n, 5)
      BY <2>3 DEF InSystem
    <3>2. n + 1 \in 0..5 /\ pending' = Pending(n + 1, 5) /\ printed' = Res(Prefix(n + 1))'
      <4>1. n \in Nat /\ n <= 5 /\ 5 \in Nat /\ 5 <= 20
        OBVIOUS
      <4>2. n + 1 <= 5
        BY <3>1, <4>1, <2>2
      <4> QED
        BY <3>1, <4>1, <4>2, <2>2
    <3>3. InSystem'
      BY <2>0, <2>1, <2>3, <3>2, Zenon DEF InSystem
    <3> QED
      BY <2>0, <3>3, Zenon DEF AuditInv
  <2>4. CASE InCore
    <3>1. PICK n \in 5..15 : printed = Res(Prefix(n)) /\ pending = Pending(n, 15)
      BY <2>4 DEF InCore
    <3>2. n + 1 \in 5..15 /\ pending' = Pending(n + 1, 15) /\ printed' = Res(Prefix(n + 1))'
      <4>1. n \in Nat /\ n <= 15 /\ 15 \in Nat /\ 15 <= 20
        OBVIOUS
      <4>2. n + 1 <= 15
        BY <3>1, <4>1, <2>2
      <4> QED
        BY <3>1, <4>1, <4>2, <2>2
    <3>3. InCore'
      BY <2>0, <2>1, <2>4, <3>2, Zenon DEF InCore
    <3> QED
      BY <2>0, <3>3, Zenon DEF AuditInv
  <2>5. CASE InNic
    <3>1. PICK n \in 16..20 : printed = Res(Prefix(n)) /\ pending = Pending(n, 20)
      BY <2>5 DEF InNic
    <3>2. n + 1 \in 16..20 /\ pending' = Pending(n + 1, 20) /\ printed' = Res(Prefix(n + 1))'
      <4>1. n \in Nat /\ n <= 20 /\ 20 \in Nat
        OBVIOUS
      <4>2. n + 1 <= 20
        BY <3>1, <4>1, <2>2
      <4> QED
        BY <3>1, <4>1, <4>2, <2>2
    <3>3. InNic'
      BY <2>0, <2>1, <2>5, <3>2, Zenon DEF InNic
    <3> QED
      BY <2>0, <3>3, Zenon DEF AuditInv
  <2> QED
    BY <2>0, <2>3, <2>4, <2>5, Zenon DEF AuditInv, AtStart, AtPresence, DoneInvalid, DoneValid
<1>3. CASE CoreSection
  <2>0. /\ pc = "system" /\ pending = <<>> /\ pc' = "core" /\ pending' = CoreKinds
        /\ cpu' = cpu /\ nicName' = nicName /\ ds' = ds /\ env' = env
        /\ ctx' = ctx /\ printed' = printed
    BY <1>3, Zenon DEF CoreSection
  <2>1. /\ ValidCpu' = ValidCpu /\ StartCtx' = StartCtx /\ ExpLen' = ExpLen
        /\ \A k \in Nat : Res(Prefix(k))' = Res(Prefix(k))
    BY <2>0, ArgsUnchanged, CtxUnchanged
  <2>2. InSystem
    BY <2>0, Zenon DEF AuditInv, AtStart, InCore, AtPresence, InNic, DoneInvalid, DoneValid
  <2>3. PICK n \in 0..5 : printed = Res(Prefix(n)) /\ pending = Pending(n, 5)
    BY <2>2 DEF InSystem
  <2>4. n = 5
    BY <2>0, <2>3, LoopOver
  <2>5. CoreKinds = Pending(5, 15)
    BY AllKindsFacts
  <2>6. InCore'
    <3>1. 5 \in 5..15
      OBVIOUS
    <3> QED
      BY <2>0, <2>1, <2>2, <2>3, <2>4, <2>5, <3>1, Zenon DEF InSystem, InCore
  <2> QED
    BY <2>0, <2>6, Zenon DEF AuditInv
<1>4. CASE NicSection
  <2>0. /\ pc = "core" /\ pending = <<>>
        /\ pc' = IF ctx.nic # None THEN "presence" ELSE "done"
        /\ cpu' = cpu /\ nicName' = nicName /\ ds' = ds /\ env' = env
        /\ ctx' = ctx /\ pending' = pending /\ printed' = printed
    BY <1>4, Zenon DEF NicSection
  <2>1. /\ ValidCpu' = ValidCpu /\ StartCtx' = StartCtx /\ ExpLen' = ExpLen
        /\ \A k \in Nat : Res(Prefix(k))' = Res(Prefix(k))
    BY <2>0, ArgsUnchanged, CtxUnchanged
  <2>2. InCore
    BY <2>0, Zenon DEF AuditInv, AtStart, InSystem, AtPresence, InNic, DoneInvalid, DoneValid
  <2>3. PICK n \in 5..15 : printed = Res(Prefix(n)) /\ pending = Pending(n, 15)
    BY <2>2 DEF InCore
  <2>4. n = 15
    BY <2>0, <2>3, LoopOver
  <2>5. printed' = Res(Prefix(15))'
    BY <2>0, <2>1, <2>3, <2>4, Zenon
  <2>6. CASE ctx.nic # None
    <3>1. AtPresence'
      BY <2>0, <2>1, <2>2, <2>5, <2>6, Zenon DEF InCore, AtPresence
    <3> QED
      BY <2>0, <3>1, Zenon DEF AuditInv
  <2>7. CASE ctx.nic = None
    <3>1. ExpLen = 15
      BY <2>7 DEF ExpLen
    <3>2. DoneValid'
      BY <2>0, <2>1, <2>2, <2>5, <2>7, <3>1, Zenon DEF InCore, DoneValid
    <3> QED
      BY <2>0, <3>2, Zenon DEF AuditInv
  <2> QED
    BY <2>6, <2>7
<1>5. CASE Presence
  <2>0. /\ pc = "presence"
        /\ printed' = Append(printed, <<"NicPresent", EvalNicPresent(ctx, ds)>>)
        /\ IF EvalNicPresent(ctx, ds) = Pass
           THEN pc' = "nic" /\ pending' = NicKinds
           ELSE pc' = "done"
        /\ cpu' = cpu /\ nicName' = nicName /\ ds' = ds /\ env' = env /\ ctx' = ctx
    BY <1>5, Zenon DEF Presence
  <2>1. /\ ValidCpu' = ValidCpu /\ StartCtx' = StartCtx /\ ExpLen' = ExpLen
        /\ \A k \in Nat : Res(Prefix(k))' = Res(Prefix(k))
    BY <2>0, ArgsUnchanged, CtxUnchanged
  <2>2. AtPresence
    BY <2>0, Zenon DEF AuditInv, AtStart, InSystem, InCore, InNic, DoneInvalid, DoneValid
  <2>3. printed' = Res(Prefix(16))'
    BY <1>5, <2>1, <2>2, PresencePrints, Zenon
  <2>4. CASE EvalNicPresent(ctx, ds) = Pass
    <3>1. pc' = "nic" /\ pending' = NicKinds
      BY <2>0, <2>4, Zenon
    <3>2. NicKinds = Pending(16, 20) /\ 16 \in 16..20
      BY AllKindsFacts
    <3>3. InNic'
      BY <2>1, <2>2, <2>3, <2>4, <2>0, <3>1, <3>2, Zenon DEF AtPresence, InNic
    <3> QED
      BY <2>0, <3>3, Zenon DEF AuditInv
  <2>5. CASE EvalNicPresent(ctx, ds) # Pass
    <3>1. pc' = "done"
      BY <2>0, <2>5, Zenon
    <3>2. ExpLen = 16
      BY <2>2, <2>5 DEF AtPresence, ExpLen
    <3>3. DoneValid'
      BY <2>0, <2>1, <2>2, <2>3, <3>1, <3>2, Zenon DEF AtPresence, DoneValid
    <3> QED
      BY <2>0, <3>3, Zenon DEF AuditInv
  <2> QED
    BY <2>4, <2>5
<1>6. CASE NicDone
  <2>0. /\ pc = "nic" /\ pending = <<>> /\ pc' = "done"
        /\ cpu' = cpu /\ nicName' = nicName /\ ds' = ds /\ env' = env
        /\ ctx' = ctx /\ pending' = pending /\ printed' = printed
    BY <1>6, Zenon DEF NicDone
  <2>1. /\ ValidCpu' = ValidCpu /\ StartCtx' = StartCtx /\ ExpLen' = ExpLen
        /\ \A k \in Nat : Res(Prefix(k))' = Res(Prefix(k))
    BY <2>0, ArgsUnchanged, CtxUnchanged
  <2>2. InNic
    BY <2>0, Zenon DEF AuditInv, AtStart, InSystem, InCore, AtPresence, DoneInvalid, DoneValid
  <2>3. PICK n \in 16..20 : printed = Res(Prefix(n)) /\ pending = Pending(n, 20)
    BY <2>2 DEF InNic
  <2>4. n = 20
    BY <2>0, <2>3, LoopOver
  <2>5. ExpLen = 20
    BY <2>2 DEF InNic, ExpLen
  <2>6. DoneValid'
    BY <2>0, <2>1, <2>2, <2>3, <2>4, <2>5, Zenon DEF InNic, DoneValid
  <2> QED
    BY <2>0, <2>6, Zenon DEF AuditInv
<1>7. CASE Returned \/ UNCHANGED vars
  <2>0. /\ cpu' = cpu /\ nicName' = nicName /\ ds' = ds /\ env' = env
        /\ pc' = pc /\ ctx' = ctx /\ pending' = pending /\ printed' = printed
    BY <1>7, Zenon DEF Returned, vars
  <2>1. /\ ValidCpu' = ValidCpu /\ StartCtx' = StartCtx /\ ExpLen' = ExpLen
        /\ \A k \in Nat : Res(Prefix(k))' = Res(Prefix(k))
    BY <2>0, ArgsUnchanged, CtxUnchanged
  <2>2. 0..5 \subseteq Nat /\ 5..15 \subseteq Nat /\ 16..20 \subseteq Nat /\ ExpLen \in Nat
    BY DEF ExpLen
  <2>3. CASE AtStart \/ DoneInvalid
    BY <2>0, <2>1, <2>3, Zenon DEF AuditInv, AtStart, DoneInvalid
  <2>4. CASE InSystem \/ InCore \/ InNic
    BY <2>0, <2>1, <2>2, <2>4, Zenon DEF AuditInv, InSystem, InCore, InNic
  <2>5. CASE AtPresence \/ DoneValid
    BY <2>0, <2>1, <2>2, <2>5, Zenon DEF AuditInv, AtPresence, DoneValid
  <2> QED
    BY <2>3, <2>4, <2>5 DEF AuditInv
<1> QED
  BY <1>1, <1>2, <1>3, <1>4, <1>5, <1>6, <1>7 DEF Next

-----------------------------------------------------------------------------
(* The order of the report.                                                *)

\* The checks a finished audit has run are the first ExpLen of AllKinds.
LEMMA ExpLenKinds ==
    Prefix(ExpLen) =
        SystemKinds \o CoreKinds \o
        (IF ctx.nic = None THEN <<>>
         ELSE <<"NicPresent">> \o
              (IF EvalNicPresent(ctx, ds) = Pass THEN NicKinds ELSE <<>>))
<1>1. CASE ctx.nic = None
  BY <1>1, AllKindsFacts DEF ExpLen
<1>2. CASE ctx.nic # None /\ EvalNicPresent(ctx, ds) = Pass
  BY <1>2, AllKindsFacts DEF ExpLen
<1>3. CASE ctx.nic # None /\ EvalNicPresent(ctx, ds) # Pass
  BY <1>3, AllKindsFacts DEF ExpLen
<1> QED
  BY <1>1, <1>2, <1>3

\* Once the audit of a valid core returns, what it printed is the first
\* ExpLen results of AllKinds, which is the list AuditOrder spells out.
LEMMA AuditInvOrder == AuditInv => AuditOrder
<1> SUFFICES ASSUME AuditInv, pc = "done", 0 <= cpu, cpu < CpuCount
             PROVE  /\ Kinds(printed) =
                          SystemKinds \o CoreKinds \o
                          (IF ctx.nic = None THEN <<>>
                           ELSE <<"NicPresent">> \o
                                (IF EvalNicPresent(ctx, ds) = Pass THEN NicKinds ELSE <<>>))
                    /\ \A i \in DOMAIN printed :
                          printed[i][2] = Evaluate(printed[i][1], ctx, ds, env)
  BY DEF AuditOrder
<1>1. printed = Res(Prefix(ExpLen))
  <2>1. ValidCpu
    BY DEF ValidCpu
  <2> QED
    BY <2>1, Zenon DEF AuditInv, AtStart, InSystem, InCore, AtPresence, InNic,
                       DoneInvalid, DoneValid
<1>2. Kinds(Res(Prefix(ExpLen))) = Prefix(ExpLen)
  BY SMT DEF Kinds, Res, Prefix, ExpLen
<1>3. Prefix(ExpLen) =
        SystemKinds \o CoreKinds \o
        (IF ctx.nic = None THEN <<>>
         ELSE <<"NicPresent">> \o
              (IF EvalNicPresent(ctx, ds) = Pass THEN NicKinds ELSE <<>>))
  BY ExpLenKinds
<1>4. \A i \in DOMAIN Res(Prefix(ExpLen)) :
        Res(Prefix(ExpLen))[i][2] = Evaluate(Res(Prefix(ExpLen))[i][1], ctx, ds, env)
  BY DEF Res
<1> QED
  BY <1>1, <1>2, <1>3, <1>4

\* Section 6 and 4.3: ReportSystemConfiguration, once it returns for a
\* valid core, has printed the system checks, the core checks and, for a
\* NIC in the context, NicPresent and the NIC checks only if it passed,
\* each with the result of its own check, for every core count and every
\* host.
THEOREM AuditOrderHolds == Spec => []AuditOrder
<1>1. Init => AuditInv
  BY InitAuditInv
<1>2. AuditInv /\ [Next]_vars => AuditInv'
  BY AuditInvStep
<1>3. AuditInv => AuditOrder
  BY AuditInvOrder
<1> QED
  BY <1>1, <1>2, <1>3, PTL DEF Spec

-----------------------------------------------------------------------------
(* Refinement of AuditSpec.                                                *)

\* AuditSpec reads the same check catalog: the operators of Checks that
\* the instance ABS brings in are the ones Audit uses.
LEMMA SameKinds ==
    /\ ABS!SystemKinds = SystemKinds /\ ABS!CoreKinds = CoreKinds
    /\ ABS!NicKinds = NicKinds /\ ABS!Pass = Pass
BY DEF ABS!SystemKinds, SystemKinds, ABS!CoreKinds, CoreKinds, ABS!NicKinds, NicKinds, ABS!Pass, Pass
LEMMA SameNicPresent == ASSUME NEW c, NEW d PROVE ABS!EvalNicPresent(c, d) = EvalNicPresent(c, d)
BY DEF ABS!EvalNicPresent, EvalNicPresent, ABS!NicExists, NicExists, ABS!Pass, Pass, ABS!Unknown, Unknown
LEMMA SameEvaluate == ASSUME NEW k, NEW c, NEW d, NEW e PROVE ABS!Evaluate(k, c, d, e) = Evaluate(k, c, d, e)
BY DEF ABS!Evaluate, Evaluate,
  ABS!EvalPreemptRT, EvalPreemptRT, ABS!EvalSwap, EvalSwap, ABS!EvalTimerMigration, EvalTimerMigration,
  ABS!EvalRtThrottling, EvalRtThrottling, ABS!EvalClocksource, EvalClocksource,
  ABS!EvalCoreIsolated, EvalCoreIsolated, ABS!DualSource, DualSource, ABS!EvalNohzFull, EvalNohzFull,
  ABS!EvalRcuNoCbs, EvalRcuNoCbs, ABS!EvalCpuGovernor, EvalCpuGovernor, ABS!EvalCpuFrequency, EvalCpuFrequency,
  ABS!EvalIrqAffinity, EvalIrqAffinity, ABS!LabelHas, LabelHas, ABS!EvalNoUnrelatedIrqs, EvalNoUnrelatedIrqs,
  ABS!EvalSmtSibling, EvalSmtSibling, ABS!CapParam, CapParam, ABS!EvalCStates, EvalCStates,
  ABS!EvalTurbo, EvalTurbo, ABS!NicExists, NicExists, ABS!EvalNicPresent, EvalNicPresent,
  ABS!EvalNicLinkUp, EvalNicLinkUp, ABS!EvalNicIrqsPinned, EvalNicIrqsPinned,
  ABS!EvalRpsDisabled, EvalRpsDisabled, ABS!EvalNicQuiet, EvalNicQuiet,
  ABS!Pass, Pass, ABS!Fail, Fail, ABS!Unknown, Unknown, ABS!CmdlineFind, CmdlineFind, ABS!Embeds, Embeds,
  ABS!Nic, Nic

\* AuditSpec's expected report is the first ExpLen results of AllKinds
\* once Start has built the context, and empty for an invalid core.
LEMMA ExpectedIsRes ==
    ASSUME cpu \in Int, ValidCpu, ctx = StartCtx
    PROVE  ABS!Expected = Res(Prefix(ExpLen))
<1>1. ABS!Ctx = ctx
  BY Zenon DEF StartCtx, ABS!Ctx
<1>2. ~(cpu < 0 \/ cpu >= CpuCount)
  BY AuditAssumption DEF ValidCpu
<1>3. ABS!Expected =
        ABS!Results(SystemKinds \o CoreKinds \o
                    (IF ABS!Ctx.nic = None THEN <<>>
                     ELSE <<"NicPresent">> \o
                          (IF EvalNicPresent(ABS!Ctx, ds) = Pass THEN NicKinds ELSE <<>>)))
  <2>1. EvalNicPresent(ABS!Ctx, ds) = ABS!EvalNicPresent(ABS!Ctx, ds)
    BY SameNicPresent
  <2> QED
    BY <1>2, <2>1, SameKinds, Zenon DEF ABS!Expected
<1>4. \A k : ABS!Results(k) = Res(k)
  <2>1. \A k, c, d, e : ABS!Evaluate(k, c, d, e) = Evaluate(k, c, d, e)
    BY SameEvaluate
  <2> QED
    BY <1>1, <2>1, Zenon DEF ABS!Results, Res
<1> QED
  BY <1>1, <1>3, <1>4, ExpLenKinds, Zenon

LEMMA ExpectedInvalid ==
    ASSUME cpu \in Int, ~ValidCpu
    PROVE  ABS!Expected = <<>>
<1>1. cpu < 0 \/ cpu >= CpuCount
  BY AuditAssumption DEF ValidCpu
<1> QED
  BY <1>1, Zenon DEF ABS!Expected

\* The lengths of the printed prefixes, and the next result of the
\* expected report.
LEMMA PrefixStep ==
    ASSUME NEW n \in Nat, NEW e \in Nat, n < e
    PROVE  /\ Len(Res(Prefix(n))) = n
           /\ Len(Res(Prefix(e))) = e
           /\ Res(Prefix(n + 1)) = Append(Res(Prefix(n)), Res(Prefix(e))[n + 1])
BY SMT DEF Res, Prefix

\* A step that prints result n + 1 of a report of ExpLen results, and
\* returns only with the last one, is AuditSpec's PrintNext.
LEMMA PrintsNext ==
    ASSUME NEW n \in Nat, n + 1 <= ExpLen, cpu \in Int, ValidCpu, ctx = StartCtx,
           printed = Res(Prefix(n)), printed' = Res(Prefix(n + 1)),
           cpu' = cpu, nicName' = nicName, ds' = ds, env' = env,
           pc # "done", (pc' = "done") => n + 1 = ExpLen
    PROVE  ABS!PrintNext
<1>1. ABS!Expected = Res(Prefix(ExpLen))
  BY ExpectedIsRes
<1>2. /\ ExpLen \in Nat /\ n < ExpLen
      /\ Len(printed) = n /\ Len(ABS!Expected) = ExpLen
      /\ printed' = Append(printed, ABS!Expected[Len(printed) + 1])
  <2>1. ExpLen \in Nat
    BY DEF ExpLen
  <2>2. n < ExpLen
    BY <2>1
  <2> QED
    BY <1>1, <2>1, <2>2, PrefixStep
<1>3. (pc' = "done") => printed' = ABS!Expected
  BY <1>1, Zenon
<1>4. Len(printed) < Len(ABS!Expected)
  BY <1>2
<1> QED
  BY <1>2, <1>3, <1>4, Zenon DEF ABS!PrintNext

\* Returning with the whole report printed is AuditSpec's Finish.
LEMMA Finishes ==
    ASSUME pc # "done", pc' = "done", printed = ABS!Expected, printed' = printed,
           cpu' = cpu, nicName' = nicName, ds' = ds, env' = env
    PROVE  ABS!Finish
BY Zenon DEF ABS!Finish

\* A step that prints nothing and does not return is a stutter of AuditSpec.
LEMMA Stutters ==
    ASSUME pc # "done", pc' # "done", printed' = printed,
           cpu' = cpu, nicName' = nicName, ds' = ds, env' = env
    PROVE  ABS!avars' = ABS!avars
BY Zenon DEF ABS!avars

\* Every step of the dispatcher is a step of AuditSpec or a stutter of it.
LEMMA RefineStep == AuditInv /\ [Next]_vars => [ABS!ANext]_ABS!avars
<1> SUFFICES ASSUME AuditInv, [Next]_vars PROVE [ABS!ANext]_ABS!avars
  OBVIOUS
<1>0. /\ cpu \in Int
      /\ ExpLen \in Nat /\ 15 <= ExpLen
      /\ ctx.nic # None /\ EvalNicPresent(ctx, ds) = Pass => ExpLen = 20
  BY AuditAssumption DEF AuditInv, ExpLen
<1>1. CASE Start
  <2>0. /\ AtStart
        /\ cpu' = cpu /\ nicName' = nicName /\ ds' = ds /\ env' = env
        /\ printed' = printed
    BY <1>1, Zenon DEF Start, AuditInv, AtStart, InSystem, InCore, AtPresence, InNic,
                       DoneInvalid, DoneValid
  <2>1. CASE cpu < 0 \/ cpu >= CpuCount
    <3>1. pc' = "done"
      BY <1>1, <2>1, Zenon DEF Start
    <3>2. ABS!Expected = <<>>
      BY <1>0, <2>1, ExpectedInvalid, AuditAssumption DEF ValidCpu
    <3> QED
      BY <2>0, <3>1, <3>2, Finishes, Zenon DEF AtStart, ABS!ANext
  <2>2. CASE ~(cpu < 0 \/ cpu >= CpuCount)
    <3>1. pc' = "system"
      BY <1>1, <2>2, Zenon DEF Start
    <3> QED
      BY <2>0, <3>1, Stutters, Zenon DEF AtStart
  <2> QED
    BY <2>1, <2>2
<1>2. CASE EvaluateNext
  <2>0. /\ pc \in {"system", "core", "nic"}
        /\ cpu' = cpu /\ nicName' = nicName /\ ds' = ds /\ env' = env
        /\ pc' = pc /\ ctx' = ctx
    BY <1>2, EvaluateNextEffect
  <2>1. ASSUME NEW n \in Nat, NEW m \in Nat, n <= m, m <= ExpLen, m <= 20,
               pending = Pending(n, m), printed = Res(Prefix(n)),
               ValidCpu, ctx = StartCtx
        PROVE  ABS!ANext
    <3>1. n + 1 <= m /\ printed' = Res(Prefix(n + 1))
      BY <1>2, <2>1, EvaluateNextStep
    <3>2. n + 1 <= ExpLen
      BY <1>0, <2>1, <3>1
    <3>3. ABS!PrintNext
      BY <1>0, <2>0, <2>1, <3>1, <3>2, PrintsNext
    <3> QED
      BY <3>3 DEF ABS!ANext
  <2>2. CASE InSystem
    <3>1. PICK n \in 0..5 : printed = Res(Prefix(n)) /\ pending = Pending(n, 5)
      BY <2>2 DEF InSystem
    <3> QED
      BY <1>0, <2>1, <2>2, <3>1 DEF InSystem
  <2>3. CASE InCore
    <3>1. PICK n \in 5..15 : printed = Res(Prefix(n)) /\ pending = Pending(n, 15)
      BY <2>3 DEF InCore
    <3> QED
      BY <1>0, <2>1, <2>3, <3>1 DEF InCore
  <2>4. CASE InNic
    <3>1. PICK n \in 16..20 : printed = Res(Prefix(n)) /\ pending = Pending(n, 20)
      BY <2>4 DEF InNic
    <3>2. ExpLen = 20
      BY <1>0, <2>4 DEF InNic
    <3> QED
      BY <1>0, <2>1, <2>4, <3>1, <3>2 DEF InNic
  <2> QED
    BY <2>0, <2>2, <2>3, <2>4, Zenon DEF AuditInv, AtStart, AtPresence, DoneInvalid, DoneValid
<1>3. CASE CoreSection
  <2>0. /\ pc = "system" /\ pc' = "core"
        /\ cpu' = cpu /\ nicName' = nicName /\ ds' = ds /\ env' = env
        /\ printed' = printed
    BY <1>3, Zenon DEF CoreSection
  <2> QED
    BY <2>0, Stutters, Zenon
<1>4. CASE NicSection
  <2>0. /\ pc = "core" /\ pending = <<>>
        /\ pc' = IF ctx.nic # None THEN "presence" ELSE "done"
        /\ cpu' = cpu /\ nicName' = nicName /\ ds' = ds /\ env' = env
        /\ printed' = printed
    BY <1>4, Zenon DEF NicSection
  <2>1. InCore
    BY <2>0, Zenon DEF AuditInv, AtStart, InSystem, AtPresence, InNic, DoneInvalid, DoneValid
  <2>2. CASE ctx.nic # None
    BY <2>0, <2>2, Stutters, Zenon
  <2>3. CASE ctx.nic = None
    <3>1. PICK n \in 5..15 : printed = Res(Prefix(n)) /\ pending = Pending(n, 15)
      BY <2>1 DEF InCore
    <3>2. n = 15 /\ ExpLen = 15
      BY <2>0, <2>3, <3>1, LoopOver DEF ExpLen
    <3>3. printed = ABS!Expected
      BY <1>0, <2>1, <3>1, <3>2, ExpectedIsRes DEF InCore
    <3> QED
      BY <2>0, <2>3, <3>3, Finishes, Zenon DEF ABS!ANext
  <2> QED
    BY <2>2, <2>3
<1>5. CASE Presence
  <2>0. /\ pc = "presence"
        /\ IF EvalNicPresent(ctx, ds) = Pass THEN pc' = "nic" ELSE pc' = "done"
        /\ cpu' = cpu /\ nicName' = nicName /\ ds' = ds /\ env' = env
    BY <1>5, Zenon DEF Presence
  <2>1. AtPresence
    BY <2>0, Zenon DEF AuditInv, AtStart, InSystem, InCore, InNic, DoneInvalid, DoneValid
  <2>2. printed' = Res(Prefix(16)) /\ printed = Res(Prefix(15))
    BY <1>5, <2>1, PresencePrints DEF AtPresence
  <2>3. (pc' = "done") => 15 + 1 = ExpLen
    BY <2>0, <2>1 DEF AtPresence, ExpLen
  <2>4. 15 + 1 <= ExpLen /\ 15 \in Nat
    BY <2>1 DEF AtPresence, ExpLen
  <2> QED
    BY <1>0, <2>0, <2>1, <2>2, <2>3, <2>4, PrintsNext DEF AtPresence, ABS!ANext
<1>6. CASE NicDone
  <2>0. /\ pc = "nic" /\ pending = <<>> /\ pc' = "done"
        /\ cpu' = cpu /\ nicName' = nicName /\ ds' = ds /\ env' = env
        /\ printed' = printed
    BY <1>6, Zenon DEF NicDone
  <2>1. InNic
    BY <2>0, Zenon DEF AuditInv, AtStart, InSystem, InCore, AtPresence, DoneInvalid, DoneValid
  <2>2. PICK n \in 16..20 : printed = Res(Prefix(n)) /\ pending = Pending(n, 20)
    BY <2>1 DEF InNic
  <2>3. n = 20 /\ ExpLen = 20
    BY <1>0, <2>0, <2>1, <2>2, LoopOver DEF InNic
  <2>4. printed = ABS!Expected
    BY <1>0, <2>1, <2>2, <2>3, ExpectedIsRes DEF InNic
  <2> QED
    BY <2>0, <2>4, Finishes, Zenon DEF ABS!ANext
<1>7. CASE Returned \/ UNCHANGED vars
  BY <1>7, Zenon DEF Returned, vars, ABS!avars
<1> QED
  BY <1>1, <1>2, <1>3, <1>4, <1>5, <1>6, <1>7 DEF Next

\* The dispatcher's initial states are AuditSpec's: nothing printed and
\* not returned.
LEMMA RefineInit == Init => ABS!AInit
BY Zenon DEF Init, ABS!AInit

\* Refinement, safety part: every behaviour of ReportSystemConfiguration
\* is one of AuditSpec, which prints the expected results one at a time,
\* in order, and returns only when all are printed, for every core count,
\* argument and host.  That it does return (AuditSpec's fairness) is
\* checked by TLC as AuditRefinesSpec.
THEOREM AuditRefinesSafety == Spec => ABS!Spec
<1>1. Init => ABS!AInit
  BY RefineInit
<1>2. AuditInv /\ [Next]_vars => [ABS!ANext]_ABS!avars
  BY RefineStep
<1>3. Init => AuditInv
  BY InitAuditInv
<1>4. AuditInv /\ [Next]_vars => AuditInv'
  BY AuditInvStep
<1> QED
  BY <1>1, <1>2, <1>3, <1>4, PTL DEF Spec, ABS!Spec

=============================================================================
