-------------------------- MODULE TryBlocks_proofs --------------------------
(***************************************************************************)
(* Theorems about TryBlocks, for every table of blocks and all bounds.     *)
(***************************************************************************)
EXTENDS TryBlocks, TLAPS

IsSeq(s) == \E S : s \in Seq(S)
Nest(n) == [i \in 1..n |-> i]

(* The links are 1, 2, ... up to the innermost block not yet left, which   *)
(* while no exception is under way is the innermost call.                  *)
Linked ==
    /\ IsSeq(frames)
    /\ Len(chain) \in 1..depth
    /\ chain = Nest(Len(chain))
    /\ pending = "nothing" => Len(chain) = depth

IInv ==
    /\ pc \in {"run", "exit"} \cup Wild
    /\ pc \in Wild => swallowed
    /\ pc = "run" /\ ~swallowed => Linked

LEMMA NestFacts ==
    ASSUME NEW n \in Nat
    PROVE  /\ Nest(n) \in Seq(Nat)
           /\ Len(Nest(n)) = n
           /\ n > 0 => Last(Nest(n)) = n
           /\ n > 0 => Front(Nest(n)) = Nest(n - 1)
           /\ Append(Nest(n), n + 1) = Nest(n + 1)
           /\ \A d \in Nat : n < d => Forget(Nest(n), d) = Nest(n)
  BY DEF Nest, Last, Front, Forget

LEMMA Truncate ==
    ASSUME NEW s, IsSeq(s), NEW k \in 0..Len(s)
    PROVE  IsSeq(SubSeq(s, 1, k)) /\ Len(SubSeq(s, 1, k)) = k
  <1>1. PICK S : s \in Seq(S)
    BY DEF IsSeq
  <1>2. k \in Nat /\ \A i \in 1..k : s[i] \in S
    BY <1>1
  <1>3. SubSeq(s, 1, k) \in Seq(S)
    BY <1>2
  <1>4. Len(SubSeq(s, 1, k)) = k
    BY <1>2
  <1> QED
    BY <1>3, <1>4 DEF IsSeq

LEMMA Extend ==
    ASSUME NEW s, IsSeq(s), NEW e
    PROVE  IsSeq(Append(s, e)) /\ Len(Append(s, e)) = Len(s) + 1 /\ Len(s) \in Nat
  <1>1. PICK S : s \in Seq(S)
    BY DEF IsSeq
  <1>2. s \in Seq(S \cup {e})
    BY <1>1
  <1>3. Append(s, e) \in Seq(S \cup {e}) /\ Len(Append(s, e)) = Len(s) + 1 /\ Len(s) \in Nat
    BY <1>2
  <1> QED
    BY <1>3 DEF IsSeq

(* The chain in a state that runs and has swallowed nothing.               *)
LEMMA Nested ==
    ASSUME IInv, pc = "run", ~swallowed, NEW n, n = Len(chain)
    PROVE  /\ n \in 1..depth /\ n \in Nat /\ depth \in Nat
           /\ chain = Nest(n) /\ Last(chain) = n
           /\ Forget(chain, n + 1) = chain
           /\ n > 1 => Popped(chain) = Nest(n - 1)
           /\ n = 1 => Popped(chain) = Nest(1)
  <1>0. depth \in Nat
    BY Extend DEF IInv, Linked, depth
  <1>1. n \in 1..depth /\ chain = Nest(n) /\ depth \in Nat
    BY <1>0 DEF IInv, Linked
  <1>2. n \in Nat /\ n > 0 /\ n + 1 \in Nat /\ n < n + 1
    BY <1>1
  <1>3. Last(chain) = n /\ Front(chain) = Nest(n - 1) /\ Forget(chain, n + 1) = chain
    BY <1>1, <1>2, NestFacts
  <1>4. n > 1 => Popped(chain) = Nest(n - 1)
    BY <1>3 DEF Popped
  <1>5. n = 1 => Popped(chain) = Nest(1)
    BY <1>1 DEF Popped
  <1> QED
    BY <1>1, <1>2, <1>3, <1>4, <1>5

(* The call at depth d returns and its node has been unlinked.             *)
LEMMA Returned ==
    ASSUME NEW d \in Nat \ {0}, NEW fs, IsSeq(fs), Len(fs) = d,
           NEW ch, NEW rs, ReturnFrom(ch, rs, d, fs),
           d > 1 => ch = Nest(d - 1)
    PROVE  pc' \in {"run", "exit"} /\ (pc' = "run" => Linked')
  <1>1. frames' = SubSeq(fs, 1, d - 1) /\ pc' = (IF d = 1 THEN "exit" ELSE "run")
        /\ chain' = Forget(ch, d)
    BY DEF ReturnFrom
  <1>2. d - 1 \in 0..Len(fs)
    OBVIOUS
  <1>3. IsSeq(frames') /\ Len(frames') = d - 1
    BY <1>1, <1>2, Truncate
  <1>4. CASE d = 1
    BY <1>1, <1>3, <1>4
  <1>5. CASE d > 1
    <2>1. d - 1 \in Nat /\ d - 1 < d /\ d - 1 > 0
      BY <1>5
    <2>2. Forget(Nest(d - 1), d) = Nest(d - 1) /\ Len(Nest(d - 1)) = d - 1
      BY <2>1, NestFacts
    <2>3. chain' = Nest(d - 1)
      BY <1>1, <1>5, <2>2
    <2>4. Len(chain') = d - 1
      BY <2>2, <2>3
    <2>5. depth' = d - 1
      BY <1>3 DEF depth
    <2>6. Linked'
      BY <1>3, <2>1, <2>3, <2>4, <2>5 DEF Linked
    <2> QED
      BY <1>1, <2>6
  <1> QED
    BY <1>4, <1>5

LEMMA StepIInv ==
    ASSUME IInv, [Next]_vars
    PROVE  IInv'
  <1>0. pc = "run" /\ ~swallowed =>
           IsSeq(frames) /\ depth \in Nat \ {0} /\ depth = Len(frames)
    BY Nested DEF IInv, Linked, depth
  <1>1. ASSUME NEW s \in Site, Enter(s)
        PROVE  IInv'
    <2>1. frames' = Append(frames, [site |-> s, saved |-> Len(rstk)])
          /\ chain' = Append(chain, depth + 1) /\ pc = "run" /\ pending = "nothing"
          /\ UNCHANGED <<rstk, pending, swallowed, pc>>
      BY <1>1 DEF Enter, Running
    <2>2. ASSUME ~swallowed PROVE Linked'
      <3>1. Len(chain) = depth
        BY <2>1, <2>2 DEF IInv, Linked
      <3>2. chain = Nest(depth)
        BY <2>1, <2>2, <3>1, Nested
      <3>n. depth \in Nat /\ depth + 1 \in Nat
        BY <1>0, <2>1, <2>2
      <3>3. chain' = Nest(depth + 1)
        BY <2>1, <3>2, <3>n, NestFacts
      <3>5. Len(chain') = depth + 1
        BY <3>3, <3>n, NestFacts
      <3>4. IsSeq(frames') /\ Len(frames') = depth + 1
        BY <1>0, <2>1, <2>2, Extend
      <3> QED
        BY <3>n, <3>3, <3>4, <3>5 DEF Linked, depth
    <2> QED
      BY <2>1, <2>2 DEF IInv, Wild
  <1>2. CASE Protect \/ Unprotect \/ \E c \in Code : Throw(c)
    BY <1>2 DEF Protect, Unprotect, Throw, Running, IInv, Linked, depth
  <1>3. CASE Leave
    <2>1. ReturnFrom(Popped(chain), rstk, depth, frames) /\ UNCHANGED <<pending, swallowed>>
          /\ pc = "run" /\ pending = "nothing"
      BY <1>3 DEF Leave, Running
    <2>2. pc' \in {"run", "exit"}
      BY <2>1 DEF ReturnFrom
    <2>3. ASSUME ~swallowed, pc' = "run" PROVE Linked'
      <3>1. Len(chain) = depth
        BY <2>1, <2>3 DEF IInv, Linked
      <3>2. depth > 1 => Popped(chain) = Nest(depth - 1)
        BY <2>1, <2>3, <3>1, Nested
      <3> QED
        BY <1>0, <2>1, <2>3, <3>1, <3>2, Returned
    <2> QED
      BY <2>1, <2>2, <2>3 DEF IInv, Wild
  <1>4. CASE LeaveWild \/ RaiseWild
    <2>1. pc = "run" /\ Last(chain) = 0
      BY <1>4 DEF LeaveWild, RaiseWild, Running, Raising
    <2>2. swallowed
      <3> SUFFICES ASSUME ~swallowed PROVE FALSE
        OBVIOUS
      <3>1. Last(chain) = Len(chain) /\ Len(chain) \in 1..depth
        BY <2>1, Nested
      <3> QED
        BY <2>1, <3>1
    <2> QED
      BY <1>4, <2>2 DEF LeaveWild, RaiseWild, IInv, Wild
  <1>5. ASSUME Catch \/ Retry \/ Rethrow, ~swallowed
        PROVE  IInv'
    <2> DEFINE d == Len(chain)
    <2>1. pc = "run" /\ Landing /\ ~swallowed'
      BY <1>5 DEF Catch, Retry, Rethrow, Landing, Raising
    <2>0. \A n : n = Len(chain) =>
            /\ n \in 1..depth /\ n \in Nat /\ depth \in Nat
            /\ chain = Nest(n) /\ Last(chain) = n
            /\ Forget(chain, n + 1) = chain
            /\ n > 1 => Popped(chain) = Nest(n - 1)
            /\ n = 1 => Popped(chain) = Nest(1)
      <3> HIDE DEF d
      <3> QED
        BY <1>5, <2>1, Nested
    <2>a. d \in Nat \ {0}
      BY <2>0
    <2>2. /\ d \in 1..depth /\ d \in Nat \ {0} /\ Last(chain) = d
          /\ chain = Nest(d) /\ Forget(chain, d + 1) = chain
          /\ d > 1 => Popped(chain) = Nest(d - 1)
          /\ d = 1 => Popped(chain) = Nest(1)
      BY <2>0, <2>a
    <2> HIDE DEF d
    <2>3. IsSeq(Landed(d)) /\ Len(Landed(d)) = d
      BY <1>0, <1>5, <2>1, <2>2, Truncate DEF Landed, Landing, Raising
    <2>4. CASE Catch
      <3>1. ReturnFrom(Popped(chain), LandedRoots(d), d, Landed(d))
        BY <2>2, <2>4 DEF Catch
      <3>2. pc' \in {"run", "exit"} /\ (pc' = "run" => Linked')
        BY <2>2, <2>3, <3>1, Returned
      <3> QED
        BY <2>1, <3>2 DEF IInv, Wild
    <2>5. CASE Retry
      <3>1. /\ chain' = IF Last(Popped(chain)) = d THEN Popped(chain)
                        ELSE Append(Popped(chain), d)
            /\ frames' = Landed(d) /\ UNCHANGED pc
        BY <2>2, <2>5 DEF Retry
      <3>2. chain' = Nest(d)
        <4>1. CASE d = 1
          <5>1. Last(Nest(1)) = 1
            BY NestFacts
          <5> QED
            BY <2>2, <3>1, <4>1, <5>1
        <4>2. CASE d > 1
          <5>1. d - 1 \in Nat /\ d - 1 > 0 /\ (d - 1) + 1 = d
            BY <2>2, <4>2
          <5>2. Last(Nest(d - 1)) = d - 1 /\ Append(Nest(d - 1), (d - 1) + 1) = Nest((d - 1) + 1)
            BY <5>1, NestFacts
          <5> QED
            BY <2>2, <3>1, <4>2, <5>1, <5>2
        <4> QED
          BY <2>2, <4>1, <4>2
      <3>3. Len(chain') = d
        BY <2>a, <3>2, NestFacts
      <3>5. depth' = d /\ IsSeq(frames')
        BY <2>3, <3>1 DEF depth
      <3>6. d \in 1..d
        BY <2>a
      <3>4. Linked'
        BY <3>2, <3>3, <3>5, <3>6 DEF Linked
      <3> QED
        BY <2>1, <3>1, <3>4 DEF IInv, Wild
    <2>6. CASE Rethrow
      <3>1. chain' = Popped(chain) /\ frames' = Landed(d) /\ UNCHANGED <<pending, pc>>
            /\ pending # "nothing"
        BY <2>2, <2>6 DEF Rethrow, Landing, Raising
      <3>2. depth' = d
        BY <2>3, <3>1 DEF depth
      <3>3. \E m \in 1..d : chain' = Nest(m) /\ Len(chain') = m
        <4>1. CASE d = 1
          <5>1. chain' = Nest(d) /\ d \in 1..d
            BY <2>2, <3>1, <4>1
          <5>2. Len(Nest(d)) = d
            BY <2>a, NestFacts
          <5> QED
            BY <5>1, <5>2
        <4>2. CASE d > 1
          <5>1. d - 1 \in Nat /\ d - 1 \in 1..d
            BY <2>2, <4>2
          <5> QED
            BY <2>2, <3>1, <4>2, <5>1, NestFacts
        <4> QED
          BY <2>2, <4>1, <4>2
      <3>4. Linked'
        BY <2>2, <2>3, <3>1, <3>2, <3>3 DEF Linked
      <3> QED
        BY <2>1, <2>3, <3>1, <3>4 DEF IInv, Wild
    <2> QED
      BY <1>5, <2>4, <2>5, <2>6
  <1>6. ASSUME Catch \/ Retry \/ Rethrow \/ Swallow, swallowed'
        PROVE  IInv'
    <2>1. pc = "run"
      BY <1>6 DEF Catch, Retry, Rethrow, Swallow, Landing, Raising
    <2>2. pc' \in {"run", "exit"}
      BY <1>6, <2>1 DEF Catch, Retry, Rethrow, Swallow, ReturnFrom
    <2> QED
      BY <1>6, <2>2 DEF IInv, Wild
  <1>7. CASE Ended \/ UNCHANGED vars
    BY <1>7 DEF Ended, vars, IInv, Linked, depth
  <1>8. ASSUME Catch \/ Retry \/ Rethrow \/ Swallow
        PROVE  IInv'
    <2>1. Swallow => swallowed'
      BY DEF Swallow
    <2>2. Catch \/ Retry \/ Rethrow => swallowed' = swallowed
      BY DEF Catch, Retry, Rethrow
    <2> QED
      BY <1>5, <1>6, <1>8, <2>1, <2>2
  <1> QED
    BY <1>1, <1>2, <1>3, <1>4, <1>7, <1>8 DEF Next, Raised

-----------------------------------------------------------------------------
LEMMA InitIInv == Init => IInv
  <1> SUFFICES ASSUME Init PROVE IInv
    OBVIOUS
  <1>1. frames = <<[site |-> Main, saved |-> 0]>> /\ chain = <<1>> /\ pc = "run"
    BY DEF Init
  <1>2. frames \in Seq({[site |-> Main, saved |-> 0]}) /\ Len(frames) = 1
    BY <1>1
  <1>3. IsSeq(frames) /\ depth = 1
    BY <1>2 DEF depth, IsSeq
  <1>4. chain = Nest(1) /\ Len(chain) = 1
    BY <1>1 DEF Nest
  <1> QED
    BY <1>1, <1>3, <1>4 DEF IInv, Linked, Wild

(* An exception, and a block that ends, never meet the node of a function  *)
(* that has returned, whatever the table of blocks, as long as each        *)
(* exception finds a clause.                                               *)
THEOREM NoWildWithoutSwallow == Spec => []WildOnlyAfterSwallow
  <1>1. IInv => WildOnlyAfterSwallow
    BY DEF IInv, WildOnlyAfterSwallow
  <1> QED
    BY <1>1, InitIInv, StepIInv, PTL DEF Spec

(* Then the chain is the nesting of the live blocks, at any depth.         *)
THEOREM ChainFollowsNesting == Spec => []ChainIsNesting
  <1>1. IInv => ChainIsNesting
    <2> SUFFICES ASSUME IInv, Running, ~swallowed PROVE chain = [i \in 1..depth |-> i]
      BY DEF ChainIsNesting
    <2> QED
      BY DEF IInv, Linked, Running, Nest
  <1> QED
    BY <1>1, InitIInv, StepIInv, PTL DEF Spec
-----------------------------------------------------------------------------
(* Sequences of numbers up to n, as the chain and the R-stack are.         *)
LEMMA UpTo ==
    ASSUME NEW n \in Nat, NEW s \in Seq(0..n)
    PROVE  /\ Len(s) \in Nat /\ \A i \in 1..Len(s) : s[i] \in 0..n
           /\ \A m \in Nat : n <= m => s \in Seq(0..m)
           /\ \A e \in 0..n : Append(s, e) \in Seq(0..n)
  <1>1. Len(s) \in Nat /\ \A i \in 1..Len(s) : s[i] \in 0..n
    OBVIOUS
  <1>2. ASSUME NEW m \in Nat, n <= m PROVE s \in Seq(0..m)
    BY <1>1, <1>2
  <1> QED
    BY <1>1, <1>2

LEMMA CutTo ==
    ASSUME NEW S, NEW s \in Seq(S), NEW k \in 0..Len(s)
    PROVE  /\ SubSeq(s, 1, k) \in Seq(S) /\ Len(SubSeq(s, 1, k)) = k
           /\ \A i \in 1..k : SubSeq(s, 1, k)[i] = s[i]
  <1>1. k \in Nat /\ \A i \in 1..k : s[i] \in S
    OBVIOUS
  <1> QED
    BY <1>1

LEMMA ElementOf ==
    ASSUME NEW S, NEW s \in Seq(S)
    PROVE  Len(s) \in Nat /\ \A i \in 1..Len(s) : s[i] \in S
  OBVIOUS

LEMMA LastAndFront ==
    ASSUME NEW S, NEW s \in Seq(S), s # <<>>
    PROVE  /\ Last(s) \in S /\ Last(s) = s[Len(s)] /\ Len(s) \in Nat \ {0}
           /\ Front(s) \in Seq(S) /\ Len(Front(s)) = Len(s) - 1
           /\ \A i \in 1..Len(s) - 1 : Front(s)[i] = s[i]
  <1>1. Len(s) \in Nat \ {0} /\ Len(s) - 1 \in 0..Len(s)
    OBVIOUS
  <1>2. Front(s) = SubSeq(s, 1, Len(s) - 1) /\ Last(s) = s[Len(s)]
    BY DEF Front, Last
  <1>3. Last(s) \in S
    BY <1>1, <1>2
  <1>4. \A k \in 0..Len(s) :
           /\ SubSeq(s, 1, k) \in Seq(S) /\ Len(SubSeq(s, 1, k)) = k
           /\ \A i \in 1..k : SubSeq(s, 1, k)[i] = s[i]
    BY CutTo
  <1> QED
    BY <1>1, <1>2, <1>3, <1>4

LEMMA Forgotten ==
    ASSUME NEW n \in Nat, NEW s \in Seq(0..n), NEW d \in Nat \ {0}
    PROVE  /\ Forget(s, d) \in Seq(0..d - 1) /\ Len(Forget(s, d)) = Len(s)
           /\ \A i \in 1..Len(s) : Forget(s, d)[i] = IF s[i] < d THEN s[i] ELSE 0
           /\ s # <<>> => Forget(s, d) # <<>>
  <1>1. Len(s) \in Nat /\ \A i \in 1..Len(s) : s[i] \in 0..n
    OBVIOUS
  <1>2. \A i \in 1..Len(s) : (IF s[i] < d THEN s[i] ELSE 0) \in 0..d - 1
    BY <1>1
  <1>3. Forget(s, d) \in Seq(0..d - 1) /\ Len(Forget(s, d)) = Len(s)
        /\ \A i \in 1..Len(s) : Forget(s, d)[i] = IF s[i] < d THEN s[i] ELSE 0
    BY <1>1, <1>2 DEF Forget
  <1>4. s # <<>> => Len(s) # 0
    BY <1>1
  <1> QED
    BY <1>3, <1>4

LEMMA PoppedType ==
    ASSUME NEW n \in Nat, NEW s \in Seq(0..n), s # <<>>
    PROVE  Popped(s) \in Seq(0..n) /\ Popped(s) # <<>>
  <1>1. CASE Len(s) > 1
    <2>1. Popped(s) = Front(s) /\ Len(Front(s)) = Len(s) - 1 /\ Front(s) \in Seq(0..n)
      BY <1>1, LastAndFront DEF Popped
    <2> QED
      BY <1>1, <2>1
  <1>2. CASE ~(Len(s) > 1)
    BY <1>2 DEF Popped
  <1> QED
    BY <1>1, <1>2


-----------------------------------------------------------------------------
Call == [site : Site, saved : Nat]

(* What a call saved is a height the R-stack still has; below it lie only  *)
(* entries of outer calls.                                                 *)
Heights(fs, rs) ==
    /\ \A e \in 1..Len(fs) :
          fs[e].saved <= Len(rs) /\ \A i \in 1..fs[e].saved : rs[i] < e
    /\ \A e, f \in 1..Len(fs) : e <= f => fs[e].saved <= fs[f].saved

TInv ==
    /\ TypeOK
    /\ chain # <<>>
    /\ pc = "run" => Heights(frames, rstk)

LEMMA CallFacts ==
    ASSUME NEW fs \in Seq(Call)
    PROVE  /\ Len(fs) \in Nat
           /\ \A e \in 1..Len(fs) : fs[e].saved \in Nat /\ fs[e].site \in Site
  <1>1. Len(fs) \in Nat /\ \A e \in 1..Len(fs) : fs[e] \in Call
    OBVIOUS
  <1> QED
    BY <1>1 DEF Call

(* Fewer calls, and an R-stack that was cut or where entries were lost.    *)
Outer(gs, fs) == Len(gs) <= Len(fs) /\ \A e \in 1..Len(gs) : gs[e] = fs[e]
Below(qs, rs) == Len(qs) <= Len(rs) /\ \A i \in 1..Len(qs) : qs[i] <= rs[i]
Fits(gs, qs) == \A e \in 1..Len(gs) : gs[e].saved <= Len(qs)

LEMMA HeightsKept ==
    ASSUME NEW fs \in Seq(Call), NEW gs \in Seq(Call), Outer(gs, fs),
           NEW n \in Nat, NEW rs \in Seq(0..n), NEW m \in Nat, NEW qs \in Seq(0..m),
           Below(qs, rs), Fits(gs, qs), Heights(fs, rs)
    PROVE  Heights(gs, qs)
  <1>1. \A e \in 1..Len(gs) : e \in 1..Len(fs) /\ gs[e].saved = fs[e].saved /\ gs[e].saved \in Nat
    BY CallFacts DEF Outer
  <1>2. ASSUME NEW e \in 1..Len(gs), NEW i \in 1..gs[e].saved PROVE qs[i] < e
    <2>q. Len(qs) \in Nat /\ Len(rs) \in Nat
      BY ElementOf
    <2>r. Len(qs) <= Len(rs) /\ gs[e].saved <= Len(qs)
      BY DEF Below, Fits
    <2>0. gs[e].saved \in Nat /\ gs[e].saved <= Len(qs)
      BY <1>1, <2>r
    <2>1. i \in 1..Len(qs) /\ i \in 1..Len(rs) /\ e \in Nat
      BY <2>0, <2>q, <2>r, SMTT(20)
    <2>a. qs[i] \in 0..m /\ rs[i] \in 0..n
      BY <2>1, ElementOf, Zenon
    <2>b. qs[i] <= rs[i]
      BY <2>1 DEF Below
    <2>2. qs[i] \in Nat /\ rs[i] \in Nat /\ qs[i] <= rs[i]
      BY <2>a, <2>b
    <2>3. rs[i] < e
      BY <1>1 DEF Heights
    <2>4. \A a, b, c \in Nat : a <= b /\ b < c => a < c
      OBVIOUS
    <2> QED
      BY <2>1, <2>2, <2>3, <2>4
  <1>3. \A e, f \in 1..Len(gs) : e <= f => gs[e].saved <= gs[f].saved
    BY <1>1 DEF Heights
  <1> QED
    BY <1>2, <1>3 DEF Heights, Fits

(* What the unwound R-stack is in a return.                                *)
Unwound(rs, d, fs) == IF fs[d].site \in Saves THEN SubSeq(rs, 1, fs[d].saved) ELSE rs

LEMMA UnwoundFacts ==
    ASSUME NEW d \in Nat \ {0}, NEW fs \in Seq(Call), Len(fs) = d,
           NEW n \in Nat, NEW rs \in Seq(0..n), Heights(fs, rs)
    PROVE  /\ Unwound(rs, d, fs) \in Seq(0..n)
           /\ Len(Unwound(rs, d, fs)) \in fs[d].saved..Len(rs)
           /\ fs[d].site \in Saves => Len(Unwound(rs, d, fs)) = fs[d].saved
           /\ fs[d].site \notin Saves => Unwound(rs, d, fs) = rs
           /\ \A i \in 1..Len(Unwound(rs, d, fs)) : Unwound(rs, d, fs)[i] = rs[i]
  <1>1. d \in 1..Len(fs) /\ fs[d].saved \in Nat /\ fs[d].saved <= Len(rs) /\ Len(rs) \in Nat
    BY CallFacts DEF Heights
  <1>2. fs[d].saved \in 0..Len(rs)
    BY <1>1
  <1>3. /\ SubSeq(rs, 1, fs[d].saved) \in Seq(0..n) /\ Len(SubSeq(rs, 1, fs[d].saved)) = fs[d].saved
        /\ \A i \in 1..fs[d].saved : SubSeq(rs, 1, fs[d].saved)[i] = rs[i]
    BY <1>2, CutTo
  <1>4. Len(rs) \in fs[d].saved..Len(rs) /\ fs[d].saved \in fs[d].saved..Len(rs)
    BY <1>1
  <1>5. CASE fs[d].site \in Saves
    BY <1>3, <1>4, <1>5 DEF Unwound
  <1>6. CASE fs[d].site \notin Saves
    BY <1>4, <1>6 DEF Unwound
  <1> QED
    BY <1>5, <1>6

(* The types after a return: fs, ch and rs are as the jump to block d, or  *)
(* the end of block d, left them.                                          *)
LEMMA ReturnTyped ==
    ASSUME NEW d \in Nat \ {0}, NEW fs \in Seq(Call), Len(fs) = d,
           NEW n \in Nat, NEW ch \in Seq(0..n), ch # <<>>, NEW rs \in Seq(0..n),
           Heights(fs, rs), ReturnFrom(ch, rs, d, fs)
    PROVE  /\ frames' \in Seq(Call) /\ Len(frames') = d - 1
           /\ chain' \in Seq(0..d - 1) /\ chain' # <<>>
           /\ rstk' \in Seq(0..d - 1)
           /\ pc' \in {"run", "exit"} /\ (pc' = "run" => d - 1 > 0)
           /\ Heights(frames', rstk')
  <1> DEFINE us == Unwound(rs, d, fs)
  <1>1. chain' = Forget(ch, d) /\ rstk' = Forget(us, d) /\ frames' = SubSeq(fs, 1, d - 1)
        /\ pc' = IF d = 1 THEN "exit" ELSE "run"
    BY DEF ReturnFrom, Unwound
  <1>2. d - 1 \in Nat /\ d - 1 \in 0..Len(fs)
    OBVIOUS
  <1>3. /\ frames' \in Seq(Call) /\ Len(frames') = d - 1
        /\ \A e \in 1..Len(frames') : frames'[e] = fs[e]
    BY <1>1, <1>2, CutTo
  <1>4. chain' \in Seq(0..d - 1) /\ chain' # <<>>
    BY <1>1, Forgotten
  <1>5. /\ us \in Seq(0..n) /\ Len(us) \in fs[d].saved..Len(rs)
        /\ \A i \in 1..Len(us) : us[i] = rs[i]
    BY UnwoundFacts
  <1> HIDE DEF us
  <1>6. /\ rstk' \in Seq(0..d - 1) /\ Len(rstk') = Len(us)
        /\ \A i \in 1..Len(us) : rstk'[i] = IF us[i] < d THEN us[i] ELSE 0
    BY <1>1, <1>5, Forgotten
  <1>7. \A e \in 1..Len(fs) : fs[e].saved \in Nat /\ fs[e].saved <= fs[d].saved
    BY CallFacts DEF Heights
  <1>8. Len(rstk') <= Len(rs) /\ Len(rs) \in Nat /\ Len(us) \in Nat
    BY <1>5, <1>6, <1>7
  <1>9. ASSUME NEW i \in 1..Len(rstk') PROVE rstk'[i] <= rs[i]
    <2>1. i \in 1..Len(us) /\ i \in 1..Len(rs)
      BY <1>6, <1>8
    <2>a. rs[i] \in 0..n /\ us[i] = rs[i]
      BY <1>5, <2>1, ElementOf, Zenon
    <2>2. rs[i] \in Nat /\ us[i] = rs[i]
      BY <2>a
    <2>3. rstk'[i] = IF us[i] < d THEN us[i] ELSE 0
      BY <1>6, <2>1, Zenon
    <2> QED
      BY <2>2, <2>3
  <1>10. \A e \in 1..Len(frames') : frames'[e].saved <= Len(rstk')
    BY <1>3, <1>5, <1>6, <1>7, <1>8
  <1>11. Heights(frames', rstk')
    <2>1. Outer(frames', fs) /\ Below(rstk', rs) /\ Fits(frames', rstk')
      BY <1>2, <1>3, <1>8, <1>9, <1>10 DEF Outer, Below, Fits
    <2> QED
      BY <1>2, <1>3, <1>6, <2>1, HeightsKept
  <1> QED
    BY <1>1, <1>3, <1>4, <1>6, <1>11


LEMMA LandFacts ==
    ASSUME TInv, Landing, NEW d, d = Last(chain)
    PROVE  /\ d \in Nat \ {0} /\ d \in 1..depth /\ d - 1 \in Nat /\ d - 1 <= d
           /\ Landed(d) \in Seq(Call) /\ Len(Landed(d)) = d /\ Outer(Landed(d), frames)
           /\ LandedRoots(d) \in Seq(0..d) /\ LandedRoots(d) \in Seq(0..d - 1)
           /\ Len(LandedRoots(d)) = Len(rstk)
           /\ \A i \in 1..Len(rstk) : LandedRoots(d)[i] = IF rstk[i] < d THEN rstk[i] ELSE 0
           /\ Forget(chain, d + 1) \in Seq(0..d) /\ Forget(chain, d + 1) # <<>>
           /\ Heights(Landed(d), LandedRoots(d))
           /\ pc = "run" /\ pending # "nothing" /\ pending \in Code
  <1>1. /\ frames \in Seq(Call) /\ Len(frames) = depth /\ depth \in Nat
        /\ chain \in Seq(0..depth) /\ chain # <<>> /\ rstk \in Seq(0..depth)
        /\ pc = "run" /\ pending # "nothing" /\ pending \in Code /\ d # 0
        /\ Heights(frames, rstk)
    BY DEF TInv, TypeOK, Landing, Raising, Call, depth
  <1>a. d \in 0..depth
    BY <1>1, LastAndFront
  <1>2. d \in 1..depth /\ d \in Nat \ {0} /\ d - 1 \in Nat /\ d - 1 <= d /\ d + 1 \in Nat \ {0}
        /\ (d + 1) - 1 = d
    BY <1>1, <1>a
  <1>3. /\ Landed(d) \in Seq(Call) /\ Len(Landed(d)) = d
        /\ \A e \in 1..d : Landed(d)[e] = frames[e]
    BY <1>1, <1>2, CutTo DEF Landed
  <1>4. Outer(Landed(d), frames)
    BY <1>1, <1>2, <1>3 DEF Outer
  <1>5. /\ LandedRoots(d) \in Seq(0..d - 1) /\ Len(LandedRoots(d)) = Len(rstk)
        /\ \A i \in 1..Len(rstk) : LandedRoots(d)[i] = IF rstk[i] < d THEN rstk[i] ELSE 0
    BY <1>1, <1>2, Forgotten DEF LandedRoots
  <1>6. LandedRoots(d) \in Seq(0..d)
    BY <1>2, <1>5, UpTo
  <1>7. Forget(chain, d + 1) \in Seq(0..d) /\ Forget(chain, d + 1) # <<>>
    BY <1>1, <1>2, Forgotten
  <1>8. Below(LandedRoots(d), rstk)
    <2>1. Len(rstk) \in Nat /\ \A i \in 1..Len(rstk) : rstk[i] \in 0..depth
      BY <1>1, UpTo
    <2> QED
      BY <1>1, <1>5, <2>1 DEF Below
  <1>9. Fits(Landed(d), LandedRoots(d))
    BY <1>1, <1>2, <1>3, <1>5 DEF Heights, Fits
  <1>10. Heights(Landed(d), LandedRoots(d))
    BY <1>1, <1>2, <1>3, <1>4, <1>6, <1>8, <1>9, HeightsKept
  <1> QED
    BY <1>1, <1>2, <1>3, <1>4, <1>5, <1>6, <1>7, <1>10

LEMMA StepTyped ==
    ASSUME TInv, [Next]_vars
    PROVE  TInv'
  <1>0. /\ frames \in Seq(Call) /\ Len(frames) = depth /\ depth \in Nat
        /\ chain \in Seq(0..depth) /\ chain # <<>> /\ rstk \in Seq(0..depth)
        /\ pc = "run" => depth \in Nat \ {0} /\ Heights(frames, rstk)
        /\ pending \in Code \cup {"nothing"} /\ swallowed \in BOOLEAN
        /\ pc \in {"run", "exit"} \cup Wild
    BY DEF TInv, TypeOK, Call, depth
  <1>t. /\ frames' \in Seq(Call) /\ depth' \in Nat
        /\ chain' \in Seq(0..depth') /\ chain' # <<>> /\ rstk' \in Seq(0..depth')
        /\ pc' = "run" => depth' > 0 /\ Heights(frames', rstk')
        /\ pending' \in Code \cup {"nothing"} /\ swallowed' \in BOOLEAN
        /\ pc' \in {"run", "exit"} \cup Wild
        => TInv'
    BY DEF TInv, TypeOK, Call
  <1>1. ASSUME NEW s \in Site, Enter(s)
        PROVE  TInv'
    <2> DEFINE f == [site |-> s, saved |-> Len(rstk)]
    <2>1. /\ frames' = Append(frames, f) /\ chain' = Append(chain, depth + 1)
          /\ pc = "run" /\ UNCHANGED <<rstk, pending, swallowed, pc>>
      BY <1>1 DEF Enter, Running
    <2>2. Len(rstk) \in Nat /\ (\A i \in 1..Len(rstk) : rstk[i] \in 0..depth) /\ f \in Call
          /\ f.saved = Len(rstk)
      BY <1>0, UpTo DEF Call
    <2> HIDE DEF f
    <2>3. /\ frames' \in Seq(Call) /\ Len(frames') = depth + 1
          /\ frames'[depth + 1] = f /\ \A e \in 1..depth : frames'[e] = frames[e]
      BY <1>0, <2>1, <2>2
    <2>4. depth' = depth + 1 /\ depth + 1 \in Nat /\ depth <= depth + 1
      BY <1>0, <2>3 DEF depth
    <2>5. chain' \in Seq(0..depth') /\ chain' # <<>>
      <3>1. chain \in Seq(0..depth + 1) /\ depth + 1 \in 0..depth + 1
        BY <1>0, <2>4, UpTo
      <3> QED
        BY <2>1, <2>4, <3>1
    <2>6. rstk' \in Seq(0..depth')
      BY <1>0, <2>1, <2>4, UpTo
    <2>7. Heights(frames', rstk')
      <3>1. \A e \in 1..depth : frames[e].saved <= Len(rstk) /\ frames[e].saved \in Nat
        BY <1>0, <2>1, CallFacts DEF Heights
      <3>2. ASSUME NEW e \in 1..Len(frames')
            PROVE  /\ frames'[e].saved <= Len(rstk)
                   /\ \A i \in 1..frames'[e].saved : rstk[i] < e
        <4>1. CASE e = depth + 1
          <5>1. frames'[e].saved = Len(rstk)
            BY <2>2, <2>3, <4>1
          <5>2. \A i \in 1..Len(rstk) : rstk[i] < e
            BY <1>0, <2>2, <4>1
          <5> QED
            BY <2>2, <5>1, <5>2
        <4>2. CASE e # depth + 1
          <5>1. e \in 1..depth
            BY <1>0, <2>3, <4>2
          <5> QED
            BY <1>0, <2>1, <2>3, <5>1 DEF Heights
        <4> QED
          BY <4>1, <4>2
      <3>3. ASSUME NEW e \in 1..Len(frames'), NEW h \in 1..Len(frames'), e <= h
            PROVE  frames'[e].saved <= frames'[h].saved
        <4>1. CASE h = depth + 1
          <5>1. frames'[h].saved = Len(rstk)
            BY <2>2, <2>3, <4>1
          <5> QED
            BY <3>2, <5>1
        <4>2. CASE h # depth + 1
          <5>1. h \in 1..depth /\ e \in 1..depth
            BY <1>0, <2>3, <3>3, <4>2
          <5> QED
            BY <1>0, <2>1, <2>3, <3>3, <5>1 DEF Heights
        <4> QED
          BY <4>1, <4>2
      <3> QED
        BY <2>1, <3>2, <3>3 DEF Heights
    <2> QED
      BY <1>0, <1>t, <2>1, <2>3, <2>4, <2>5, <2>6, <2>7
  <1>2. CASE Protect
    <2>1. /\ rstk' = Append(rstk, depth) /\ pc = "run"
          /\ UNCHANGED <<frames, chain, pending, swallowed, pc>> /\ depth' = depth
      BY <1>2 DEF Protect, Running, depth
    <2>2. depth \in 0..depth /\ Len(rstk) \in Nat
      BY <1>0, UpTo
    <2>3. /\ rstk' \in Seq(0..depth) /\ Len(rstk') = Len(rstk) + 1
          /\ \A i \in 1..Len(rstk) : rstk'[i] = rstk[i]
      BY <1>0, <2>1, <2>2
    <2>4. \A e \in 1..Len(frames) : frames[e].saved <= Len(rstk) /\ frames[e].saved \in Nat
      BY <1>0, <2>1, CallFacts DEF Heights
    <2>5. Heights(frames, rstk')
      BY <1>0, <2>1, <2>2, <2>3, <2>4 DEF Heights
    <2> QED
      BY <1>0, <1>t, <2>1, <2>3, <2>5
  <1>3. CASE Unprotect
    <2>1. /\ rstk # <<>> /\ Last(rstk) = depth /\ rstk' = Front(rstk) /\ pc = "run"
          /\ UNCHANGED <<frames, chain, pending, swallowed, pc>> /\ depth' = depth
      BY <1>3 DEF Unprotect, Running, depth
    <2>2. /\ rstk' \in Seq(0..depth) /\ Len(rstk') = Len(rstk) - 1 /\ Len(rstk) \in Nat \ {0}
          /\ \A i \in 1..Len(rstk) - 1 : rstk'[i] = rstk[i]
          /\ rstk[Len(rstk)] = depth
      BY <1>0, <2>1, LastAndFront
    <2>3. \A e \in 1..depth : frames[e].saved <= Len(rstk) - 1
      <3>a. depth \in 1..Len(frames) /\ \A e \in 1..Len(frames) : frames[e].saved \in Nat
        BY <1>0, <2>1, CallFacts
      <3>1. depth \in 1..Len(frames) /\ frames[depth].saved \in Nat
            /\ \A e \in 1..depth : frames[e].saved \in Nat
        BY <1>0, <3>a
      <3>2. ~(frames[depth].saved >= Len(rstk))
        <4> SUFFICES ASSUME frames[depth].saved >= Len(rstk) PROVE FALSE
          OBVIOUS
        <4>1. Len(rstk) \in 1..frames[depth].saved
          BY <2>2, <3>1
        <4>2. rstk[Len(rstk)] < depth
          BY <1>0, <2>1, <3>1, <4>1 DEF Heights
        <4> QED
          BY <1>0, <2>2, <4>2
      <3>3. \A e \in 1..depth : frames[e].saved <= frames[depth].saved
        BY <1>0, <2>1, <3>1 DEF Heights
      <3> QED
        BY <2>2, <3>1, <3>2, <3>3
    <2>4. Outer(frames, frames) /\ Fits(frames, rstk')
      BY <1>0, <2>2, <2>3 DEF Outer, Fits
    <2>5. Below(rstk', rstk)
      <3>1. \A i \in 1..Len(rstk) : rstk[i] \in Nat
        BY <1>0, UpTo
      <3> QED
        BY <2>2, <3>1 DEF Below
    <2>6. Heights(frames, rstk')
      BY <1>0, <2>1, <2>2, <2>4, <2>5, HeightsKept
    <2> QED
      BY <1>0, <1>t, <2>1, <2>2, <2>6
  <1>4. CASE Leave
    <2>1. /\ ReturnFrom(Popped(chain), rstk, depth, frames) /\ UNCHANGED <<pending, swallowed>>
          /\ pc = "run"
      BY <1>4 DEF Leave, Running
    <2>2. Popped(chain) \in Seq(0..depth) /\ Popped(chain) # <<>>
      BY <1>0, PoppedType
    <2>3. /\ frames' \in Seq(Call) /\ Len(frames') = depth - 1
          /\ chain' \in Seq(0..depth - 1) /\ chain' # <<>>
          /\ rstk' \in Seq(0..depth - 1)
          /\ pc' \in {"run", "exit"} /\ (pc' = "run" => depth - 1 > 0)
          /\ Heights(frames', rstk')
      BY <1>0, <2>1, <2>2, ReturnTyped
    <2>4. depth' = depth - 1 /\ depth - 1 \in Nat
      BY <1>0, <2>1, <2>3 DEF depth
    <2> QED
      BY <1>0, <1>t, <2>1, <2>3, <2>4
  <1>5. CASE LeaveWild \/ RaiseWild \/ (\E c \in Code : Throw(c)) \/ Ended \/ UNCHANGED vars
    <2>1. UNCHANGED <<frames, chain, rstk, swallowed>> /\ depth' = depth
      BY <1>5 DEF LeaveWild, RaiseWild, Throw, Ended, vars, depth
    <2>2. pc' \in {"run", "exit"} \cup Wild /\ pending' \in Code \cup {"nothing"}
          /\ (pc' = "run" => pc = "run")
      BY <1>0, <1>5 DEF LeaveWild, RaiseWild, Throw, Ended, vars, Wild
    <2> QED
      BY <1>0, <1>t, <2>1, <2>2
  <1>6. ASSUME Landing, Catch \/ Swallow PROVE TInv'
    <2>0. PICK d : d = Last(chain)
      OBVIOUS
    <2>1. PICK ch : ReturnFrom(ch, LandedRoots(d), d, Landed(d))
                    /\ (ch = Forget(chain, d + 1) \/ ch = Popped(Forget(chain, d + 1)))
      BY <1>6, <2>0 DEF Catch, Swallow
    <2>2. pending' = "nothing" /\ swallowed' \in BOOLEAN
      BY <1>0, <1>6 DEF Catch, Swallow
    <2>3. ch \in Seq(0..d) /\ ch # <<>>
      BY <1>6, <2>0, <2>1, LandFacts, PoppedType
    <2>4. /\ frames' \in Seq(Call) /\ Len(frames') = d - 1
          /\ chain' \in Seq(0..d - 1) /\ chain' # <<>>
          /\ rstk' \in Seq(0..d - 1)
          /\ pc' \in {"run", "exit"} /\ (pc' = "run" => d - 1 > 0)
          /\ Heights(frames', rstk')
      BY <1>6, <2>0, <2>1, <2>3, LandFacts, ReturnTyped
    <2>5. depth' = d - 1 /\ d - 1 \in Nat
      BY <1>6, <2>0, <2>4, LandFacts DEF depth
    <2> QED
      BY <1>t, <2>2, <2>4, <2>5
  <1>7. ASSUME Landing, Retry \/ Rethrow PROVE TInv'
    <2>0. PICK d : d = Last(chain)
      OBVIOUS
    <2>1. /\ d \in Nat \ {0} /\ Landed(d) \in Seq(Call) /\ Len(Landed(d)) = d
          /\ LandedRoots(d) \in Seq(0..d) /\ Heights(Landed(d), LandedRoots(d))
          /\ Forget(chain, d + 1) \in Seq(0..d) /\ Forget(chain, d + 1) # <<>>
          /\ Outer(Landed(d), frames) /\ pc = "run" /\ pending \in Code
      BY <1>6, <1>7, <2>0, LandFacts
    <2>2. frames' = Landed(d) /\ UNCHANGED <<swallowed, pc>> /\ pending' \in {pending, "nothing"}
      BY <1>7, <2>0 DEF Retry, Rethrow
    <2>3. depth' = d
      BY <2>1, <2>2 DEF depth
    <2> DEFINE ch == Popped(Forget(chain, d + 1))
    <2>4. ch \in Seq(0..d) /\ ch # <<>>
      BY <2>1, PoppedType
    <2>5. chain' = ch \/ chain' = Append(ch, d)
      BY <1>7, <2>0 DEF Retry, Rethrow
    <2> HIDE DEF ch
    <2>6. chain' \in Seq(0..d) /\ chain' # <<>>
      <3>1. d \in 0..d
        BY <2>1
      <3> QED
        BY <2>4, <2>5, <3>1
    <2>7. rstk' \in Seq(0..d) /\ Heights(Landed(d), rstk')
      <3>1. rstk' = LandedRoots(d) \/ rstk' = SubSeq(LandedRoots(d), 1, frames[d].saved)
        BY <1>7, <2>0 DEF Retry, Rethrow
      <3>2. CASE rstk' = LandedRoots(d)
        BY <2>1, <3>2
      <3>3. CASE rstk' = SubSeq(LandedRoots(d), 1, frames[d].saved)
        <4>0. d \in 1..Len(Landed(d)) /\ frames[d] = Landed(d)[d]
          BY <2>1 DEF Outer
        <4>a. \A e \in 1..Len(Landed(d)) : Landed(d)[e].saved \in Nat
          BY <2>1, CallFacts
        <4>1. \A e \in 1..d : Landed(d)[e].saved \in Nat
                 /\ Landed(d)[e].saved <= frames[d].saved /\ frames[d].saved <= Len(LandedRoots(d))
          BY <2>1, <4>0, <4>a DEF Heights
        <4>2. frames[d].saved \in 0..Len(LandedRoots(d)) /\ Len(LandedRoots(d)) \in Nat
          BY <2>1, <4>0, <4>1
        <4>3. /\ rstk' \in Seq(0..d) /\ Len(rstk') = frames[d].saved
              /\ \A i \in 1..frames[d].saved : rstk'[i] = LandedRoots(d)[i]
          BY <2>1, <3>3, <4>2, CutTo
        <4>4. Outer(Landed(d), Landed(d)) /\ Fits(Landed(d), rstk')
          BY <2>1, <4>1, <4>3 DEF Outer, Fits
        <4>5. \A i \in 1..Len(LandedRoots(d)) : LandedRoots(d)[i] \in Nat
          BY <2>1, UpTo
        <4>6. Below(rstk', LandedRoots(d))
          BY <4>2, <4>3, <4>5 DEF Below
        <4> QED
          BY <2>1, <4>3, <4>4, <4>6, HeightsKept
      <3> QED
        BY <3>1, <3>2, <3>3
    <2> QED
      BY <1>0, <1>t, <2>1, <2>2, <2>3, <2>6, <2>7
  <1> QED
    BY <1>1, <1>2, <1>3, <1>4, <1>5, <1>6, <1>7
    DEF Next, Raised, Catch, Swallow, Retry, Rethrow

LEMMA InitTyped == Init => TInv
  <1> SUFFICES ASSUME Init PROVE TInv
    OBVIOUS
  <1>1. /\ frames = <<[site |-> Main, saved |-> 0]>> /\ chain = <<1>> /\ rstk = <<>>
        /\ pending = "nothing" /\ swallowed = FALSE /\ pc = "run"
    BY DEF Init
  <1>2. [site |-> Main, saved |-> 0] \in Call
    BY TableAssumption DEF Call
  <1>3. frames \in Seq(Call) /\ Len(frames) = 1 /\ frames[1].saved = 0
    BY <1>1, <1>2
  <1>4. depth = 1
    BY <1>3 DEF depth
  <1>5. chain \in Seq(0..depth) /\ chain # <<>> /\ rstk \in Seq(0..depth) /\ Len(rstk) = 0
    BY <1>1, <1>4
  <1>6. Heights(frames, rstk)
    BY <1>3, <1>5 DEF Heights
  <1>7. TypeOK
    <2>1. pending \in Code \cup {"nothing"} /\ swallowed \in BOOLEAN
      BY <1>1
    <2>2. pc \in {"run", "exit"} \cup Wild /\ depth > 0
      BY <1>1, <1>4
    <2> QED
      BY <1>3, <1>5, <2>1, <2>2 DEF TypeOK, Call
  <1> QED
    BY <1>5, <1>6, <1>7 DEF TInv

(* Every variable keeps its type: the jumps over calls leave no link and   *)
(* no entry of the R-stack deeper than the calls that live.                *)
THEOREM TypesKept == Spec => []TypeOK
  <1>1. TInv => TypeOK
    BY DEF TInv
  <1> QED
    BY <1>1, InitTyped, StepTyped, PTL DEF Spec


-----------------------------------------------------------------------------
(* A chain that links the blocks 1 to n, where stale links may lie between.*)
Nests(ch, n) ==
    /\ ch \in Seq(0..n) /\ ch # <<>> /\ ch[1] = 1
    /\ LinksFollow(ch, n)

LEMMA NestsFacts ==
    ASSUME NEW n \in Nat \ {0}, NEW ch, Nests(ch, n)
    PROVE  /\ Len(ch) \in Nat \ {0} /\ Last(ch) = ch[Len(ch)] /\ Last(ch) \in {0, n}
           /\ \A i \in 1..Len(ch) : ch[i] \in 0..n
           /\ n + 1 \in Nat \ {0} /\ n - 1 \in Nat /\ n \in 0..n
  <1>1. ch \in Seq(0..n) /\ ch # <<>>
    BY DEF Nests
  <1>2. Len(ch) \in Nat \ {0} /\ Last(ch) = ch[Len(ch)] /\ \A i \in 1..Len(ch) : ch[i] \in 0..n
    BY <1>1, LastAndFront, UpTo
  <1>3. PICK i \in 1..Len(ch) : ch[i] = n
    BY DEF Nests, LinksFollow
  <1>4. ASSUME ch[Len(ch)] # 0 PROVE ch[Len(ch)] = n
    <2>1. CASE i = Len(ch)
      BY <1>3, <2>1
    <2>2. CASE i # Len(ch)
      <3>1. i < Len(ch) /\ Len(ch) \in 1..Len(ch)
        BY <1>2, <2>2
      <3>2. n < ch[Len(ch)]
        BY <1>3, <1>4, <3>1 DEF Nests, LinksFollow
      <3>3. ch[Len(ch)] \in 0..n
        BY <1>2, <3>1
      <3> QED
        BY <3>2, <3>3
    <2> QED
      BY <2>1, <2>2
  <1> QED
    BY <1>2, <1>4

LEMMA NestsAppend ==
    ASSUME NEW n \in Nat \ {0}, NEW ch, Nests(ch, n)
    PROVE  Nests(Append(ch, n + 1), n + 1)
  <1> DEFINE ap == Append(ch, n + 1)
  <1>1. /\ ch \in Seq(0..n) /\ Len(ch) \in Nat \ {0} /\ ch[1] = 1
        /\ \A i \in 1..Len(ch) : ch[i] \in 0..n
    BY NestsFacts DEF Nests
  <1>2. ch \in Seq(0..n + 1) /\ n + 1 \in 0..n + 1
    BY <1>1, UpTo
  <1>3. /\ ap \in Seq(0..n + 1) /\ Len(ap) = Len(ch) + 1 /\ ap[Len(ch) + 1] = n + 1
        /\ \A i \in 1..Len(ch) : ap[i] = ch[i]
    BY <1>1, <1>2
  <1> HIDE DEF ap
  <1>4. ASSUME NEW d \in 1..n + 1 PROVE \E i \in 1..Len(ap) : ap[i] = d
    <2>1. CASE d = n + 1
      BY <1>1, <1>3, <2>1
    <2>2. CASE d # n + 1
      <3>1. d \in 1..n
        BY <2>2
      <3>2. PICK i \in 1..Len(ch) : ch[i] = d
        BY <3>1 DEF Nests, LinksFollow
      <3> QED
        BY <1>1, <1>3, <3>2
    <2> QED
      BY <2>1, <2>2
  <1>5. ASSUME NEW i \in 1..Len(ap), NEW j \in 1..Len(ap), i < j, ap[j] # 0 PROVE ap[i] < ap[j]
    <2>1. i \in 1..Len(ch)
      BY <1>1, <1>3, <1>5
    <2>2. CASE j = Len(ch) + 1
      <3>1. ap[j] = n + 1 /\ ap[i] \in 0..n
        BY <1>1, <1>3, <2>1, <2>2
      <3> QED
        BY <3>1
    <2>3. CASE j # Len(ch) + 1
      <3>1. j \in 1..Len(ch)
        BY <1>1, <1>3, <2>3
      <3> QED
        BY <1>3, <1>5, <2>1, <3>1 DEF Nests, LinksFollow
    <2> QED
      BY <2>2, <2>3
  <1>6. ap # <<>> /\ ap[1] = 1
    BY <1>1, <1>3
  <1>7. Nests(ap, n + 1)
    BY <1>3, <1>4, <1>5, <1>6 DEF Nests, LinksFollow
  <1> QED
    BY <1>7 DEF ap

LEMMA NestsForget ==
    ASSUME NEW n \in Nat \ {0}, NEW ch, Nests(ch, n), NEW d \in Nat, d > 1,
           NEW m \in Nat, m = IF n < d THEN n ELSE d - 1
    PROVE  Nests(Forget(ch, d), m)
  <1> DEFINE fo == Forget(ch, d)
  <1>1. /\ ch \in Seq(0..n) /\ Len(ch) \in Nat \ {0} /\ ch[1] = 1
        /\ \A i \in 1..Len(ch) : ch[i] \in 0..n
    BY NestsFacts DEF Nests
  <1>2. Len(fo) = Len(ch) /\ \A i \in 1..Len(ch) : fo[i] = IF ch[i] < d THEN ch[i] ELSE 0
    BY <1>1, Forgotten
  <1>3. \A i \in 1..Len(ch) : fo[i] \in 0..m
    BY <1>1, <1>2
  <1>4. fo \in Seq(0..m)
    <2>1. fo = [i \in 1..Len(ch) |-> fo[i]]
      BY DEF Forget
    <2> HIDE DEF fo
    <2> QED
      BY <1>1, <1>3, <2>1
  <1> HIDE DEF fo
  <1>5. fo # <<>> /\ fo[1] = 1
    BY <1>1, <1>2, <1>4
  <1>6. ASSUME NEW e \in 1..m PROVE \E i \in 1..Len(fo) : fo[i] = e
    <2>1. e \in 1..n /\ e < d
      OBVIOUS
    <2>2. PICK i \in 1..Len(ch) : ch[i] = e
      BY <2>1 DEF Nests, LinksFollow
    <2> QED
      BY <1>2, <2>1, <2>2
  <1>7. ASSUME NEW i \in 1..Len(fo), NEW j \in 1..Len(fo), i < j, fo[j] # 0 PROVE fo[i] < fo[j]
    <2>1. i \in 1..Len(ch) /\ j \in 1..Len(ch) /\ ch[j] < d /\ fo[j] = ch[j]
      BY <1>2, <1>7
    <2>2. ch[i] < ch[j] /\ ch[i] \in 0..n /\ ch[j] \in 0..n
      BY <1>1, <1>7, <2>1 DEF Nests, LinksFollow
    <2>3. ch[i] < d
      BY <2>1, <2>2
    <2> QED
      BY <1>2, <2>1, <2>2, <2>3
  <1>8. Nests(fo, m)
    BY <1>4, <1>5, <1>6, <1>7 DEF Nests, LinksFollow
  <1> QED
    BY <1>8 DEF fo

LEMMA NestsPopped ==
    ASSUME NEW n \in Nat \ {0}, NEW ch, Nests(ch, n), Last(ch) = n
    PROVE  /\ n > 1 => Nests(Popped(ch), n - 1)
           /\ n = 1 => Popped(ch) = ch
  <1>1. /\ ch \in Seq(0..n) /\ ch # <<>> /\ Len(ch) \in Nat \ {0} /\ ch[1] = 1
        /\ ch[Len(ch)] = n /\ \A i \in 1..Len(ch) : ch[i] \in 0..n
    BY NestsFacts DEF Nests
  <1>2. CASE n = 1
    <2>1. ~(Len(ch) > 1)
      <3> SUFFICES ASSUME Len(ch) > 1 PROVE FALSE
        OBVIOUS
      <3>1. 1 \in 1..Len(ch) /\ Len(ch) \in 1..Len(ch) /\ 1 < Len(ch) /\ ch[Len(ch)] # 0
        BY <1>1
      <3>2. ch[1] < ch[Len(ch)]
        BY <3>1 DEF Nests, LinksFollow
      <3> QED
        BY <1>1, <1>2, <3>2
    <2> QED
      BY <1>2, <2>1 DEF Popped
  <1>3. CASE n > 1
    <2> DEFINE fr == Front(ch)
    <2>1. Len(ch) > 1 /\ Popped(ch) = fr
      BY <1>1, <1>3 DEF Popped
    <2>2. Len(fr) = Len(ch) - 1 /\ fr \in Seq(0..n) /\ \A i \in 1..Len(ch) - 1 : fr[i] = ch[i]
      BY <1>1, LastAndFront
    <2> HIDE DEF fr
    <2>3. ASSUME NEW i \in 1..Len(fr) PROVE fr[i] \in 0..n - 1
      <3>1. i \in 1..Len(ch) /\ Len(ch) \in 1..Len(ch) /\ i < Len(ch) /\ ch[Len(ch)] # 0
        BY <1>1, <2>2
      <3>2. ch[i] < ch[Len(ch)] /\ ch[i] \in 0..n
        BY <1>1, <3>1 DEF Nests, LinksFollow
      <3> QED
        BY <1>1, <2>2, <3>1, <3>2
    <2>4. fr \in Seq(0..n - 1)
      BY <2>2, <2>3
    <2>5. fr # <<>> /\ fr[1] = 1
      BY <1>1, <2>1, <2>2
    <2>6. ASSUME NEW d \in 1..n - 1 PROVE \E i \in 1..Len(fr) : fr[i] = d
      <3>1. d \in 1..n /\ d # n
        OBVIOUS
      <3>2. PICK i \in 1..Len(ch) : ch[i] = d
        BY <3>1 DEF Nests, LinksFollow
      <3>3. i \in 1..Len(fr)
        BY <1>1, <2>2, <3>1, <3>2
      <3> QED
        BY <2>2, <3>2, <3>3
    <2>7. ASSUME NEW i \in 1..Len(fr), NEW j \in 1..Len(fr), i < j, fr[j] # 0 PROVE fr[i] < fr[j]
      <3>0. Len(ch) \in Nat \ {0} /\ Len(fr) = Len(ch) - 1
        BY <1>1, <2>2
      <3>1. i \in 1..Len(ch) - 1 /\ j \in 1..Len(ch) - 1
        BY <3>0
      <3>2. i \in 1..Len(ch) /\ j \in 1..Len(ch)
        BY <3>0, <3>1
      <3>3. fr[i] = ch[i] /\ fr[j] = ch[j]
        BY <2>2, <3>1
      <3> QED
        BY <2>7, <3>2, <3>3 DEF Nests, LinksFollow
    <2>8. Nests(fr, n - 1)
      BY <2>4, <2>5, <2>6, <2>7 DEF Nests, LinksFollow
    <2> QED
      BY <1>3, <2>1, <2>8
  <1> QED
    BY <1>2, <1>3


(* The blocks linked are those the program is in or, after a _rethrow_,    *)
(* those around the last one.                                              *)
NestInv ==
    pc = "run" =>
        \E n \in {depth, depth - 1} :
            n \in Nat \ {0} /\ Nests(chain, n) /\ (pending = "nothing" => n = depth)

(* What the jump to block d leaves of the chain, and what the pop then does*)
LEMMA LandNests ==
    ASSUME TInv, NestInv, Landing, NEW d, d = Last(chain)
    PROVE  /\ d \in Nat \ {0} /\ Nests(Forget(chain, d + 1), d)
           /\ d > 1 => Nests(Popped(Forget(chain, d + 1)), d - 1)
           /\ d = 1 => Popped(Forget(chain, d + 1)) = Forget(chain, d + 1)
           /\ Last(Forget(chain, d + 1)) = d
  <1>1. d \in Nat \ {0} /\ pc = "run"
    BY LandFacts
  <1>2. PICK n \in {depth, depth - 1} : n \in Nat \ {0} /\ Nests(chain, n)
    BY <1>1 DEF NestInv
  <1>3. d = n /\ Len(chain) \in Nat \ {0} /\ chain[Len(chain)] = d
    BY <1>1, <1>2, NestsFacts
  <1>4. d + 1 \in Nat /\ d + 1 > 1 /\ d = (IF d < d + 1 THEN d ELSE (d + 1) - 1)
    BY <1>1
  <1>5. Nests(Forget(chain, d + 1), d)
    BY <1>1, <1>2, <1>3, <1>4, NestsForget
  <1>6. Last(Forget(chain, d + 1)) = d
    <2>1. Len(Forget(chain, d + 1)) = Len(chain) /\ Forget(chain, d + 1)[Len(chain)] = d
      BY <1>1, <1>3 DEF Forget
    <2> QED
      BY <1>1, <1>5, <2>1, NestsFacts
  <1> QED
    BY <1>1, <1>5, <1>6, NestsPopped

(* A return from block d, whose chain has lost the link to d or has not.   *)
LEMMA ReturnNests ==
    ASSUME NEW d \in Nat, d > 1, NEW ch, Nests(ch, d) \/ Nests(ch, d - 1)
    PROVE  Nests(Forget(ch, d), d - 1)
  <1>1. d \in Nat \ {0} /\ d - 1 \in Nat \ {0}
        /\ d - 1 = (IF d < d THEN d ELSE d - 1) /\ d - 1 = (IF d - 1 < d THEN d - 1 ELSE d - 1)
    OBVIOUS
  <1>2. CASE Nests(ch, d)
    BY <1>1, <1>2, NestsForget
  <1>3. CASE Nests(ch, d - 1)
    BY <1>1, <1>3, NestsForget
  <1> QED
    BY <1>2, <1>3

LEMMA StepNests ==
    ASSUME TInv, NestInv, [Next]_vars
    PROVE  NestInv'
  <1>1. ASSUME NEW s \in Site, Enter(s) PROVE NestInv'
    <2>1. /\ pc = "run" /\ pending = "nothing" /\ chain' = Append(chain, depth + 1)
          /\ frames' = Append(frames, [site |-> s, saved |-> Len(rstk)])
      BY <1>1 DEF Enter, Running
    <2>2. depth \in Nat \ {0} /\ Nests(chain, depth)
      BY <2>1 DEF NestInv
    <2>3. Nests(chain', depth + 1) /\ depth + 1 \in Nat \ {0}
      BY <2>1, <2>2, NestsAppend
    <2>4. depth' = depth + 1
      <3>1. frames \in Seq(Call) /\ [site |-> s, saved |-> Len(rstk)] \in Call
        BY UpTo DEF TInv, TypeOK, Call, depth
      <3> QED
        BY <2>1, <3>1 DEF depth
    <2> QED
      BY <2>3, <2>4 DEF NestInv
  <1>2. CASE Protect \/ Unprotect
    BY <1>2 DEF Protect, Unprotect, NestInv, depth
  <1>3. CASE \E c \in Code : Throw(c)
    <2>1. UNCHANGED <<frames, chain, pc>> /\ pc = "run" /\ pending = "nothing" /\ depth' = depth
      BY <1>3 DEF Throw, Running, depth
    <2>2. depth \in Nat \ {0} /\ Nests(chain, depth)
      BY <2>1 DEF NestInv
    <2> QED
      BY <2>1, <2>2 DEF NestInv
  <1>4. CASE Leave
    <2>1. /\ pc = "run" /\ pending = "nothing" /\ pending' = "nothing" /\ Last(chain) # 0
          /\ chain' = Forget(Popped(chain), depth) /\ frames' = SubSeq(frames, 1, depth - 1)
          /\ pc' = IF depth = 1 THEN "exit" ELSE "run"
      BY <1>4 DEF Leave, Running, ReturnFrom
    <2>2. depth \in Nat \ {0} /\ Nests(chain, depth)
      BY <2>1 DEF NestInv
    <2>3. Last(chain) = depth
      BY <2>1, <2>2, NestsFacts
    <2>4. ASSUME depth > 1 PROVE Nests(chain', depth - 1) /\ depth - 1 \in Nat \ {0}
      BY <2>1, <2>2, <2>3, <2>4, NestsPopped, ReturnNests
    <2>5. depth' = depth - 1
      <3>1. frames \in Seq(Call) /\ depth - 1 \in 0..Len(frames)
        BY <2>2 DEF TInv, TypeOK, Call, depth
      <3>2. Len(SubSeq(frames, 1, depth - 1)) = depth - 1
        BY <3>1, CutTo
      <3> QED
        BY <2>1, <3>2 DEF depth
    <2>6. pc' = "run" => depth > 1
      BY <2>1, <2>2
    <2> QED
      BY <2>1, <2>4, <2>5, <2>6 DEF NestInv
  <1>5. CASE LeaveWild \/ RaiseWild
    BY <1>5 DEF LeaveWild, RaiseWild, NestInv
  <1>6. ASSUME Landing, Catch \/ Swallow PROVE NestInv'
    <2>0. PICK d : d = Last(chain)
      OBVIOUS
    <2>1. PICK ch : /\ chain' = Forget(ch, d) /\ frames' = SubSeq(Landed(d), 1, d - 1)
                    /\ pc' = IF d = 1 THEN "exit" ELSE "run"
                    /\ ch = Forget(chain, d + 1) \/ ch = Popped(Forget(chain, d + 1))
      BY <1>6, <2>0 DEF Catch, Swallow, ReturnFrom
    <2>2. /\ d \in Nat \ {0} /\ d - 1 \in 0..Len(Landed(d)) /\ Landed(d) \in Seq(Call)
      BY <1>6, <2>0, LandFacts
    <2>3. depth' = d - 1
      <3>1. Len(SubSeq(Landed(d), 1, d - 1)) = d - 1
        BY <2>2, CutTo
      <3> QED
        BY <2>1, <3>1 DEF depth
    <2>4. ASSUME d > 1 PROVE Nests(chain', d - 1) /\ d - 1 \in Nat \ {0}
      <3>1. Nests(ch, d) \/ Nests(ch, d - 1)
        BY <1>6, <2>0, <2>1, <2>4, LandNests
      <3> QED
        BY <2>1, <2>2, <2>4, <3>1, ReturnNests
    <2>5. pc' = "run" => d > 1
      BY <2>1, <2>2
    <2> QED
      BY <2>3, <2>4, <2>5 DEF NestInv
  <1>7. ASSUME Landing, Retry \/ Rethrow PROVE NestInv'
    <2>0. PICK d : d = Last(chain)
      OBVIOUS
    <2> DEFINE ch == Forget(chain, d + 1)
    <2>1. /\ d \in Nat \ {0} /\ Nests(ch, d) /\ Last(ch) = d
          /\ d > 1 => Nests(Popped(ch), d - 1)
          /\ d = 1 => Popped(ch) = ch
      BY <1>7, <2>0, LandNests
    <2>2. frames' = Landed(d)
      BY <1>7, <2>0 DEF Retry, Rethrow
    <2>3. depth' = d
      BY <1>7, <2>0, <2>2, LandFacts DEF depth
    <2>4. CASE Retry
      <3>1. chain' = IF Last(Popped(ch)) = d THEN Popped(ch) ELSE Append(Popped(ch), d)
        BY <2>0, <2>4 DEF Retry
      <3> HIDE DEF ch
      <3>2. CASE d = 1
        BY <2>1, <2>3, <3>1, <3>2 DEF NestInv
      <3>3. CASE d # 1
        <4>1. d > 1 /\ d - 1 \in Nat \ {0} /\ (d - 1) + 1 = d /\ Nests(Popped(ch), d - 1)
          BY <2>1, <3>3
        <4>2. Last(Popped(ch)) \in {0, d - 1}
          BY <4>1, NestsFacts
        <4>3. chain' = Append(Popped(ch), d)
          BY <2>1, <3>1, <4>1, <4>2
        <4>4. Nests(Append(Popped(ch), (d - 1) + 1), (d - 1) + 1)
          BY <4>1, NestsAppend
        <4>5. Nests(chain', d)
          BY <4>1, <4>3, <4>4
        <4> QED
          BY <2>1, <2>3, <4>5 DEF NestInv
      <3> QED
        BY <3>2, <3>3
    <2>5. CASE Rethrow
      <3>1. chain' = Popped(ch) /\ pending' # "nothing"
        BY <1>7, <2>0, <2>5 DEF Rethrow, Landing, Raising
      <3> HIDE DEF ch
      <3>2. CASE d = 1
        BY <2>1, <2>3, <3>1, <3>2 DEF NestInv
      <3>3. CASE d # 1
        <4>1. d - 1 \in Nat \ {0} /\ Nests(chain', d - 1)
          BY <2>1, <3>1, <3>3
        <4> QED
          BY <2>3, <3>1, <4>1 DEF NestInv
      <3> QED
        BY <3>2, <3>3
    <2> QED
      BY <1>7, <2>4, <2>5
  <1>8. CASE Ended \/ UNCHANGED vars
    BY <1>8 DEF Ended, vars, NestInv, depth
  <1> QED
    BY <1>1, <1>2, <1>3, <1>4, <1>5, <1>6, <1>7, <1>8
    DEF Next, Raised, Catch, Swallow, Retry, Rethrow

LEMMA InitNests == Init => NestInv
  <1> SUFFICES ASSUME Init PROVE NestInv
    OBVIOUS
  <1>1. chain = <<1>> /\ depth = 1
    <2>1. frames = <<[site |-> Main, saved |-> 0]>> /\ chain = <<1>>
      BY DEF Init
    <2> QED
      BY <2>1 DEF depth
  <1>2. chain \in Seq(0..1) /\ chain # <<>> /\ Len(chain) = 1 /\ chain[1] = 1
    BY <1>1
  <1>3. Nests(chain, 1)
    BY <1>2 DEF Nests, LinksFollow
  <1> QED
    BY <1>1, <1>3 DEF NestInv

(* After any throws, retries and returns, and whatever was swallowed, the  *)
(* links that are not stale are those of the blocks the program is in.     *)
THEOREM LiveLinksFollowNesting == Spec => []LiveLinksAreNesting
  <1>1. NestInv => LiveLinksAreNesting
    BY DEF NestInv, LiveLinksAreNesting, Running, Nests
  <1>2. TInv /\ NestInv /\ [Next]_vars => (TInv /\ NestInv)'
    BY StepTyped, StepNests
  <1> QED
    BY <1>1, <1>2, InitTyped, InitNests, PTL DEF Spec


-----------------------------------------------------------------------------
(* Of which calls the outer ones leave a stale entry i of the R-stack to a *)
(* retried block.                                                          *)
Covers(fs, n, i) == \E e \in 1..n : Retries(fs[e].site) /\ fs[e].saved < i

(* The sites call one another as the table says, an exception under way    *)
(* reaches the block it will jump to, and a stale entry is left to a       *)
(* retried block or lies above what the last block saved.                  *)
RootInv(reach) ==
    pc = "run" =>
        /\ frames[1].site = Main
        /\ \A e \in 1..depth - 1 : frames[e + 1].site \in Calls[frames[e].site]
        /\ pending # "nothing" /\ Last(chain) # 0 => pending \in reach[frames[Last(chain)].site]
        /\ \A i \in 1..Len(rstk) : rstk[i] = 0 =>
              \/ Covers(frames, depth, i)
              \/ pending # "nothing" /\ frames[depth].saved < i

(* What covers an entry below the height a call saved is an outer call.    *)
LEMMA CoversOuter ==
    ASSUME NEW fs \in Seq(Call), NEW rs, Heights(fs, rs),
           NEW d \in 1..Len(fs), NEW i \in Nat, i <= fs[d].saved, Covers(fs, Len(fs), i)
    PROVE  Covers(fs, d - 1, i)
  <1>1. PICK e \in 1..Len(fs) : Retries(fs[e].site) /\ fs[e].saved < i
    BY DEF Covers
  <1>2. Len(fs) \in Nat /\ fs[e].saved \in Nat /\ fs[d].saved \in Nat
    BY CallFacts
  <1>3. ~(d <= e)
    <2> SUFFICES ASSUME d <= e PROVE FALSE
      OBVIOUS
    <2>1. fs[d].saved <= fs[e].saved
      BY DEF Heights
    <2> QED
      BY <1>1, <1>2, <2>1
  <1>4. e \in 1..d - 1
    BY <1>2, <1>3
  <1> QED
    BY <1>1, <1>4 DEF Covers

LEMMA LandZeros ==
    ASSUME NEW reach, TInv, RootInv(reach), Landing, NEW d, d = Last(chain),
           NEW i \in 1..Len(rstk), LandedRoots(d)[i] = 0, ~(frames[d].saved < i)
    PROVE  Covers(frames, d - 1, i)
  <1>1. /\ frames \in Seq(Call) /\ Len(frames) = depth /\ rstk \in Seq(0..depth) /\ depth \in Nat
        /\ pc = "run" /\ Heights(frames, rstk)
    BY DEF TInv, TypeOK, Call, depth, Landing, Raising
  <1>a. d \in 1..depth /\ \A k \in 1..Len(rstk) : LandedRoots(d)[k] = IF rstk[k] < d THEN rstk[k] ELSE 0
    BY LandFacts
  <1>2. d \in 1..depth /\ depth \in 1..depth /\ LandedRoots(d)[i] = IF rstk[i] < d THEN rstk[i] ELSE 0
    BY <1>1, <1>a
  <1>3. \A e \in 1..depth : frames[e].saved \in Nat
    BY <1>1, CallFacts
  <1>4. i \in Nat /\ i \in 1..frames[d].saved
    BY <1>1, <1>2, <1>3
  <1>5. rstk[i] < d
    BY <1>1, <1>2, <1>4 DEF Heights
  <1>6. rstk[i] = 0
    BY <1>2, <1>5
  <1>7. ~(frames[depth].saved < i)
    <2>1. frames[d].saved <= frames[depth].saved
      BY <1>1, <1>2 DEF Heights
    <2> QED
      BY <1>2, <1>3, <1>4, <2>1
  <1>8. Covers(frames, Len(frames), i)
    BY <1>1, <1>6, <1>7 DEF RootInv
  <1> QED
    BY <1>1, <1>2, <1>3, <1>4, <1>8, CoversOuter

(* The outer calls of block d are the calls after it has returned, or of it*)
(* and the outer ones.                                                     *)
LEMMA CallsKept ==
    ASSUME NEW reach, TInv, RootInv(reach), pc = "run", NEW d \in 1..depth,
           NEW k \in Nat \ {0}, k <= d, frames' \in Seq(Call), Len(frames') = k,
           \A e \in 1..k : frames'[e] = frames[e]
    PROVE  /\ frames'[1].site = Main /\ depth' = k
           /\ \A e \in 1..depth' - 1 : frames'[e + 1].site \in Calls[frames'[e].site]
           /\ \A i, n : n \in 0..k /\ Covers(frames, n, i) => Covers(frames', depth', i)
  <1>1. depth' = k /\ depth \in Nat
    BY DEF depth, TInv, TypeOK
  <1>2. 1 \in 1..k /\ \A e \in 1..k - 1 : e \in 1..k /\ e + 1 \in 1..k /\ e \in 1..depth - 1
    BY <1>1
  <1>3. \A i, n : n \in 0..k /\ Covers(frames, n, i) => Covers(frames', depth', i)
    BY <1>1 DEF Covers
  <1> QED
    BY <1>1, <1>2, <1>3 DEF RootInv


LEMMA StepRoots ==
    ASSUME NEW reach, Reaches(reach), Unwinds(reach),
           TInv, TInv', NestInv, NestInv', RootInv(reach), [Next]_vars
    PROVE  RootInv(reach)'
  <1>0. /\ frames \in Seq(Call) /\ Len(frames) = depth /\ depth \in Nat /\ rstk \in Seq(0..depth)
        /\ pc = "run" => depth \in Nat \ {0} /\ Heights(frames, rstk)
    BY DEF TInv, TypeOK, Call, depth
  <1>s. \A e \in 1..depth : frames[e].site \in Site /\ frames[e].saved \in Nat
    BY <1>0, CallFacts
  (* Neither the switch of a site that has a clause of its own for the     *)
  (* code, nor the end of one without, leaves an entry of the block.       *)
  <1>u. ASSUME Landing, NEW d, d = Last(chain), ~Passes(frames[d].site, pending)
        PROVE  \/ frames[d].site \in Saves
               \/ d = 1 /\ Clause[frames[d].site][pending] # "retry"
    <2>1. /\ d \in 1..depth /\ d \in Nat \ {0} /\ d # 0 /\ pc = "run" /\ pending # "nothing"
      BY <1>u, LandFacts
    <2>2. frames[d].site \in Site /\ pending \in reach[frames[d].site]
      BY <1>s, <1>u, <2>1 DEF RootInv
    <2>3. d # 1 => frames[d].site # Main
      <3> SUFFICES ASSUME d # 1 PROVE frames[d].site # Main
        OBVIOUS
      <3>1. d - 1 \in 1..depth - 1 /\ d - 1 \in 1..depth /\ (d - 1) + 1 = d
        BY <1>0, <2>1
      <3>2. frames[(d - 1) + 1].site \in Calls[frames[d - 1].site]
        BY <2>1, <3>1 DEF RootInv
      <3> QED
        BY <1>s, <3>1, <3>2 DEF Unwinds
    <2> QED
      BY <1>u, <2>2, <2>3 DEF Unwinds
  <1>1. ASSUME NEW s \in Site, Enter(s) PROVE RootInv(reach)'
    <2>1. /\ pc = "run" /\ pending = "nothing" /\ pending' = "nothing" /\ rstk' = rstk
          /\ s \in Calls[frames[depth].site]
          /\ frames' = Append(frames, [site |-> s, saved |-> Len(rstk)])
      BY <1>1 DEF Enter, Running, Here
    <2>2. [site |-> s, saved |-> Len(rstk)] \in Call
      BY <1>0, UpTo DEF Call
    <2>3. /\ Len(frames') = depth + 1 /\ frames'[depth + 1].site = s
          /\ \A e \in 1..depth : frames'[e] = frames[e]
      BY <1>0, <2>1, <2>2
    <2>4. depth' = depth + 1
      BY <2>3 DEF depth
    <2>5. frames'[1].site = Main
      BY <1>0, <2>1, <2>3 DEF RootInv
    <2>6. ASSUME NEW e \in 1..depth' - 1 PROVE frames'[e + 1].site \in Calls[frames'[e].site]
      <3>1. e \in 1..depth
        BY <1>0, <2>4
      <3>2. CASE e = depth
        BY <2>1, <2>3, <3>1, <3>2
      <3>3. CASE e # depth
        <4>1. e \in 1..depth - 1 /\ e + 1 \in 1..depth
          BY <1>0, <3>1, <3>3
        <4> QED
          BY <2>1, <2>3, <3>1, <4>1 DEF RootInv
      <3> QED
        BY <3>2, <3>3
    <2>7. ASSUME NEW i \in 1..Len(rstk'), rstk'[i] = 0 PROVE Covers(frames', depth', i)
      <3>1. Covers(frames, depth, i)
        BY <2>1, <2>7 DEF RootInv
      <3> QED
        BY <1>0, <2>3, <2>4, <3>1 DEF Covers
    <2> QED
      BY <2>1, <2>5, <2>6, <2>7 DEF RootInv
  <1>2. CASE Protect \/ Unprotect
    <2>1. /\ UNCHANGED <<frames, chain, pending, pc>> /\ depth' = depth /\ pc = "run"
          /\ pending = "nothing"
      BY <1>2 DEF Protect, Unprotect, Running, depth
    <2>2. ASSUME NEW i \in 1..Len(rstk'), rstk'[i] = 0 PROVE i \in 1..Len(rstk) /\ rstk[i] = 0
      <3>1. CASE Protect
        <4>1. rstk' = Append(rstk, depth) /\ depth \in 0..depth
          BY <1>0, <3>1 DEF Protect
        <4>2. /\ Len(rstk') = Len(rstk) + 1 /\ rstk'[Len(rstk) + 1] = depth /\ Len(rstk) \in Nat
              /\ \A j \in 1..Len(rstk) : rstk'[j] = rstk[j]
          BY <1>0, <4>1
        <4> QED
          BY <1>0, <2>1, <2>2, <4>2
      <3>2. CASE Unprotect
        <4>1. rstk # <<>> /\ rstk' = Front(rstk)
          BY <3>2 DEF Unprotect
        <4>2. /\ Len(rstk') = Len(rstk) - 1 /\ Len(rstk) \in Nat \ {0}
              /\ \A j \in 1..Len(rstk) - 1 : rstk'[j] = rstk[j]
          BY <1>0, <4>1, LastAndFront
        <4> QED
          BY <2>2, <4>2
      <3> QED
        BY <1>2, <3>1, <3>2
    <2>3. ASSUME NEW i \in 1..Len(rstk'), rstk'[i] = 0 PROVE Covers(frames', depth', i)
      BY <2>1, <2>2, <2>3 DEF RootInv, Covers
    <2> QED
      BY <2>1, <2>3 DEF RootInv
  <1>3. ASSUME NEW c \in Code, Throw(c) PROVE RootInv(reach)'
    <2>1. /\ UNCHANGED <<frames, chain, rstk, pc>> /\ depth' = depth /\ pc = "run"
          /\ pending = "nothing" /\ pending' = c /\ c \in Raises[frames[depth].site]
      BY <1>3 DEF Throw, Running, Here, depth
    <2>2. Last(chain) \in {0, depth} /\ depth \in 1..depth
      BY <1>0, <2>1, NestsFacts DEF NestInv
    <2>3. c \in reach[frames[depth].site]
      BY <1>s, <2>1, <2>2 DEF Reaches
    <2> QED
      BY <2>1, <2>2, <2>3 DEF RootInv, Covers
  <1>4. CASE Leave
    <2>1. /\ pc = "run" /\ pending = "nothing" /\ pending' = "nothing"
          /\ frames' = SubSeq(frames, 1, depth - 1) /\ rstk' = Forget(Unwound(rstk, depth, frames), depth)
          /\ pc' = IF depth = 1 THEN "exit" ELSE "run"
          /\ frames[depth].site \in Saves \/ \A i \in 1..Len(rstk) : rstk[i] # depth
      BY <1>4 DEF Leave, Running, ReturnFrom, Unwound, Here
    <2> SUFFICES ASSUME depth # 1 PROVE RootInv(reach)'
      BY <2>1 DEF RootInv
    <2>2. depth \in 1..depth /\ depth \in Nat \ {0} /\ depth - 1 \in Nat \ {0}
          /\ depth - 1 \in 0..Len(frames) /\ depth - 1 <= depth /\ depth - 1 \in 0..depth - 1
      BY <1>0, <2>1
    <2>3. /\ frames' \in Seq(Call) /\ Len(frames') = depth - 1
          /\ \A e \in 1..depth - 1 : frames'[e] = frames[e]
      BY <1>0, <2>1, <2>2, CutTo
    <2>4. /\ frames'[1].site = Main /\ depth' = depth - 1
          /\ \A e \in 1..depth' - 1 : frames'[e + 1].site \in Calls[frames'[e].site]
          /\ \A i, n : n \in 0..depth - 1 /\ Covers(frames, n, i) => Covers(frames', depth', i)
      BY <2>1, <2>2, <2>3, CallsKept
    <2>5. ASSUME NEW i \in 1..Len(rstk'), rstk'[i] = 0 PROVE Covers(frames', depth', i)
      <3> DEFINE us == Unwound(rstk, depth, frames)
      <3>1. /\ us \in Seq(0..depth) /\ Len(us) \in frames[depth].saved..Len(rstk)
            /\ frames[depth].site \in Saves => Len(us) = frames[depth].saved
            /\ frames[depth].site \notin Saves => us = rstk
            /\ \A j \in 1..Len(us) : us[j] = rstk[j]
        BY <1>0, <2>1, UnwoundFacts
      <3>2. Len(rstk') = Len(us) /\ rstk'[i] = IF us[i] < depth THEN us[i] ELSE 0
        BY <2>1 DEF Forget
      <3> HIDE DEF us
      <3>3. Len(rstk) \in Nat /\ frames[depth].saved \in Nat /\ \A j \in 1..Len(rstk) : rstk[j] \in 0..depth
        BY <1>0, <1>s, <2>2, UpTo
      <3>4. i \in 1..Len(rstk) /\ i \in 1..Len(us) /\ i \in Nat /\ us[i] = rstk[i] /\ rstk[i] \in 0..depth
        BY <3>1, <3>2, <3>3
      <3>5. CASE frames[depth].site \in Saves
        <4>1. i \in 1..frames[depth].saved /\ i <= frames[depth].saved
          BY <3>1, <3>3, <3>4, <3>5
        <4>2. rstk[i] < depth
          BY <1>0, <2>1, <2>2, <4>1 DEF Heights
        <4>3. Covers(frames, Len(frames), i)
          BY <1>0, <2>1, <2>5, <3>2, <3>4, <4>2 DEF RootInv
        <4>4. Covers(frames, depth - 1, i)
          BY <1>0, <2>1, <2>2, <3>4, <4>1, <4>3, CoversOuter
        <4> QED
          BY <2>2, <2>4, <4>4
      <3>6. CASE frames[depth].site \notin Saves
        <4>1. rstk[i] = 0
          BY <1>0, <2>1, <2>5, <3>2, <3>4, <3>6
        <4>2. Covers(frames, depth, i)
          BY <2>1, <3>4, <4>1 DEF RootInv
        <4>3. PICK e \in 1..depth : Retries(frames[e].site) /\ frames[e].saved < i
          BY <4>2 DEF Covers
        <4>4. e # depth
          BY <3>6, <4>3 DEF Retries
        <4>5. e \in 1..depth - 1
          BY <2>2, <4>4
        <4>6. Covers(frames, depth - 1, i)
          BY <4>3, <4>5 DEF Covers
        <4> QED
          BY <2>2, <2>4, <4>6
      <3> QED
        BY <3>5, <3>6
    <2> QED
      BY <2>1, <2>4, <2>5 DEF RootInv
  <1>5. CASE LeaveWild \/ RaiseWild
    BY <1>5 DEF LeaveWild, RaiseWild, RootInv
  <1>6. ASSUME Landing, Catch \/ Swallow PROVE RootInv(reach)'
    <2>0. PICK d : d = Last(chain)
      OBVIOUS
    <2>1. /\ frames' = SubSeq(Landed(d), 1, d - 1) /\ pending' = "nothing"
          /\ rstk' = Forget(Unwound(LandedRoots(d), d, Landed(d)), d)
          /\ pc' = IF d = 1 THEN "exit" ELSE "run"
          /\ Clause[frames[d].site][pending] \in {"resume", "none"}
      BY <1>6, <2>0 DEF Catch, Swallow, ReturnFrom, Unwound, ClauseAt
    <2> SUFFICES ASSUME d # 1 PROVE RootInv(reach)'
      BY <2>1 DEF RootInv
    <2>2. /\ d \in Nat \ {0} /\ d \in 1..depth /\ pc = "run" /\ pending # "nothing"
          /\ Landed(d) \in Seq(Call) /\ Len(Landed(d)) = d /\ Outer(Landed(d), frames)
          /\ LandedRoots(d) \in Seq(0..d - 1) /\ LandedRoots(d) \in Seq(0..d)
          /\ Len(LandedRoots(d)) = Len(rstk) /\ Heights(Landed(d), LandedRoots(d))
      BY <1>6, <2>0, LandFacts
    <2>3. d - 1 \in Nat \ {0} /\ d - 1 <= d /\ d - 1 \in 0..Len(Landed(d)) /\ d - 1 \in 0..d - 1
      BY <2>2
    <2>4. /\ frames' \in Seq(Call) /\ Len(frames') = d - 1
          /\ \A e \in 1..d - 1 : frames'[e] = frames[e]
      BY <2>1, <2>2, <2>3, CutTo DEF Outer
    <2>5. /\ frames'[1].site = Main /\ depth' = d - 1
          /\ \A e \in 1..depth' - 1 : frames'[e + 1].site \in Calls[frames'[e].site]
          /\ \A i, n : n \in 0..d - 1 /\ Covers(frames, n, i) => Covers(frames', depth', i)
      BY <2>2, <2>3, <2>4, CallsKept
    <2>6. frames[d].site \in Saves
      BY <1>6, <1>u, <2>0, <2>1 DEF Passes
    <2>7. ASSUME NEW i \in 1..Len(rstk'), rstk'[i] = 0 PROVE Covers(frames', depth', i)
      <3> DEFINE us == Unwound(LandedRoots(d), d, Landed(d))
      <3>0. Landed(d)[d] = frames[d] /\ frames[d].saved \in Nat
        BY <1>s, <2>2 DEF Outer
      <3>1. /\ Len(us) = frames[d].saved /\ Len(us) <= Len(rstk) /\ Len(rstk) \in Nat
            /\ \A j \in 1..Len(us) : us[j] = LandedRoots(d)[j]
        <4>1. /\ Len(us) \in Landed(d)[d].saved..Len(LandedRoots(d))
              /\ Landed(d)[d].site \in Saves => Len(us) = Landed(d)[d].saved
              /\ \A j \in 1..Len(us) : us[j] = LandedRoots(d)[j]
          BY <2>2, UnwoundFacts
        <4>2. Len(rstk) \in Nat
          BY <1>0, UpTo
        <4> HIDE DEF us
        <4> QED
          BY <2>2, <2>6, <3>0, <4>1, <4>2
      <3>2. Len(rstk') = Len(us) /\ rstk'[i] = IF us[i] < d THEN us[i] ELSE 0
        BY <2>1 DEF Forget
      <3> HIDE DEF us
      <3>3. i \in 1..Len(us) /\ i \in 1..Len(rstk) /\ ~(frames[d].saved < i)
            /\ us[i] = LandedRoots(d)[i]
        BY <3>0, <3>1, <3>2
      <3>4. LandedRoots(d)[i] \in 0..d - 1
        BY <2>2, <3>3
      <3>5. LandedRoots(d)[i] = 0
        BY <2>2, <2>7, <3>2, <3>3, <3>4
      <3>6. Covers(frames, d - 1, i)
        BY <1>6, <2>0, <3>3, <3>5, LandZeros
      <3> QED
        BY <2>3, <2>5, <3>6
    <2> QED
      BY <2>1, <2>5, <2>7 DEF RootInv
  <1>7. ASSUME Landing, Retry \/ Rethrow PROVE RootInv(reach)'
    <2>0. PICK d : d = Last(chain)
      OBVIOUS
    <2>1. frames' = Landed(d) /\ pc' = pc
      BY <1>7, <2>0 DEF Retry, Rethrow
    <2>2. /\ d \in Nat \ {0} /\ d \in 1..depth /\ pc = "run" /\ pending # "nothing"
          /\ Landed(d) \in Seq(Call) /\ Len(Landed(d)) = d /\ Outer(Landed(d), frames)
          /\ LandedRoots(d) \in Seq(0..d) /\ Len(LandedRoots(d)) = Len(rstk)
          /\ Heights(Landed(d), LandedRoots(d))
      BY <1>7, <2>0, LandFacts
    <2>3. d <= d /\ d \in 0..d /\ d - 1 \in 0..d /\ \A e \in 1..d : frames'[e] = frames[e]
      BY <2>1, <2>2 DEF Outer
    <2>4. /\ frames'[1].site = Main /\ depth' = d
          /\ \A e \in 1..depth' - 1 : frames'[e + 1].site \in Calls[frames'[e].site]
          /\ \A i, n : n \in 0..d /\ Covers(frames, n, i) => Covers(frames', depth', i)
      BY <2>1, <2>2, <2>3, CallsKept
    <2>5. frames[d].saved \in Nat /\ Len(rstk) \in Nat /\ frames[d] = frames'[d]
          /\ frames[d].saved \in 0..Len(LandedRoots(d))
      <3>1. frames[d].saved \in Nat /\ Len(rstk) \in Nat /\ frames[d] = frames'[d]
        BY <1>0, <1>s, <2>2, <2>3, UpTo
      <3>2. frames[d].saved <= Len(LandedRoots(d))
        BY <2>1, <2>2, <2>3 DEF Heights
      <3> QED
        BY <2>2, <3>1, <3>2
    <2>6. ASSUME NEW i \in 1..Len(rstk'), rstk'[i] = 0
          PROVE  frames[d].saved < i \/ Covers(frames', depth', i)
      <3>1. i \in 1..Len(rstk) /\ LandedRoots(d)[i] = 0
        <4>1. CASE rstk' = LandedRoots(d)
          BY <2>2, <2>6, <4>1
        <4>2. CASE rstk' = SubSeq(LandedRoots(d), 1, frames[d].saved)
          <5>1. /\ Len(rstk') = frames[d].saved
                /\ \A j \in 1..frames[d].saved : rstk'[j] = LandedRoots(d)[j]
            BY <2>2, <2>5, <4>2, CutTo
          <5> QED
            BY <2>2, <2>5, <2>6, <5>1
        <4> QED
          BY <1>7, <2>0, <4>1, <4>2 DEF Retry, Rethrow
      <3>2. frames[d].saved < i \/ Covers(frames, d - 1, i)
        BY <1>7, <2>0, <3>1, LandZeros
      <3> QED
        BY <2>3, <2>4, <3>2
    <2>7. CASE Retry
      <3>1. pending' = "nothing" /\ Clause[frames[d].site][pending] = "retry"
        BY <2>0, <2>7 DEF Retry, ClauseAt
      <3>2. Retries(frames[d].site)
        <4>1. frames[d].site \in Saves
          BY <1>7, <1>u, <2>0, <3>1 DEF Passes
        <4>2. pending \in Code
          BY <1>7, <2>0, LandFacts
        <4> QED
          BY <3>1, <4>1, <4>2 DEF Retries
      <3>3. ASSUME NEW i \in 1..Len(rstk'), rstk'[i] = 0 PROVE Covers(frames', depth', i)
        <4>1. CASE frames[d].saved < i
          <5>1. d \in 1..depth' /\ Retries(frames'[d].site) /\ frames'[d].saved < i
            BY <2>2, <2>4, <2>5, <3>2, <4>1
          <5> QED
            BY <5>1 DEF Covers
        <4> QED
          BY <2>6, <3>3, <4>1
      <3> QED
        BY <2>4, <3>1, <3>3 DEF RootInv
    <2>8. CASE Rethrow
      <3>1. pending' = pending /\ Passes(frames[d].site, pending)
        BY <2>0, <2>8 DEF Rethrow, ClauseAt, Passes
      <3>2. pending \in reach[frames[d].site] /\ frames[d].site \in Site /\ pending \in Code
        BY <1>7, <1>s, <2>0, <2>2, LandFacts DEF RootInv
      <3>3. ASSUME Last(chain)' # 0 PROVE pending \in reach[frames'[Last(chain)'].site]
        <4>1. PICK n \in {d, d - 1} : n \in Nat \ {0} /\ Nests(chain', n)
          BY <2>1, <2>2, <2>4 DEF NestInv
        <4>2. Last(chain)' = n
          <5>1. Last(chain') \in {0, n}
            BY <4>1, NestsFacts
          <5> QED
            BY <3>3, <5>1
        <4>3. CASE n = d
          BY <2>5, <3>2, <4>2, <4>3
        <4>4. CASE n = d - 1
          <5>1. n \in 1..depth - 1 /\ n \in 1..depth /\ n + 1 = d /\ n \in 1..d
            BY <1>0, <2>2, <4>1, <4>4
          <5>2. frames[n + 1].site \in Calls[frames[n].site]
            BY <2>2, <5>1 DEF RootInv
          <5>3. pending \in reach[frames[n].site]
            BY <1>s, <3>1, <3>2, <5>1, <5>2 DEF Reaches
          <5> QED
            BY <2>3, <4>2, <5>1, <5>3
        <4> QED
          BY <4>1, <4>3, <4>4
      <3> QED
        BY <2>2, <2>4, <2>5, <2>6, <3>1, <3>3 DEF RootInv
    <2> QED
      BY <1>7, <2>7, <2>8
  <1>8. CASE Ended \/ UNCHANGED vars
    BY <1>8 DEF Ended, vars, RootInv, Covers, depth
  <1> QED
    BY <1>1, <1>2, <1>3, <1>4, <1>5, <1>6, <1>7, <1>8
    DEF Next, Raised, Catch, Swallow, Retry, Rethrow

LEMMA InitRoots ==
    ASSUME NEW reach
    PROVE  Init => RootInv(reach)
  <1> SUFFICES ASSUME Init PROVE RootInv(reach)
    OBVIOUS
  <1>1. frames = <<[site |-> Main, saved |-> 0]>> /\ rstk = <<>> /\ pending = "nothing"
    BY DEF Init
  <1>2. depth = 1 /\ frames[1].site = Main /\ Len(rstk) = 0
    BY <1>1 DEF depth
  <1> QED
    BY <1>1, <1>2 DEF RootInv

(* In a table where whatever catches unwinds, as in scheme2c's, an entry   *)
(* of the R-stack whose variable is gone is above what a retried block had *)
(* saved: nothing but _retry_ leaves one to a collection.                  *)
THEOREM StaleRootsAreOfRetries ==
    ASSUME NEW reach, Reaches(reach), Unwinds(reach)
    PROVE  Spec => []StaleRootsOnlyInRetry
  <1> DEFINE Inv == TInv /\ NestInv /\ RootInv(reach)
  <1>1. Init => Inv
    BY InitTyped, InitNests, InitRoots
  <1>2. Inv /\ [Next]_vars => Inv'
    BY StepTyped, StepNests, StepRoots
  <1>3. Inv => StaleRootsOnlyInRetry
    BY DEF RootInv, Covers, StaleRootsOnlyInRetry, Running
  <1> HIDE DEF Inv
  <1> QED
    BY <1>1, <1>2, <1>3, PTL DEF Spec
=============================================================================
