----------------------------- MODULE HmacProofs -----------------------------
(***************************************************************************)
(* Proofs about Hmac: any number of contexts, tables, keys and calls, and  *)
(* callbacks that fail at any point of a call.                             *)
(***************************************************************************)
EXTENDS Hmac, SequenceTheorems, TLAPS

-----------------------------------------------------------------------------
(***************************************************************************)
(* Sequences of callbacks.                                                 *)
(***************************************************************************)
Then(f, role, rest) == <<<<f, role>>>> \o rest

LEMMA ThenIs ==
  ASSUME NEW f, NEW role, NEW rest \in Seq(Step), <<f, role>> \in Step
  PROVE  /\ Then(f, role, rest) \in Seq(Step) /\ Then(f, role, rest) # <<>>
         /\ Head(Then(f, role, rest)) = <<f, role>>
         /\ Tail(Then(f, role, rest)) = rest
         /\ Len(Then(f, role, rest)) = Len(rest) + 1
         /\ rest # <<>> => Then(f, role, rest)[Len(rest) + 1] = rest[Len(rest)]
<1> DEFINE one == <<<<f, role>>>>
           all == one \o rest
<1>1. one \in Seq(Step) /\ Len(one) = 1 /\ one[1] = <<f, role>>
  OBVIOUS
<1>2. /\ all \in Seq(Step) /\ Len(all) = Len(rest) + 1 /\ Len(rest) \in Nat
      /\ \A k \in 1..(1 + Len(rest)) :
           all[k] = IF k <= 1 THEN one[k] ELSE rest[k - 1]
  BY <1>1, ConcatProperties
<1> HIDE DEF all
<1>3. all # <<>> /\ Head(all) = <<f, role>>
  BY <1>1, <1>2
<1>4. /\ Tail(all) \in Seq(Step) /\ Len(Tail(all)) = Len(rest)
      /\ \A k \in 1..Len(rest) : Tail(all)[k] = all[k + 1]
  BY <1>2, <1>3, HeadTailProperties
<1>5. \A k \in 1..Len(rest) : all[k + 1] = rest[k]
  BY <1>2
<1>6. Tail(all) = rest
  <2>1. \A k \in 1..Len(Tail(all)) : Tail(all)[k] = rest[k]
    BY <1>4, <1>5
  <2>. QED
    BY <1>4, <2>1, SeqEqual
<1>7. rest # <<>> => all[Len(rest) + 1] = rest[Len(rest)]
  <2>1. rest # <<>> => Len(rest) \in 1..Len(rest)
    BY <1>2
  <2>. QED
    BY <1>5, <2>1
<1>. QED
  BY <1>2, <1>3, <1>6, <1>7 DEF Then, all

(***************************************************************************)
(* Where a call can be: what is left of final, of init followed by what    *)
(* the one-shot function adds, of update.                                  *)
(***************************************************************************)
F1 == Then("final", "mac", <<>>)
F2 == Then("update", "digest", F1)
F3 == Then("update", "opad", F2)
F4 == Then("init", "outer", F3)
F5 == Then("final", "digest", F4)
AtData(rest)  == Then("update", "data", rest)
AtRefuse      == Then("refuse", "data", <<>>)
AtIpad(rest)  == Then("update", "ipad", rest)
AtInner(rest) == Then("init", "inner", AtIpad(rest))
AtKey3(rest)  == Then("final", "key", AtInner(rest))
AtKey2(rest)  == Then("update", "key", AtKey3(rest))
AtKey1(rest)  == Then("init", "key", AtKey2(rest))

Rests == {<<>>, AtData(F5), AtRefuse}

Inside == {F1, F2, F3, F4}

Points ==
  {<<>>, F5, AtData(<<>>), AtData(F5), AtRefuse} \cup Inside
    \cup UNION {{AtIpad(r), AtInner(r), AtKey3(r), AtKey2(r), AtKey1(r)} : r \in Rests}

LEMMA StepsOfCalls ==
  /\ <<>> \in Seq(Step)
  /\ <<"final", "mac">> \in Step /\ <<"update", "digest">> \in Step
  /\ <<"update", "opad">> \in Step /\ <<"init", "outer">> \in Step
  /\ <<"final", "digest">> \in Step /\ <<"update", "data">> \in Step
  /\ <<"refuse", "data">> \in Step /\ <<"update", "ipad">> \in Step
  /\ <<"init", "inner">> \in Step /\ <<"final", "key">> \in Step
  /\ <<"update", "key">> \in Step /\ <<"init", "key">> \in Step
BY DEF Step

LEMMA FinalPoints ==
  /\ F1 \in Seq(Step) /\ F1 # <<>> /\ Head(F1) = <<"final", "mac">> /\ Tail(F1) = <<>>
  /\ F2 \in Seq(Step) /\ F2 # <<>> /\ Head(F2) = <<"update", "digest">> /\ Tail(F2) = F1
  /\ F3 \in Seq(Step) /\ F3 # <<>> /\ Head(F3) = <<"update", "opad">> /\ Tail(F3) = F2
  /\ F4 \in Seq(Step) /\ F4 # <<>> /\ Head(F4) = <<"init", "outer">> /\ Tail(F4) = F3
  /\ F5 \in Seq(Step) /\ F5 # <<>> /\ Head(F5) = <<"final", "digest">> /\ Tail(F5) = F4
<1>1. /\ F1 \in Seq(Step) /\ F1 # <<>> /\ Head(F1) = <<"final", "mac">> /\ Tail(F1) = <<>>
  BY ThenIs, StepsOfCalls DEF F1
<1>2. F2 \in Seq(Step) /\ F2 # <<>> /\ Head(F2) = <<"update", "digest">> /\ Tail(F2) = F1
  <2>1. F1 \in Seq(Step) /\ <<"update", "digest">> \in Step
    BY <1>1, StepsOfCalls
  <2>. QED
    BY <2>1, ThenIs DEF F2
<1>3. F3 \in Seq(Step) /\ F3 # <<>> /\ Head(F3) = <<"update", "opad">> /\ Tail(F3) = F2
  <2>1. F2 \in Seq(Step) /\ <<"update", "opad">> \in Step
    BY <1>2, StepsOfCalls
  <2>. QED
    BY <2>1, ThenIs DEF F3
<1>4. F4 \in Seq(Step) /\ F4 # <<>> /\ Head(F4) = <<"init", "outer">> /\ Tail(F4) = F3
  <2>1. F3 \in Seq(Step) /\ <<"init", "outer">> \in Step
    BY <1>3, StepsOfCalls
  <2>. QED
    BY <2>1, ThenIs DEF F4
<1>5. F5 \in Seq(Step) /\ F5 # <<>> /\ Head(F5) = <<"final", "digest">> /\ Tail(F5) = F4
  <2>1. F4 \in Seq(Step) /\ <<"final", "digest">> \in Step
    BY <1>4, StepsOfCalls
  <2>. QED
    BY <2>1, ThenIs DEF F5
<1>. QED
  BY <1>1, <1>2, <1>3, <1>4, <1>5

(* Wherever final is, its last callback is still to come. *)
LEMMA InsideFinal ==
  ASSUME NEW q \in Inside \cup {F5}
  PROVE  Len(q) \in 1..5 /\ q[Len(q)] = <<"final", "mac">>
<1>1. Len(F1) = 1 /\ F1[1] = <<"final", "mac">>
  BY DEF F1, Then
<1>2. Len(F2) = 2 /\ F2[2] = <<"final", "mac">>
  <2>1. /\ F1 \in Seq(Step) /\ F1 # <<>> /\ Len(F1) = 1
        /\ <<"update", "digest">> \in Step
    BY <1>1, FinalPoints, StepsOfCalls
  <2>2. Len(F2) = Len(F1) + 1 /\ F2[Len(F1) + 1] = F1[Len(F1)]
    BY <2>1, ThenIs DEF F2
  <2>. QED
    BY <1>1, <2>1, <2>2
<1>3. Len(F3) = 3 /\ F3[3] = <<"final", "mac">>
  <2>1. /\ F2 \in Seq(Step) /\ F2 # <<>> /\ Len(F2) = 2
        /\ <<"update", "opad">> \in Step
    BY <1>2, FinalPoints, StepsOfCalls
  <2>2. Len(F3) = Len(F2) + 1 /\ F3[Len(F2) + 1] = F2[Len(F2)]
    BY <2>1, ThenIs DEF F3
  <2>. QED
    BY <1>2, <2>1, <2>2
<1>4. Len(F4) = 4 /\ F4[4] = <<"final", "mac">>
  <2>1. /\ F3 \in Seq(Step) /\ F3 # <<>> /\ Len(F3) = 3
        /\ <<"init", "outer">> \in Step
    BY <1>3, FinalPoints, StepsOfCalls
  <2>2. Len(F4) = Len(F3) + 1 /\ F4[Len(F3) + 1] = F3[Len(F3)]
    BY <2>1, ThenIs DEF F4
  <2>. QED
    BY <1>3, <2>1, <2>2
<1>5. Len(F5) = 5 /\ F5[5] = <<"final", "mac">>
  <2>1. /\ F4 \in Seq(Step) /\ F4 # <<>> /\ Len(F4) = 4
        /\ <<"final", "digest">> \in Step
    BY <1>4, FinalPoints, StepsOfCalls
  <2>2. Len(F5) = Len(F4) + 1 /\ F5[Len(F4) + 1] = F4[Len(F4)]
    BY <2>1, ThenIs DEF F5
  <2>. QED
    BY <1>4, <2>1, <2>2
<1>6. q = F1 \/ q = F2 \/ q = F3 \/ q = F4 \/ q = F5
  BY DEF Inside
<1>7. 1 \in 1..5 /\ 2 \in 1..5 /\ 3 \in 1..5 /\ 4 \in 1..5 /\ 5 \in 1..5
  OBVIOUS
<1>8. q = F1 => Len(q) \in 1..5 /\ q[Len(q)] = <<"final", "mac">>
  BY <1>1, <1>7
<1>9. q = F2 => Len(q) \in 1..5 /\ q[Len(q)] = <<"final", "mac">>
  BY <1>2, <1>7
<1>10. q = F3 => Len(q) \in 1..5 /\ q[Len(q)] = <<"final", "mac">>
  BY <1>3, <1>7
<1>11. q = F4 => Len(q) \in 1..5 /\ q[Len(q)] = <<"final", "mac">>
  BY <1>4, <1>7
<1>12. q = F5 => Len(q) \in 1..5 /\ q[Len(q)] = <<"final", "mac">>
  BY <1>5, <1>7
<1>. QED
  BY <1>6, <1>8, <1>9, <1>10, <1>11, <1>12

LEMMA OtherPoints ==
  /\ \A r \in {<<>>, F5} :
       /\ AtData(r) \in Seq(Step) /\ AtData(r) # <<>>
       /\ Head(AtData(r)) = <<"update", "data">> /\ Tail(AtData(r)) = r
  /\ AtRefuse \in Seq(Step) /\ AtRefuse # <<>>
  /\ Head(AtRefuse) = <<"refuse", "data">> /\ Tail(AtRefuse) = <<>>
<1>1. \A r \in {<<>>, F5} : r \in Seq(Step)
  BY StepsOfCalls, FinalPoints
<1>. QED
  BY <1>1, ThenIs, StepsOfCalls DEF AtData, AtRefuse

LEMMA InitPoints ==
  ASSUME NEW r \in Rests
  PROVE  /\ r \in Seq(Step)
         /\ AtIpad(r) \in Seq(Step) /\ AtIpad(r) # <<>>
         /\ Head(AtIpad(r)) = <<"update", "ipad">> /\ Tail(AtIpad(r)) = r
         /\ AtInner(r) \in Seq(Step) /\ AtInner(r) # <<>>
         /\ Head(AtInner(r)) = <<"init", "inner">> /\ Tail(AtInner(r)) = AtIpad(r)
         /\ AtKey3(r) \in Seq(Step) /\ AtKey3(r) # <<>>
         /\ Head(AtKey3(r)) = <<"final", "key">> /\ Tail(AtKey3(r)) = AtInner(r)
         /\ AtKey2(r) \in Seq(Step) /\ AtKey2(r) # <<>>
         /\ Head(AtKey2(r)) = <<"update", "key">> /\ Tail(AtKey2(r)) = AtKey3(r)
         /\ AtKey1(r) \in Seq(Step) /\ AtKey1(r) # <<>>
         /\ Head(AtKey1(r)) = <<"init", "key">> /\ Tail(AtKey1(r)) = AtKey2(r)
<1>1. r \in Seq(Step)
  BY StepsOfCalls, OtherPoints DEF Rests
<1>2. /\ AtIpad(r) \in Seq(Step) /\ AtIpad(r) # <<>>
      /\ Head(AtIpad(r)) = <<"update", "ipad">> /\ Tail(AtIpad(r)) = r
  <2>1. r \in Seq(Step) /\ <<"update", "ipad">> \in Step
    BY <1>1, StepsOfCalls
  <2>. QED
    BY <2>1, ThenIs DEF AtIpad
<1>3. /\ AtInner(r) \in Seq(Step) /\ AtInner(r) # <<>>
      /\ Head(AtInner(r)) = <<"init", "inner">> /\ Tail(AtInner(r)) = AtIpad(r)
  <2>1. AtIpad(r) \in Seq(Step) /\ <<"init", "inner">> \in Step
    BY <1>2, StepsOfCalls
  <2>. QED
    BY <2>1, ThenIs DEF AtInner
<1>4. /\ AtKey3(r) \in Seq(Step) /\ AtKey3(r) # <<>>
      /\ Head(AtKey3(r)) = <<"final", "key">> /\ Tail(AtKey3(r)) = AtInner(r)
  <2>1. AtInner(r) \in Seq(Step) /\ <<"final", "key">> \in Step
    BY <1>3, StepsOfCalls
  <2>. QED
    BY <2>1, ThenIs DEF AtKey3
<1>5. /\ AtKey2(r) \in Seq(Step) /\ AtKey2(r) # <<>>
      /\ Head(AtKey2(r)) = <<"update", "key">> /\ Tail(AtKey2(r)) = AtKey3(r)
  <2>1. AtKey3(r) \in Seq(Step) /\ <<"update", "key">> \in Step
    BY <1>4, StepsOfCalls
  <2>. QED
    BY <2>1, ThenIs DEF AtKey2
<1>6. /\ AtKey1(r) \in Seq(Step) /\ AtKey1(r) # <<>>
      /\ Head(AtKey1(r)) = <<"init", "key">> /\ Tail(AtKey1(r)) = AtKey2(r)
  <2>1. AtKey2(r) \in Seq(Step) /\ <<"init", "key">> \in Step
    BY <1>5, StepsOfCalls
  <2>. QED
    BY <2>1, ThenIs DEF AtKey1
<1>. QED
  BY <1>1, <1>2, <1>3, <1>4, <1>5, <1>6

(***************************************************************************)
(* The calls begin at these points.                                        *)
(***************************************************************************)
LEMMA CallsBegin ==
  /\ FinalSteps = F5
  /\ UpdateSteps = AtData(<<>>)
  /\ \A type, k :
       /\ InitSteps(type, k) =
            IF KeyLen[k] > BlockSize(type) THEN AtKey1(<<>>) ELSE AtInner(<<>>)
       /\ InitSteps(type, k) \o UpdateSteps \o FinalSteps =
            IF KeyLen[k] > BlockSize(type) THEN AtKey1(AtData(F5)) ELSE AtInner(AtData(F5))
       /\ InitSteps(type, k) \o <<<<"refuse", "data">>>> =
            IF KeyLen[k] > BlockSize(type) THEN AtKey1(AtRefuse) ELSE AtInner(AtRefuse)
<1>1. FinalSteps = F5
  <2>1. F1 = <<<<"final", "mac">>>>
    BY ConcatEmptySeq DEF F1, Then
  <2>2. FinalSteps = <<<<"final", "digest">>>> \o (<<<<"init", "outer">>>> \o
          (<<<<"update", "opad">>>> \o (<<<<"update", "digest">>>> \o <<<<"final", "mac">>>>)))
    BY DEF FinalSteps
  <2>. QED
    BY <2>1, <2>2 DEF F2, F3, F4, F5, Then
<1>2. UpdateSteps = AtData(<<>>)
  BY DEF UpdateSteps, AtData, Then
<1>3. AtRefuse = <<<<"refuse", "data">>>>
  BY DEF AtRefuse, Then
<1>4. UpdateSteps \o FinalSteps = AtData(F5)
  BY <1>1 DEF UpdateSteps, AtData, Then
<1> DEFINE inner == <<<<"init", "inner">>, <<"update", "ipad">>>>
           keyed == <<<<"init", "key">>, <<"update", "key">>, <<"final", "key">>>>
<1>5. ASSUME NEW r \in Rests
      PROVE  inner \o r = AtInner(r) /\ (keyed \o inner) \o r = AtKey1(r)
  <2>1. r \in Seq(Step)
    BY InitPoints
  <2>2. /\ <<<<"init", "inner">>>> \in Seq(Step) /\ <<<<"update", "ipad">>>> \in Seq(Step)
        /\ <<<<"init", "key">>>> \in Seq(Step) /\ <<<<"update", "key">>>> \in Seq(Step)
        /\ <<<<"final", "key">>>> \in Seq(Step)
    BY StepsOfCalls
  <2>3. inner \in Seq(Step) /\ keyed \in Seq(Step)
    BY StepsOfCalls
  <2>4. inner = <<<<"init", "inner">>>> \o <<<<"update", "ipad">>>>
    OBVIOUS
  <2>5. inner \o r = AtInner(r)
    BY <2>1, <2>2, <2>4, ConcatAssociative DEF AtInner, AtIpad, Then
  <2>6. keyed = <<<<"init", "key">>>> \o (<<<<"update", "key">>>> \o <<<<"final", "key">>>>)
    OBVIOUS
  <2>7. AtInner(r) \in Seq(Step)
    BY InitPoints
  <2>8. <<<<"update", "key">>>> \o <<<<"final", "key">>>> \in Seq(Step)
    BY <2>2, ConcatProperties
  <2>9. keyed \o AtInner(r) = <<<<"init", "key">>>> \o
          ((<<<<"update", "key">>>> \o <<<<"final", "key">>>>) \o AtInner(r))
    BY <2>2, <2>6, <2>7, <2>8, ConcatAssociative
  <2>10. (<<<<"update", "key">>>> \o <<<<"final", "key">>>>) \o AtInner(r)
           = <<<<"update", "key">>>> \o (<<<<"final", "key">>>> \o AtInner(r))
    BY <2>2, <2>7, ConcatAssociative
  <2>11. (keyed \o inner) \o r = keyed \o (inner \o r)
    BY <2>1, <2>3, ConcatAssociative
  <2>. QED
    BY <2>5, <2>9, <2>10, <2>11 DEF AtKey1, AtKey2, AtKey3, Then
<1>6. ASSUME NEW type, NEW k, NEW r \in Rests
      PROVE  InitSteps(type, k) \o r
               = IF KeyLen[k] > BlockSize(type) THEN AtKey1(r) ELSE AtInner(r)
  <2>1. r \in Seq(Step) /\ inner \in Seq(Step)
    BY InitPoints, StepsOfCalls
  <2>2. <<>> \o inner = inner
    OBVIOUS
  <2>3. CASE KeyLen[k] > BlockSize(type)
    BY <1>5, <2>3 DEF InitSteps
  <2>4. CASE ~(KeyLen[k] > BlockSize(type))
    BY <1>5, <2>2, <2>4 DEF InitSteps
  <2>. QED
    BY <2>3, <2>4
<1>7. ASSUME NEW type, NEW k
      PROVE  /\ InitSteps(type, k) \in Seq(Step)
             /\ InitSteps(type, k) \o <<>> = InitSteps(type, k)
             /\ (InitSteps(type, k) \o UpdateSteps) \o FinalSteps
                  = InitSteps(type, k) \o (UpdateSteps \o FinalSteps)
  <2>1. inner \in Seq(Step) /\ keyed \in Seq(Step) /\ <<>> \in Seq(Step)
    BY StepsOfCalls
  <2>2. InitSteps(type, k) \in Seq(Step)
    BY <2>1, ConcatProperties DEF InitSteps
  <2>3. UpdateSteps \in Seq(Step) /\ FinalSteps \in Seq(Step)
    BY <1>1, <1>2, FinalPoints, OtherPoints
  <2>. QED
    BY <2>2, <2>3, ConcatAssociative, ConcatEmptySeq
<1>8. <<>> \in Rests /\ AtData(F5) \in Rests /\ AtRefuse \in Rests
  BY DEF Rests
<1>9. ASSUME NEW type, NEW k
      PROVE  InitSteps(type, k) = IF KeyLen[k] > BlockSize(type) THEN AtKey1(<<>>) ELSE AtInner(<<>>)
  <2>1. InitSteps(type, k) \o <<>>
          = IF KeyLen[k] > BlockSize(type) THEN AtKey1(<<>>) ELSE AtInner(<<>>)
    BY <1>6, <1>8
  <2>2. InitSteps(type, k) \o <<>> = InitSteps(type, k)
    BY <1>7
  <2>. QED
    BY <2>1, <2>2, Zenon
<1>10. ASSUME NEW type, NEW k
       PROVE  InitSteps(type, k) \o UpdateSteps \o FinalSteps =
                IF KeyLen[k] > BlockSize(type) THEN AtKey1(AtData(F5)) ELSE AtInner(AtData(F5))
  <2>1. InitSteps(type, k) \o (UpdateSteps \o FinalSteps)
          = IF KeyLen[k] > BlockSize(type) THEN AtKey1(AtData(F5)) ELSE AtInner(AtData(F5))
    <3>1. InitSteps(type, k) \o AtData(F5)
            = IF KeyLen[k] > BlockSize(type) THEN AtKey1(AtData(F5)) ELSE AtInner(AtData(F5))
      BY <1>6, <1>8
    <3>. QED
      BY <3>1, <1>4
  <2>2. (InitSteps(type, k) \o UpdateSteps) \o FinalSteps
          = InitSteps(type, k) \o (UpdateSteps \o FinalSteps)
    BY <1>7
  <2>. QED
    BY <2>1, <2>2, Zenon
<1>11. ASSUME NEW type, NEW k
       PROVE  InitSteps(type, k) \o <<<<"refuse", "data">>>> =
                IF KeyLen[k] > BlockSize(type) THEN AtKey1(AtRefuse) ELSE AtInner(AtRefuse)
  <2>1. InitSteps(type, k) \o AtRefuse
          = IF KeyLen[k] > BlockSize(type) THEN AtKey1(AtRefuse) ELSE AtInner(AtRefuse)
    BY <1>6, <1>8
  <2>. QED
    BY <2>1, <1>3
<1>. QED
  BY <1>1, <1>2, <1>9, <1>10, <1>11
-----------------------------------------------------------------------------
(***************************************************************************)
(* Where a call is: the callback it makes next.                            *)
(***************************************************************************)
Idle     == <<"idle", "idle">>
Place(p) == IF p = <<>> THEN Idle ELSE Head(p)
At(c)    == Place(todo[c])

KeyPlaces   == {<<"init", "key">>, <<"update", "key">>, <<"final", "key">>, <<"init", "inner">>,
                <<"update", "ipad">>}
DataPlaces  == {<<"update", "data">>, <<"refuse", "data">>, <<"final", "digest">>}
FinalPlaces == {<<"init", "outer">>, <<"update", "opad">>, <<"update", "digest">>,
                <<"final", "mac">>}

(* The next place. *)
Follows ==
  {<<<<"init", "key">>, <<"update", "key">>>>,
   <<<<"update", "key">>, <<"final", "key">>>>,
   <<<<"final", "key">>, <<"init", "inner">>>>,
   <<<<"init", "inner">>, <<"update", "ipad">>>>,
   <<<<"update", "ipad">>, Idle>>,
   <<<<"update", "ipad">>, <<"update", "data">>>>,
   <<<<"update", "ipad">>, <<"refuse", "data">>>>,
   <<<<"update", "data">>, Idle>>,
   <<<<"update", "data">>, <<"final", "digest">>>>,
   <<<<"refuse", "data">>, Idle>>,
   <<<<"final", "digest">>, <<"init", "outer">>>>,
   <<<<"init", "outer">>, <<"update", "opad">>>>,
   <<<<"update", "opad">>, <<"update", "digest">>>>,
   <<<<"update", "digest">>, <<"final", "mac">>>>,
   <<<<"final", "mac">>, Idle>>}

Good(p) ==
  /\ p \in Seq(Step)
  /\ p = <<>> <=> Place(p) = Idle
  /\ p # <<>> => /\ Tail(p) \in Points
                 /\ Place(p) = Head(p)
                 /\ <<Place(p), Place(Tail(p))>> \in Follows
  /\ Place(p) \in FinalPlaces => p \in Inside

LEMMA Apart ==
  /\ \A x \in KeyPlaces \cup DataPlaces : x # Idle /\ x \notin FinalPlaces
  /\ \A x \in FinalPlaces : x # Idle
  /\ Idle \notin FinalPlaces
BY DEF Idle, KeyPlaces, DataPlaces, FinalPlaces

LEMMA GoodIf ==
  ASSUME NEW q \in Seq(Step), q # <<>>, NEW x, Head(q) = x, NEW t \in Points, Tail(q) = t,
         x # Idle, x \in FinalPlaces => q \in Inside, <<x, Place(t)>> \in Follows
  PROVE  Good(q)
BY DEF Good, Place

LEMMA Places == \A p \in Points : Good(p)
<1>1. /\ Place(<<>>) = Idle /\ Place(F1) = <<"final", "mac">>
      /\ Place(F2) = <<"update", "digest">> /\ Place(F3) = <<"update", "opad">>
      /\ Place(F4) = <<"init", "outer">> /\ Place(F5) = <<"final", "digest">>
      /\ Place(AtRefuse) = <<"refuse", "data">>
  BY FinalPoints, OtherPoints DEF Place
<1>2. \A r \in {<<>>, F5} : Place(AtData(r)) = <<"update", "data">>
  BY OtherPoints DEF Place
<1>3. ASSUME NEW r \in Rests
      PROVE  /\ Place(r) \in {Idle, <<"update", "data">>, <<"refuse", "data">>}
             /\ Place(AtIpad(r)) = <<"update", "ipad">> /\ Place(AtInner(r)) = <<"init", "inner">>
             /\ Place(AtKey3(r)) = <<"final", "key">> /\ Place(AtKey2(r)) = <<"update", "key">>
             /\ Place(AtKey1(r)) = <<"init", "key">>
  <2>1. Place(r) \in {Idle, <<"update", "data">>, <<"refuse", "data">>}
    BY <1>1, <1>2 DEF Rests
  <2>. QED
    BY <2>1, InitPoints DEF Place
<1>4. /\ <<>> \in Points /\ F1 \in Points /\ F2 \in Points /\ F3 \in Points /\ F4 \in Points
      /\ F5 \in Points /\ AtRefuse \in Points /\ AtData(<<>>) \in Points /\ AtData(F5) \in Points
      /\ F1 \in Inside /\ F2 \in Inside /\ F3 \in Inside /\ F4 \in Inside
  BY DEF Points, Inside
<1>5. ASSUME NEW r \in Rests
      PROVE  /\ r \in Points /\ AtIpad(r) \in Points /\ AtInner(r) \in Points
             /\ AtKey3(r) \in Points /\ AtKey2(r) \in Points /\ AtKey1(r) \in Points
  BY DEF Points, Rests
<1>6. Good(<<>>)
  BY <1>1, StepsOfCalls, Apart DEF Good
<1>7. Good(F1)
  <2>1. F1 \in Seq(Step) /\ F1 # <<>> /\ Head(F1) = <<"final", "mac">> /\ Tail(F1) = <<>>
    BY FinalPoints
  <2>2. <<<<"final", "mac">>, Place(<<>>)>> \in Follows /\ <<>> \in Points
    BY <1>1, <1>4 DEF Follows
  <2>3. <<"final", "mac">> # Idle /\ F1 \in Inside
    BY <1>4, Apart DEF FinalPlaces
  <2>. QED
    BY <2>1, <2>2, <2>3, GoodIf
<1>8. Good(F2)
  <2>1. F2 \in Seq(Step) /\ F2 # <<>> /\ Head(F2) = <<"update", "digest">> /\ Tail(F2) = F1
    BY FinalPoints
  <2>2. <<<<"update", "digest">>, Place(F1)>> \in Follows /\ F1 \in Points
    BY <1>1, <1>4 DEF Follows
  <2>3. <<"update", "digest">> # Idle /\ F2 \in Inside
    BY <1>4, Apart DEF FinalPlaces
  <2>. QED
    BY <2>1, <2>2, <2>3, GoodIf
<1>9. Good(F3)
  <2>1. F3 \in Seq(Step) /\ F3 # <<>> /\ Head(F3) = <<"update", "opad">> /\ Tail(F3) = F2
    BY FinalPoints
  <2>2. <<<<"update", "opad">>, Place(F2)>> \in Follows /\ F2 \in Points
    BY <1>1, <1>4 DEF Follows
  <2>3. <<"update", "opad">> # Idle /\ F3 \in Inside
    BY <1>4, Apart DEF FinalPlaces
  <2>. QED
    BY <2>1, <2>2, <2>3, GoodIf
<1>10. Good(F4)
  <2>1. F4 \in Seq(Step) /\ F4 # <<>> /\ Head(F4) = <<"init", "outer">> /\ Tail(F4) = F3
    BY FinalPoints
  <2>2. <<<<"init", "outer">>, Place(F3)>> \in Follows /\ F3 \in Points
    BY <1>1, <1>4 DEF Follows
  <2>3. <<"init", "outer">> # Idle /\ F4 \in Inside
    BY <1>4, Apart DEF FinalPlaces
  <2>. QED
    BY <2>1, <2>2, <2>3, GoodIf
<1>11. Good(F5)
  <2>1. F5 \in Seq(Step) /\ F5 # <<>> /\ Head(F5) = <<"final", "digest">> /\ Tail(F5) = F4
    BY FinalPoints
  <2>2. <<<<"final", "digest">>, Place(F4)>> \in Follows /\ F4 \in Points
    BY <1>1, <1>4 DEF Follows
  <2>3. <<"final", "digest">> # Idle /\ <<"final", "digest">> \notin FinalPlaces
    BY Apart DEF KeyPlaces, DataPlaces
  <2>. QED
    BY <2>1, <2>2, <2>3, GoodIf
<1>12. Good(AtRefuse)
  <2>1. AtRefuse \in Seq(Step) /\ AtRefuse # <<>> /\ Head(AtRefuse) = <<"refuse", "data">> /\ Tail(AtRefuse) = <<>>
    BY OtherPoints
  <2>2. <<<<"refuse", "data">>, Place(<<>>)>> \in Follows /\ <<>> \in Points
    BY <1>1, <1>4 DEF Follows
  <2>3. <<"refuse", "data">> # Idle /\ <<"refuse", "data">> \notin FinalPlaces
    BY Apart DEF KeyPlaces, DataPlaces
  <2>. QED
    BY <2>1, <2>2, <2>3, GoodIf
<1>13. ASSUME NEW r \in {<<>>, F5} PROVE Good(AtData(r))
  <2>1. AtData(r) \in Seq(Step) /\ AtData(r) # <<>> /\ Head(AtData(r)) = <<"update", "data">> /\ Tail(AtData(r)) = r
    BY OtherPoints
  <2>2. <<<<"update", "data">>, Place(r)>> \in Follows /\ r \in Points
    BY <1>1, <1>4 DEF Follows
  <2>3. <<"update", "data">> # Idle /\ <<"update", "data">> \notin FinalPlaces
    BY Apart DEF KeyPlaces, DataPlaces
  <2>. QED
    BY <2>1, <2>2, <2>3, GoodIf
<1>14. ASSUME NEW r \in Rests PROVE Good(AtIpad(r))
  <2>1. AtIpad(r) \in Seq(Step) /\ AtIpad(r) # <<>> /\ Head(AtIpad(r)) = <<"update", "ipad">> /\ Tail(AtIpad(r)) = r
    BY InitPoints
  <2>2. <<<<"update", "ipad">>, Place(r)>> \in Follows /\ r \in Points
    BY <1>3, <1>5 DEF Follows
  <2>3. <<"update", "ipad">> # Idle /\ <<"update", "ipad">> \notin FinalPlaces
    BY Apart DEF KeyPlaces, DataPlaces
  <2>. QED
    BY <2>1, <2>2, <2>3, GoodIf
<1>15. ASSUME NEW r \in Rests PROVE Good(AtInner(r))
  <2>1. AtInner(r) \in Seq(Step) /\ AtInner(r) # <<>> /\ Head(AtInner(r)) = <<"init", "inner">> /\ Tail(AtInner(r)) = AtIpad(r)
    BY InitPoints
  <2>2. <<<<"init", "inner">>, Place(AtIpad(r))>> \in Follows /\ AtIpad(r) \in Points
    BY <1>3, <1>5 DEF Follows
  <2>3. <<"init", "inner">> # Idle /\ <<"init", "inner">> \notin FinalPlaces
    BY Apart DEF KeyPlaces, DataPlaces
  <2>. QED
    BY <2>1, <2>2, <2>3, GoodIf
<1>16. ASSUME NEW r \in Rests PROVE Good(AtKey3(r))
  <2>1. AtKey3(r) \in Seq(Step) /\ AtKey3(r) # <<>> /\ Head(AtKey3(r)) = <<"final", "key">> /\ Tail(AtKey3(r)) = AtInner(r)
    BY InitPoints
  <2>2. <<<<"final", "key">>, Place(AtInner(r))>> \in Follows /\ AtInner(r) \in Points
    BY <1>3, <1>5 DEF Follows
  <2>3. <<"final", "key">> # Idle /\ <<"final", "key">> \notin FinalPlaces
    BY Apart DEF KeyPlaces, DataPlaces
  <2>. QED
    BY <2>1, <2>2, <2>3, GoodIf
<1>17. ASSUME NEW r \in Rests PROVE Good(AtKey2(r))
  <2>1. AtKey2(r) \in Seq(Step) /\ AtKey2(r) # <<>> /\ Head(AtKey2(r)) = <<"update", "key">> /\ Tail(AtKey2(r)) = AtKey3(r)
    BY InitPoints
  <2>2. <<<<"update", "key">>, Place(AtKey3(r))>> \in Follows /\ AtKey3(r) \in Points
    BY <1>3, <1>5 DEF Follows
  <2>3. <<"update", "key">> # Idle /\ <<"update", "key">> \notin FinalPlaces
    BY Apart DEF KeyPlaces, DataPlaces
  <2>. QED
    BY <2>1, <2>2, <2>3, GoodIf
<1>18. ASSUME NEW r \in Rests PROVE Good(AtKey1(r))
  <2>1. AtKey1(r) \in Seq(Step) /\ AtKey1(r) # <<>> /\ Head(AtKey1(r)) = <<"init", "key">> /\ Tail(AtKey1(r)) = AtKey2(r)
    BY InitPoints
  <2>2. <<<<"init", "key">>, Place(AtKey2(r))>> \in Follows /\ AtKey2(r) \in Points
    BY <1>3, <1>5 DEF Follows
  <2>3. <<"init", "key">> # Idle /\ <<"init", "key">> \notin FinalPlaces
    BY Apart DEF KeyPlaces, DataPlaces
  <2>. QED
    BY <2>1, <2>2, <2>3, GoodIf
<1>19. ASSUME NEW p \in Points PROVE Good(p)
  <2>1. \/ p \in {<<>>, F1, F2, F3, F4, F5, AtRefuse}
        \/ \E r \in {<<>>, F5} : p = AtData(r)
        \/ \E r \in Rests : p \in {AtIpad(r), AtInner(r), AtKey3(r), AtKey2(r), AtKey1(r)}
    BY DEF Points, Inside
  <2>. QED
    BY <2>1, <1>6, <1>7, <1>8, <1>9, <1>10, <1>11, <1>12, <1>13, <1>14, <1>15, <1>16, <1>17, <1>18
<1>. QED
  BY <1>19

(* Where the calls begin. *)
LEMMA BeginPlaces ==
  ASSUME NEW type, NEW k
  PROVE  /\ FinalSteps \in Points /\ Place(FinalSteps) = <<"final", "digest">>
         /\ UpdateSteps \in Points /\ Place(UpdateSteps) = <<"update", "data">>
         /\ \A p \in {InitSteps(type, k), InitSteps(type, k) \o UpdateSteps \o FinalSteps,
                      InitSteps(type, k) \o <<<<"refuse", "data">>>>} :
              /\ p \in Points
              /\ Place(p) = IF KeyLen[k] > BlockSize(type)
                            THEN <<"init", "key">> ELSE <<"init", "inner">>
<1>1. /\ FinalSteps \in Points /\ UpdateSteps \in Points
      /\ Place(FinalSteps) = <<"final", "digest">> /\ Place(UpdateSteps) = <<"update", "data">>
  BY CallsBegin, FinalPoints, OtherPoints DEF Points, Place
<1>2. ASSUME NEW r \in Rests
      PROVE  /\ AtKey1(r) \in Points /\ Place(AtKey1(r)) = <<"init", "key">>
             /\ AtInner(r) \in Points /\ Place(AtInner(r)) = <<"init", "inner">>
  BY InitPoints DEF Points, Place
<1>3. ASSUME NEW r \in Rests, NEW p,
             p = IF KeyLen[k] > BlockSize(type) THEN AtKey1(r) ELSE AtInner(r)
      PROVE  /\ p \in Points
             /\ Place(p) = IF KeyLen[k] > BlockSize(type)
                           THEN <<"init", "key">> ELSE <<"init", "inner">>
  <2>1. CASE KeyLen[k] > BlockSize(type)
    BY <1>2, <1>3, <2>1
  <2>2. CASE ~(KeyLen[k] > BlockSize(type))
    BY <1>2, <1>3, <2>2
  <2>. QED
    BY <2>1, <2>2
<1>4. <<>> \in Rests /\ AtData(F5) \in Rests /\ AtRefuse \in Rests
  BY DEF Rests
<1>5. /\ InitSteps(type, k) = IF KeyLen[k] > BlockSize(type) THEN AtKey1(<<>>) ELSE AtInner(<<>>)
      /\ InitSteps(type, k) \o UpdateSteps \o FinalSteps
           = IF KeyLen[k] > BlockSize(type) THEN AtKey1(AtData(F5)) ELSE AtInner(AtData(F5))
      /\ InitSteps(type, k) \o <<<<"refuse", "data">>>>
           = IF KeyLen[k] > BlockSize(type) THEN AtKey1(AtRefuse) ELSE AtInner(AtRefuse)
  BY CallsBegin
<1> HIDE DEF Place
<1>6. ASSUME NEW p \in {InitSteps(type, k), InitSteps(type, k) \o UpdateSteps \o FinalSteps,
                        InitSteps(type, k) \o <<<<"refuse", "data">>>>}
      PROVE  \E r \in Rests : p = IF KeyLen[k] > BlockSize(type) THEN AtKey1(r) ELSE AtInner(r)
  BY <1>4, <1>5, Zenon
<1>. QED
  BY <1>1, <1>3, <1>6
-----------------------------------------------------------------------------
(***************************************************************************)
(* The invariant.  What a context says of its own call: where it is, whose *)
(* items the hash_ctx of its table then holds, and that what it keeps in   *)
(* key and out is what the standard has there.                             *)
(***************************************************************************)
Said == {<<"data", d>> : d \in Chunks \cup {"none"}}

Kinds ==
  /\ usage \in Usages
  /\ level \in {"MIN", "MAX"}
  /\ table \in [Contexts -> Tables]
  /\ DOMAIN hash = Tables /\ DOMAIN owner = Tables
  /\ DOMAIN key = Contexts /\ DOMAIN out = Contexts
  /\ \A c \in Contexts, k \in Keys :
       key[c] = <<"key", k>> => KeyLen[k] <= HashBlock(Type(c))
  /\ args \in [Contexts -> [key : Keys \cup {"none"}, data : Chunks \cup {"none"}]]
  /\ todo \in [Contexts -> Points]
  /\ status \in [Contexts -> {"OK", "FAIL", "NULL_PTR", "INCORRECT_FUNCTION_PARAM"}]
  /\ calls \in 0..usage.max_calls /\ faults \in 0..usage.max_faults
  /\ given \in [Contexts -> Keys \cup {"none"}]
  /\ said \in [Contexts -> Seq(Said)]
  /\ phase \in [Contexts -> {"opening", "open", "done", "broken"}]
  /\ wrote \in [Contexts -> BOOLEAN]

K(c)     == PaddedKey(Type(c), given[c])
Ipad(c)  == <<"ipad", K(c), HashBlock(Type(c))>>
Opad(c)  == <<"opad", K(c), HashBlock(Type(c))>>
Inner(c) == Digest(Type(c), <<Ipad(c)>> \o said[c])
Long(c)  == KeyLen[given[c]] > HashBlock(Type(c))

\* The hash_ctx of c's table holds exactly these items, all of c.
Holds(c, items) == owner[table[c]] = c /\ hash[table[c]] = items

Opening(c) == phase[c] = "opening" =>
  /\ At(c) \in KeyPlaces /\ said[c] = <<>> /\ args[c].key = given[c]
  /\ At(c) = <<"init", "key">> => Long(c)
  /\ At(c) = <<"update", "key">> => Long(c) /\ Holds(c, <<>>)
  /\ At(c) = <<"final", "key">> => Long(c) /\ Holds(c, <<<<"key", given[c]>>>>)
  /\ At(c) = <<"init", "inner">> => key[c] = K(c)
  /\ At(c) = <<"update", "ipad">> => key[c] = K(c) /\ Holds(c, <<>>)

Open(c) == phase[c] = "open" =>
  /\ key[c] = K(c) /\ At(c) \in {Idle} \cup DataPlaces \cup FinalPlaces
  /\ At(c) \in {Idle} \cup DataPlaces => Holds(c, <<Ipad(c)>> \o said[c])
  /\ At(c) = <<"init", "outer">> => out[c] = Inner(c)
  /\ At(c) = <<"update", "opad">> => out[c] = Inner(c) /\ Holds(c, <<>>)
  /\ At(c) = <<"update", "digest">> => out[c] = Inner(c) /\ Holds(c, <<Opad(c)>>)
  /\ At(c) = <<"final", "mac">> => Holds(c, <<Opad(c), Inner(c)>>)

Done(c) == phase[c] = "done" => At(c) = Idle /\ out[c] = Mac(Type(c), given[c], said[c])

Cleared(c) ==
  /\ wrote[c] => At(c) \in {Idle} \cup FinalPlaces
  /\ todo[c] # <<>> => status[c] = "OK"
  /\ level = "MAX" /\ todo[c] = <<>> /\ status[c] # "OK" /\ wrote[c] => out[c] = Wiped

Context(c) == Opening(c) /\ Open(c) /\ Done(c) /\ Cleared(c)

IInv == Kinds /\ \A c \in Contexts : Context(c)
-----------------------------------------------------------------------------
LEMMA Blocks ==
  ASSUME Kinds, NEW c \in Contexts
  PROVE  /\ Type(c) \in {"SHA1", "SHA256", "SHA512"}
         /\ BlockSize(Type(c)) = HashBlock(Type(c)) /\ HashBlock(Type(c)) \in Nat
<1>1. Type(c) \in {"SHA1", "SHA256", "SHA512"}
  BY HmacAssumption DEF Kinds, Type
<1>. QED
  BY <1>1 DEF BlockSize, HashBlock

(* What a hash holds of one context is never what it holds of a mixture. *)
LEMMA NotMixed ==
  /\ <<>> # Unknown
  /\ \A x : <<<<"key", x>>>> # Unknown
  /\ \A x, y : <<<<"opad", x, y>>>> # Unknown
  /\ \A x, y : \A s \in Seq(Said) : <<<<"ipad", x, y>>>> \o s # Unknown
<1>1. <<>> # Unknown
  BY DEF Unknown
<1>2. ASSUME NEW x PROVE <<<<"key", x>>>> # Unknown
  BY DEF Unknown
<1>3. ASSUME NEW x, NEW y PROVE <<<<"opad", x, y>>>> # Unknown
  BY DEF Unknown
<1>4. ASSUME NEW x, NEW y, NEW s \in Seq(Said) PROVE <<<<"ipad", x, y>>>> \o s # Unknown
  <2> DEFINE one == <<"ipad", x, y>>
             any == {one} \cup Said
  <2>1. <<one>> \in Seq(any) /\ s \in Seq(any) /\ Len(<<one>>) = 1
    OBVIOUS
  <2>2. (<<one>> \o s)[1] = one
    <3>1. 1 \in 1..(Len(<<one>>) + Len(s))
      BY <2>1
    <3>. QED
      BY <2>1, <3>1, ConcatProperties
  <2>3. Unknown[1] = <<"unknown">> /\ one # <<"unknown">>
    BY DEF Unknown
  <2>. QED
    BY <2>2, <2>3
<1>. QED
  BY <1>1, <1>2, <1>3, <1>4

LEMMA PlaceAt ==
  ASSUME Kinds, NEW c \in Contexts
  PROVE  /\ todo[c] \in Points /\ todo[c] \in Seq(Step)
         /\ todo[c] = <<>> <=> At(c) = Idle
         /\ todo[c] # <<>> => /\ Tail(todo[c]) \in Points
                              /\ At(c) = Head(todo[c])
                              /\ <<At(c), Place(Tail(todo[c]))>> \in Follows
         /\ At(c) \in FinalPlaces => todo[c] \in Inside
BY Places DEF Kinds, Good, At

LEMMA InitAt ==
  ASSUME Kinds, NEW c \in Contexts, Runs(c, "init")
  PROVE  \/ At(c) = <<"init", "key">> /\ Place(Tail(todo[c])) = <<"update", "key">>
         \/ At(c) = <<"init", "inner">> /\ Place(Tail(todo[c])) = <<"update", "ipad">>
         \/ At(c) = <<"init", "outer">> /\ Place(Tail(todo[c])) = <<"update", "opad">>
<1>1. At(c)[1] = "init" /\ <<At(c), Place(Tail(todo[c]))>> \in Follows
  BY PlaceAt DEF Runs
<1>. QED
  BY <1>1 DEF Follows, Idle

LEMMA UpdateAt ==
  ASSUME Kinds, NEW c \in Contexts, Runs(c, "update")
  PROVE  /\ Role(c) = At(c)[2]
         /\ \/ At(c) = <<"update", "key">> /\ Place(Tail(todo[c])) = <<"final", "key">>
            \/ /\ At(c) = <<"update", "ipad">>
               /\ Place(Tail(todo[c])) \in {Idle, <<"update", "data">>, <<"refuse", "data">>}
            \/ At(c) = <<"update", "data">> /\ Place(Tail(todo[c])) \in {Idle, <<"final", "digest">>}
            \/ At(c) = <<"update", "opad">> /\ Place(Tail(todo[c])) = <<"update", "digest">>
            \/ At(c) = <<"update", "digest">> /\ Place(Tail(todo[c])) = <<"final", "mac">>
<1>1. /\ At(c)[1] = "update" /\ <<At(c), Place(Tail(todo[c]))>> \in Follows
      /\ Role(c) = At(c)[2]
  BY PlaceAt DEF Runs, Role
<1>. QED
  BY <1>1 DEF Follows, Idle

LEMMA FinalAt ==
  ASSUME Kinds, NEW c \in Contexts, Runs(c, "final")
  PROVE  /\ Role(c) = At(c)[2]
         /\ \/ At(c) = <<"final", "key">> /\ Place(Tail(todo[c])) = <<"init", "inner">>
            \/ At(c) = <<"final", "digest">> /\ Place(Tail(todo[c])) = <<"init", "outer">>
            \/ At(c) = <<"final", "mac">> /\ Place(Tail(todo[c])) = Idle
<1>1. /\ At(c)[1] = "final" /\ <<At(c), Place(Tail(todo[c]))>> \in Follows
      /\ Role(c) = At(c)[2]
  BY PlaceAt DEF Runs, Role
<1>. QED
  BY <1>1 DEF Follows, Idle
-----------------------------------------------------------------------------
(***************************************************************************)
(* The steps, for the other contexts: what they share is the table, and a  *)
(* context whose table was used is void, unless it has its MAC.            *)
(***************************************************************************)
Elsewhere(d) ==
  /\ table' = table /\ level' = level
  /\ todo'[d] = todo[d] /\ args'[d] = args[d] /\ status'[d] = status[d]
  /\ key'[d] = key[d] /\ out'[d] = out[d]
  /\ given'[d] = given[d] /\ said'[d] = said[d] /\ wrote'[d] = wrote[d]
  /\ \/ /\ hash'[table[d]] = hash[table[d]] /\ owner'[table[d]] = owner[table[d]]
        /\ phase'[d] = phase[d]
     \/ phase'[d] = IF phase[d] = "done" THEN "done" ELSE "broken"

LEMMA OthersKept ==
  ASSUME NEW d \in Contexts, Context(d), Elsewhere(d)
  PROVE  Context(d)'
<1>1. /\ At(d)' = At(d) /\ Type(d)' = Type(d) /\ K(d)' = K(d) /\ Ipad(d)' = Ipad(d)
      /\ Opad(d)' = Opad(d) /\ Inner(d)' = Inner(d) /\ Long(d)' = Long(d)
  BY DEF Elsewhere, At, Type, K, Ipad, Opad, Inner, Long
<1>2. CASE /\ hash'[table[d]] = hash[table[d]] /\ owner'[table[d]] = owner[table[d]]
           /\ phase'[d] = phase[d]
  <2>1. Opening(d)'
    BY <1>1, <1>2 DEF Elsewhere, Context, Opening, Holds
  <2>2. Open(d)'
    BY <1>1, <1>2 DEF Elsewhere, Context, Open, Holds
  <2>3. Done(d)'
    BY <1>1, <1>2 DEF Elsewhere, Context, Done
  <2>4. Cleared(d)'
    BY <1>1 DEF Elsewhere, Context, Cleared
  <2>. QED
    BY <2>1, <2>2, <2>3, <2>4 DEF Context
<1>3. CASE phase'[d] = IF phase[d] = "done" THEN "done" ELSE "broken"
  <2>1. Opening(d)' /\ Open(d)'
    BY <1>3 DEF Opening, Open
  <2>2. Done(d)'
    BY <1>1, <1>3 DEF Elsewhere, Context, Done
  <2>3. Cleared(d)'
    BY <1>1 DEF Elsewhere, Context, Cleared
  <2>. QED
    BY <2>1, <2>2, <2>3 DEF Context
<1>. QED
  BY <1>2, <1>3 DEF Elsewhere

(* What every callback leaves behind in its own call. *)
LEMMA ProceedKeeps ==
  ASSUME Kinds, NEW c \in Contexts, todo[c] # <<>>, Proceed(c)
  PROVE  /\ todo' \in [Contexts -> Points] /\ todo'[c] = Tail(todo[c])
         /\ At(c)' = Place(Tail(todo[c]))
         /\ todo'[c] = <<>> <=> At(c)' = Idle
         /\ At(c)' # Idle => args'[c] = args[c]
         /\ args' \in [Contexts -> [key : Keys \cup {"none"}, data : Chunks \cup {"none"}]]
         /\ \A d \in Contexts : d # c => todo'[d] = todo[d] /\ args'[d] = args[d]
         /\ UNCHANGED <<usage, level, table, status, calls, faults, given>>
         /\ Type(c)' = Type(c) /\ K(c)' = K(c) /\ Opad(c)' = Opad(c) /\ Ipad(c)' = Ipad(c)
         /\ Long(c)' = Long(c)
         /\ status[c] = status'[c]
<1>1. Tail(todo[c]) \in Points /\ todo[c] \in Seq(Step)
  BY PlaceAt
<1>2. todo' \in [Contexts -> Points] /\ todo'[c] = Tail(todo[c])
  BY <1>1 DEF Proceed, Kinds
<1>3. At(c)' = Place(Tail(todo[c]))
  BY <1>2 DEF At
<1>4. todo'[c] = <<>> <=> At(c)' = Idle
  BY <1>1, <1>2, <1>3, Places DEF Good
<1>5. Len(todo[c]) = 1 => Tail(todo[c]) = <<>>
  <2>1. Tail(todo[c]) \in Seq(Step) /\ Len(Tail(todo[c])) = Len(todo[c]) - 1
    BY <1>1, HeadTailProperties
  <2>2. Len(todo[c]) = 1 => Len(Tail(todo[c])) = 0
    BY <2>1
  <2>. QED
    BY <2>1, <2>2, EmptySeq
<1>6. At(c)' # Idle => args'[c] = args[c]
  BY <1>2, <1>4, <1>5 DEF Proceed
<1>7. args' \in [Contexts -> [key : Keys \cup {"none"}, data : Chunks \cup {"none"}]]
  BY DEF Proceed, Kinds, NoArgs
<1>8. \A d \in Contexts : d # c => todo'[d] = todo[d] /\ args'[d] = args[d]
  BY DEF Proceed, Kinds
<1>9. /\ Type(c)' = Type(c) /\ K(c)' = K(c) /\ Opad(c)' = Opad(c) /\ Ipad(c)' = Ipad(c)
      /\ Long(c)' = Long(c)
  BY DEF Proceed, Type, K, Opad, Ipad, Long
<1>. QED
  BY <1>2, <1>3, <1>4, <1>6, <1>7, <1>8, <1>9 DEF Proceed

LEMMA DisturbKeeps ==
  ASSUME Kinds, NEW c \in Contexts, NEW p \in {"opening", "open", "done", "broken"}, Disturb(c, p)
  PROVE  /\ phase' \in [Contexts -> {"opening", "open", "done", "broken"}]
         /\ phase'[c] = p
         /\ \A d \in Contexts : d # c =>
              \/ phase'[d] = IF phase[d] = "done" THEN "done" ELSE "broken"
              \/ table[d] # table[c] /\ phase'[d] = phase[d]
BY DEF Disturb, Kinds

LEMMA AbsorbKeeps ==
  ASSUME Kinds, NEW c \in Contexts, NEW item, Absorb(c, item)
  PROVE  /\ DOMAIN hash' = Tables /\ owner' = owner
         /\ \A t \in Tables : t # table[c] => hash'[t] = hash[t]
         /\ \A s : Holds(c, s) /\ s # Unknown =>
              owner'[table[c]] = c /\ hash'[table[c]] = Append(s, item)
BY DEF Kinds, Absorb, Holds
-----------------------------------------------------------------------------
(***************************************************************************)
(* The callbacks.                                                          *)
(***************************************************************************)
Kept(c) ==
  /\ Kinds'
  /\ Context(c)'
  /\ \A d \in Contexts : d # c => Elsewhere(d)

LEMMA HashInitKeeps ==
  ASSUME Kinds, NEW c \in Contexts, Context(c), HashInit(c)
  PROVE  Kept(c)
<1>1. /\ todo[c] # <<>> /\ Proceed(c) /\ Disturb(c, phase[c]) /\ UNCHANGED <<key, out, said, wrote>>
      /\ phase[c] \in {"opening", "open", "done", "broken"} /\ table[c] \in Tables
  BY DEF HashInit, Runs, Kinds
<1>2. /\ todo' \in [Contexts -> Points] /\ todo'[c] = Tail(todo[c])
      /\ At(c)' = Place(Tail(todo[c]))
      /\ todo'[c] = <<>> <=> At(c)' = Idle
      /\ At(c)' # Idle => args'[c] = args[c]
      /\ args' \in [Contexts -> [key : Keys \cup {"none"}, data : Chunks \cup {"none"}]]
      /\ \A d \in Contexts : d # c => todo'[d] = todo[d] /\ args'[d] = args[d]
      /\ UNCHANGED <<usage, level, table, status, calls, faults, given>>
      /\ Type(c)' = Type(c) /\ K(c)' = K(c) /\ Opad(c)' = Opad(c) /\ Ipad(c)' = Ipad(c)
      /\ Long(c)' = Long(c)
  BY <1>1, ProceedKeeps
<1>3. /\ phase' \in [Contexts -> {"opening", "open", "done", "broken"}] /\ phase'[c] = phase[c]
      /\ \A d \in Contexts : d # c =>
           \/ phase'[d] = IF phase[d] = "done" THEN "done" ELSE "broken"
           \/ table[d] # table[c] /\ phase'[d] = phase[d]
  BY <1>1, DisturbKeeps
<1>4. /\ DOMAIN hash' = Tables /\ DOMAIN owner' = Tables
      /\ hash'[table[c]] = <<>> /\ owner'[table[c]] = c
      /\ \A t \in Tables : t # table[c] => hash'[t] = hash[t] /\ owner'[t] = owner[t]
  BY <1>1 DEF HashInit, Kinds
<1>5. Holds(c, <<>>)'
  BY <1>2, <1>4 DEF Holds
<1>6. Kinds'
  BY <1>1, <1>2, <1>3, <1>4 DEF Kinds, Type
<1>7. Inner(c)' = Inner(c)
  BY <1>1, <1>2 DEF Inner
<1>8. \/ At(c) = <<"init", "key">> /\ At(c)' = <<"update", "key">>
      \/ At(c) = <<"init", "inner">> /\ At(c)' = <<"update", "ipad">>
      \/ At(c) = <<"init", "outer">> /\ At(c)' = <<"update", "opad">>
  BY <1>2, InitAt DEF HashInit
<1>9. Opening(c)'
  <2>1. SUFFICES ASSUME phase[c] = "opening" PROVE Opening(c)'
    BY <1>3 DEF Opening
  <2>2. /\ At(c) \in KeyPlaces /\ said'[c] = <<>>
        /\ At(c) = <<"init", "key">> => Long(c) 
        /\ At(c) = <<"init", "inner">> => key'[c] = K(c)
        /\ args[c].key = given'[c]
    BY <1>1, <1>2, <2>1 DEF Context, Opening
  <2>3. CASE At(c) = <<"init", "key">> /\ At(c)' = <<"update", "key">>
    BY <1>2, <1>5, <2>2, <2>3 DEF Opening, KeyPlaces, Idle
  <2>4. CASE At(c) = <<"init", "inner">> /\ At(c)' = <<"update", "ipad">>
    BY <1>2, <1>5, <2>2, <2>4 DEF Opening, KeyPlaces, Idle
  <2>5. CASE At(c) = <<"init", "outer">>
    BY <2>2, <2>5 DEF KeyPlaces
  <2>. QED
    BY <1>8, <2>3, <2>4, <2>5
<1>10. Open(c)'
  <2>1. SUFFICES ASSUME phase[c] = "open" PROVE Open(c)'
    BY <1>3 DEF Open
  <2>2. /\ key'[c] = K(c) /\ At(c) \in {Idle} \cup DataPlaces \cup FinalPlaces
        /\ At(c) = <<"init", "outer">> => out'[c] = Inner(c)
    BY <1>1, <2>1 DEF Context, Open
  <2>3. At(c) = <<"init", "outer">> /\ At(c)' = <<"update", "opad">>
    BY <1>8, <2>2 DEF Idle, DataPlaces, FinalPlaces
  <2>. QED
    BY <1>2, <1>5, <1>7, <2>2, <2>3 DEF Open, DataPlaces, FinalPlaces, Idle
<1>11. Done(c)'
  <2>1. phase[c] # "done"
    BY <1>1, PlaceAt DEF Context, Done
  <2>. QED
    BY <1>3, <2>1 DEF Done
<1>12. Cleared(c)'
  <2>1. wrote[c] => At(c) \in {Idle} \cup FinalPlaces
    BY DEF Context, Cleared
  <2>2. wrote[c] => At(c) = <<"init", "outer">> /\ At(c)' = <<"update", "opad">>
    BY <1>8, <2>1 DEF Idle, FinalPlaces
  <2>3. status'[c] = "OK"
    BY <1>1, <1>2 DEF Context, Cleared
  <2>. QED
    BY <1>1, <2>2, <2>3 DEF Cleared, FinalPlaces
<1>13. \A d \in Contexts : d # c => Elsewhere(d)
  BY <1>1, <1>2, <1>3, <1>4 DEF Elsewhere, Kinds
<1>. QED
  BY <1>6, <1>9, <1>10, <1>11, <1>12, <1>13 DEF Kept, Context

LEMMA AppendIpad ==
  ASSUME NEW one, NEW s \in Seq(Said), NEW e \in Said
  PROVE  Append(<<one>> \o s, e) = <<one>> \o Append(s, e)
<1> DEFINE any == {one} \cup Said
<1>1. <<one>> \in Seq(any) /\ s \in Seq(any) /\ <<e>> \in Seq(any) /\ e \in any
  OBVIOUS
<1>2. /\ Append(s, e) = s \o <<e>>
      /\ <<one>> \o s \in Seq(any)
  BY <1>1, AppendIsConcat, ConcatProperties
<1>3. Append(<<one>> \o s, e) = (<<one>> \o s) \o <<e>>
  BY <1>1, <1>2, AppendIsConcat
<1>4. (<<one>> \o s) \o <<e>> = <<one>> \o (s \o <<e>>)
  BY <1>1, ConcatAssociative
<1>. QED
  BY <1>2, <1>3, <1>4

LEMMA AppendOne == \A x, y : Append(<<x>>, y) = <<x, y>>
<1>1. SUFFICES ASSUME NEW x, NEW y PROVE Append(<<x>>, y) = <<x, y>>
  OBVIOUS
<1>2. <<x>> \in Seq({x, y}) /\ y \in {x, y}
  OBVIOUS
<1> DEFINE two == Append(<<x>>, y)
<1>3. /\ two \in Seq({x, y}) /\ Len(two) = 2 /\ two[1] = x /\ two[2] = y
  BY <1>2, AppendProperties
<1>4. <<x, y>> \in Seq({x, y}) /\ Len(<<x, y>>) = 2 /\ <<x, y>>[1] = x /\ <<x, y>>[2] = y
  OBVIOUS
<1> HIDE DEF two
<1>5. \A k \in 1..Len(two) : k = 1 \/ k = 2
  BY <1>3
<1>6. two = <<x, y>>
  BY <1>3, <1>4, <1>5, SeqEqual
<1>. QED
  BY <1>6 DEF two

LEMMA HashUpdateKeeps ==
  ASSUME Kinds, NEW c \in Contexts, Context(c), HashUpdate(c)
  PROVE  Kept(c)
<1> DEFINE p == IF Role(c) = "ipad" /\ phase[c] = "opening" THEN "open" ELSE phase[c]
<1>1. /\ todo[c] # <<>> /\ Proceed(c) /\ Disturb(c, p) /\ UNCHANGED <<key, out, wrote>>
      /\ phase[c] \in {"opening", "open", "done", "broken"} /\ table[c] \in Tables
      /\ Absorb(c, Item(c, Role(c)))
      /\ Runs(c, "update")
  BY DEF HashUpdate, Runs, Kinds
<1>2. /\ todo' \in [Contexts -> Points] /\ todo'[c] = Tail(todo[c])
      /\ At(c)' = Place(Tail(todo[c]))
      /\ todo'[c] = <<>> <=> At(c)' = Idle
      /\ At(c)' # Idle => args'[c] = args[c]
      /\ args' \in [Contexts -> [key : Keys \cup {"none"}, data : Chunks \cup {"none"}]]
      /\ \A d \in Contexts : d # c => todo'[d] = todo[d] /\ args'[d] = args[d]
      /\ UNCHANGED <<usage, level, table, status, calls, faults, given>>
      /\ Type(c)' = Type(c) /\ K(c)' = K(c) /\ Opad(c)' = Opad(c) /\ Ipad(c)' = Ipad(c)
      /\ Long(c)' = Long(c)
  BY <1>1, ProceedKeeps
<1>3. /\ phase' \in [Contexts -> {"opening", "open", "done", "broken"}] /\ phase'[c] = p
      /\ \A d \in Contexts : d # c =>
           \/ phase'[d] = IF phase[d] = "done" THEN "done" ELSE "broken"
           \/ table[d] # table[c] /\ phase'[d] = phase[d]
  <2>1. p \in {"opening", "open", "done", "broken"}
    BY <1>1
  <2> HIDE DEF p
  <2>. QED
    BY <1>1, <2>1, DisturbKeeps
<1>4. /\ DOMAIN hash' = Tables /\ owner' = owner
      /\ \A t \in Tables : t # table[c] => hash'[t] = hash[t]
      /\ \A s : Holds(c, s) /\ s # Unknown =>
           owner'[table[c]] = c /\ hash'[table[c]] = Append(s, Item(c, Role(c)))
  BY <1>1, AbsorbKeeps
<1>5. /\ Role(c) = At(c)[2]
      /\ \/ At(c) = <<"update", "key">> /\ At(c)' = <<"final", "key">>
         \/ /\ At(c) = <<"update", "ipad">>
            /\ At(c)' \in {Idle, <<"update", "data">>, <<"refuse", "data">>}
         \/ At(c) = <<"update", "data">> /\ At(c)' \in {Idle, <<"final", "digest">>}
         \/ At(c) = <<"update", "opad">> /\ At(c)' = <<"update", "digest">>
         \/ At(c) = <<"update", "digest">> /\ At(c)' = <<"final", "mac">>
  BY <1>1, <1>2, UpdateAt
<1>6. /\ said' \in [Contexts -> Seq(Said)]
      /\ \A d \in Contexts : d # c => said'[d] = said[d]
      /\ Role(c) # "data" => said' = said
      /\ Role(c) = "data" => said'[c] = Append(said[c], Item(c, "data")) /\ Item(c, "data") \in Said
  <2>1. Item(c, "data") \in Said
    BY DEF Item, Said, Kinds
  <2>2. said[c] \in Seq(Said) /\ Append(said[c], Item(c, "data")) \in Seq(Said)
    BY <2>1, AppendProperties DEF Kinds
  <2>3. said' = IF Role(c) = "data" THEN [said EXCEPT ![c] = Append(@, Item(c, "data"))] ELSE said
    BY DEF HashUpdate
  <2> HIDE DEF p
  <2>. QED
    BY <2>1, <2>2, <2>3 DEF Kinds
<1>7. Kinds'
  BY <1>1, <1>2, <1>3, <1>4, <1>6 DEF Kinds, Type
<1>8. Role(c) # "data" => Inner(c)' = Inner(c)
  BY <1>2, <1>6 DEF Inner
<1>9. /\ Item(c, "key") = <<"key", args[c].key>>
      /\ Item(c, "ipad") = <<"ipad", key[c], HashBlock(Type(c))>>
      /\ Item(c, "opad") = <<"opad", key[c], HashBlock(Type(c))>>
      /\ Item(c, "digest") = out[c]
  BY Blocks DEF Item
<1>10. ASSUME phase[c] = "opening" PROVE Opening(c)' /\ Open(c)'
  <2>1. /\ At(c) \in KeyPlaces /\ said[c] = <<>> /\ args[c].key = given[c]
        /\ At(c) = <<"update", "key">> => Long(c) /\ Holds(c, <<>>)
        /\ At(c) = <<"update", "ipad">> => key[c] = K(c) /\ Holds(c, <<>>)
    BY <1>10 DEF Context, Opening
  <2>2. CASE At(c) = <<"update", "key">> /\ At(c)' = <<"final", "key">>
    <3>1. Role(c) = "key" /\ phase'[c] = "opening" /\ said'[c] = <<>>
      BY <1>3, <1>5, <1>6, <1>10, <2>1, <2>2
    <3>2. owner'[table[c]] = c /\ hash'[table[c]] = Append(<<>>, <<"key", given[c]>>)
      BY <1>4, <1>9, <2>1, <2>2, <3>1, NotMixed
    <3>3. Holds(c, <<<<"key", given[c]>>>>)'
      BY <1>2, <3>2 DEF Holds
    <3>4. args'[c].key = given'[c] /\ Long(c)'
      BY <1>2, <2>1, <2>2 DEF Idle
    <3>. QED
      BY <2>2, <3>1, <3>3, <3>4 DEF Opening, Open, KeyPlaces
  <2>3. CASE /\ At(c) = <<"update", "ipad">>
             /\ At(c)' \in {Idle, <<"update", "data">>, <<"refuse", "data">>}
    <3>1. Role(c) = "ipad" /\ phase'[c] = "open" /\ said'[c] = <<>>
      BY <1>3, <1>5, <1>6, <1>10, <2>1, <2>3
    <3>2. owner'[table[c]] = c /\ hash'[table[c]] = Append(<<>>, Ipad(c))
      BY <1>4, <1>9, <2>1, <2>3, <3>1, NotMixed DEF Ipad
    <3>3. Append(<<>>, Ipad(c)) = <<Ipad(c)>> \o <<>>
      BY ConcatEmptySeq
    <3>4. Holds(c, <<Ipad(c)>> \o said[c])'
      BY <1>2, <3>1, <3>2, <3>3 DEF Holds
    <3>5. key'[c] = K(c)'
      BY <1>1, <1>2, <2>1, <2>3
    <3>6. At(c)' \in {Idle} \cup DataPlaces /\ At(c)' \notin FinalPlaces
      BY <2>3, Apart DEF DataPlaces
    <3>7. Open(c)'
      BY <3>1, <3>4, <3>5, <3>6 DEF Open, FinalPlaces
    <3>. QED
      BY <3>1, <3>7 DEF Opening
  <2>. QED
    BY <1>5, <2>1, <2>2, <2>3 DEF KeyPlaces
<1>11. ASSUME phase[c] = "open" PROVE Opening(c)' /\ Open(c)'
  <2>1. /\ key[c] = K(c) /\ At(c) \in {Idle} \cup DataPlaces \cup FinalPlaces
        /\ At(c) \in {Idle} \cup DataPlaces => Holds(c, <<Ipad(c)>> \o said[c])
        /\ At(c) = <<"update", "opad">> => out[c] = Inner(c) /\ Holds(c, <<>>)
        /\ At(c) = <<"update", "digest">> => out[c] = Inner(c) /\ Holds(c, <<Opad(c)>>)
    BY <1>11 DEF Context, Open
  <2>2. phase'[c] = "open" /\ key'[c] = K(c)'
    BY <1>1, <1>2, <1>3, <1>11, <2>1
  <2>3. CASE At(c) = <<"update", "data">> /\ At(c)' \in {Idle, <<"final", "digest">>}
    <3>1. Role(c) = "data" /\ said'[c] = Append(said[c], Item(c, "data")) /\ Item(c, "data") \in Said
      BY <1>5, <1>6, <2>3
    <3>2. said[c] \in Seq(Said)
      BY DEF Kinds
    <3>3. <<Ipad(c)>> \o said[c] # Unknown
      BY <3>2, NotMixed DEF Ipad
    <3>4. owner'[table[c]] = c /\ hash'[table[c]] = Append(<<Ipad(c)>> \o said[c], Item(c, "data"))
      <4>1. Holds(c, <<Ipad(c)>> \o said[c])
        BY <2>1, <2>3 DEF DataPlaces
      <4>. QED
        BY <1>4, <3>1, <3>3, <4>1
    <3>5. Append(<<Ipad(c)>> \o said[c], Item(c, "data")) = <<Ipad(c)>> \o said'[c]
      <4>1. Append(<<Ipad(c)>> \o said[c], Item(c, "data"))
              = <<Ipad(c)>> \o Append(said[c], Item(c, "data"))
        BY <3>1, <3>2, AppendIpad
      <4>. QED
        BY <3>1, <4>1
    <3>6. Holds(c, <<Ipad(c)>> \o said[c])'
      BY <1>2, <3>4, <3>5 DEF Holds
    <3>7. At(c)' \in {Idle} \cup DataPlaces /\ At(c)' \notin FinalPlaces
      BY <2>3, Apart DEF DataPlaces
    <3>. QED
      BY <2>2, <3>6, <3>7 DEF Open, Opening, FinalPlaces
  <2>4. CASE At(c) = <<"update", "opad">> /\ At(c)' = <<"update", "digest">>
    <3>1. Role(c) = "opad" /\ out'[c] = Inner(c)'
      BY <1>1, <1>5, <1>8, <2>1, <2>4
    <3>2. owner'[table[c]] = c /\ hash'[table[c]] = Append(<<>>, Opad(c))
      BY <1>4, <1>9, <2>1, <2>4, <3>1, NotMixed DEF Opad
    <3>3. Holds(c, <<Opad(c)>>)'
      BY <1>2, <3>2 DEF Holds
    <3>. QED
      BY <2>2, <2>4, <3>1, <3>3 DEF Open, Opening, FinalPlaces, DataPlaces, Idle
  <2>5. CASE At(c) = <<"update", "digest">> /\ At(c)' = <<"final", "mac">>
    <3>1. Role(c) = "digest" /\ out[c] = Inner(c)'
      BY <1>1, <1>5, <1>8, <2>1, <2>5
    <3>2. owner'[table[c]] = c /\ hash'[table[c]] = Append(<<Opad(c)>>, Inner(c)')
      BY <1>4, <1>9, <2>1, <2>5, <3>1, NotMixed DEF Opad
    <3>3. Append(<<Opad(c)>>, Inner(c)') = <<Opad(c), Inner(c)'>>
      BY AppendOne
    <3>4. Holds(c, <<Opad(c), Inner(c)>>)'
      BY <1>2, <3>2, <3>3 DEF Holds
    <3>. QED
      BY <2>2, <2>5, <3>4 DEF Open, Opening, FinalPlaces, DataPlaces, Idle
  <2>6. At(c) # <<"update", "key">> /\ At(c) # <<"update", "ipad">>
    BY <2>1 DEF Idle, DataPlaces, FinalPlaces
  <2>. QED
    BY <1>5, <2>3, <2>4, <2>5, <2>6
<1>12. phase[c] # "done"
  BY <1>1, PlaceAt DEF Context, Done
<1>13. Opening(c)' /\ Open(c)'
  <2>1. phase[c] = "broken" => phase'[c] = "broken"
    BY <1>3
  <2>. QED
    BY <1>1, <1>10, <1>11, <1>12, <2>1 DEF Opening, Open
<1>14. Done(c)'
  BY <1>3, <1>12 DEF Done
<1>15. Cleared(c)'
  <2>1. wrote[c] => At(c) \in {Idle} \cup FinalPlaces
    BY DEF Context, Cleared
  <2>2. wrote[c] => At(c)' \in {Idle} \cup FinalPlaces
    BY <1>5, <2>1 DEF Idle, FinalPlaces
  <2>3. status'[c] = "OK"
    BY <1>1, <1>2 DEF Context, Cleared
  <2>. QED
    BY <1>1, <2>2, <2>3 DEF Cleared
<1>16. \A d \in Contexts : d # c => Elsewhere(d)
  BY <1>1, <1>2, <1>3, <1>4, <1>6 DEF Elsewhere, Kinds
<1>. QED
  BY <1>7, <1>13, <1>14, <1>15, <1>16 DEF Kept, Context

LEMMA HashFinalKeeps ==
  ASSUME Kinds, NEW c \in Contexts, Context(c), HashFinal(c)
  PROVE  Kept(c)
<1> DEFINE p == IF Role(c) = "mac" /\ phase[c] = "open" THEN "done" ELSE phase[c]
           digest == Digest(Type(c), hash[table[c]])
<1>1. /\ todo[c] # <<>> /\ Proceed(c) /\ Disturb(c, p) /\ UNCHANGED said
      /\ phase[c] \in {"opening", "open", "done", "broken"} /\ table[c] \in Tables
      /\ Absorb(c, <<"padding">>)
      /\ Runs(c, "final")
  BY DEF HashFinal, Runs, Kinds
<1>2. /\ todo' \in [Contexts -> Points] /\ todo'[c] = Tail(todo[c])
      /\ At(c)' = Place(Tail(todo[c]))
      /\ todo'[c] = <<>> <=> At(c)' = Idle
      /\ At(c)' # Idle => args'[c] = args[c]
      /\ args' \in [Contexts -> [key : Keys \cup {"none"}, data : Chunks \cup {"none"}]]
      /\ \A d \in Contexts : d # c => todo'[d] = todo[d] /\ args'[d] = args[d]
      /\ UNCHANGED <<usage, level, table, status, calls, faults, given>>
      /\ Type(c)' = Type(c) /\ K(c)' = K(c) /\ Opad(c)' = Opad(c) /\ Ipad(c)' = Ipad(c)
      /\ Long(c)' = Long(c)
  BY <1>1, ProceedKeeps
<1>3. /\ phase' \in [Contexts -> {"opening", "open", "done", "broken"}] /\ phase'[c] = p
      /\ \A d \in Contexts : d # c =>
           \/ phase'[d] = IF phase[d] = "done" THEN "done" ELSE "broken"
           \/ table[d] # table[c] /\ phase'[d] = phase[d]
  <2>1. p \in {"opening", "open", "done", "broken"}
    BY <1>1
  <2> HIDE DEF p
  <2>. QED
    BY <1>1, <2>1, DisturbKeeps
<1>4. /\ DOMAIN hash' = Tables /\ owner' = owner
      /\ \A t \in Tables : t # table[c] => hash'[t] = hash[t]
  BY <1>1, AbsorbKeeps
<1>5. /\ Role(c) = At(c)[2]
      /\ \/ At(c) = <<"final", "key">> /\ At(c)' = <<"init", "inner">>
         \/ At(c) = <<"final", "digest">> /\ At(c)' = <<"init", "outer">>
         \/ At(c) = <<"final", "mac">> /\ At(c)' = Idle
  BY <1>1, <1>2, FinalAt
<1>6. /\ Role(c) = "key" => key' = [key EXCEPT ![c] = digest] /\ out' = out
      /\ Role(c) # "key" => out' = [out EXCEPT ![c] = digest] /\ key' = key
      /\ wrote' = [wrote EXCEPT ![c] = wrote[c] \/ Role(c) # "key"]
  BY DEF HashFinal
<1>7. /\ DOMAIN key' = Contexts /\ DOMAIN out' = Contexts
      /\ \A d \in Contexts : d # c => key'[d] = key[d] /\ out'[d] = out[d]
      /\ key'[c] = key[c] \/ \A k : key'[c] # <<"key", k>>
  <2>1. \A k : digest # <<"key", k>>
    BY DEF Digest
  <2>. QED
    BY <1>6, <2>1 DEF Kinds
<1>8. /\ Role(c) = "key" => key'[c] = Digest(Type(c), hash[table[c]])
      /\ Role(c) # "key" => out'[c] = Digest(Type(c), hash[table[c]])
  BY <1>6 DEF Kinds
<1>9. Kinds'
  <2>1. \A d \in Contexts, k \in Keys :
          key'[d] = <<"key", k>> => KeyLen[k] <= HashBlock(Type(d)')
    <3>1. SUFFICES ASSUME NEW d \in Contexts, NEW k \in Keys, key'[d] = <<"key", k>>
                   PROVE  KeyLen[k] <= HashBlock(Type(d)')
      OBVIOUS
    <3>2. key'[d] = key[d]
      BY <1>7, <3>1
    <3>3. Type(d)' = Type(d)
      BY <1>2 DEF Type
    <3>. QED
      BY <3>1, <3>2, <3>3 DEF Kinds
  <2>2. wrote' \in [Contexts -> BOOLEAN]
    BY <1>6 DEF Kinds
  <2>. QED
    BY <1>1, <1>2, <1>3, <1>4, <1>7, <2>1, <2>2 DEF Kinds
<1>10. Inner(c)' = Inner(c)
  BY <1>1, <1>2 DEF Inner
<1>11. ASSUME phase[c] = "opening" PROVE Opening(c)' /\ Open(c)'
  <2>1. /\ At(c) \in KeyPlaces /\ said[c] = <<>> /\ args[c].key = given[c]
        /\ At(c) = <<"final", "key">> => Long(c) /\ Holds(c, <<<<"key", given[c]>>>>)
    BY <1>11 DEF Context, Opening
  <2>2. At(c) = <<"final", "key">> /\ At(c)' = <<"init", "inner">>
    BY <1>5, <2>1 DEF KeyPlaces
  <2>3. Role(c) = "key" /\ phase'[c] = "opening" /\ said'[c] = <<>>
    BY <1>1, <1>3, <1>5, <1>11, <2>1, <2>2
  <2>4. key'[c] = K(c)'
    <3>1. hash[table[c]] = <<<<"key", given[c]>>>> /\ Long(c)
      BY <2>1, <2>2 DEF Holds
    <3>2. key'[c] = Digest(Type(c), <<<<"key", given[c]>>>>)
      <4>1. key'[c] = Digest(Type(c), hash[table[c]])
        BY <1>8, <2>3
      <4>. QED
        BY <3>1, <4>1, Zenon
    <3>3. K(c) = Digest(Type(c), <<<<"key", given[c]>>>>)
      BY <3>1 DEF K, PaddedKey, Long
    <3>. QED
      BY <1>2, <3>2, <3>3
  <2>5. args'[c].key = given'[c]
    BY <1>2, <2>1, <2>2 DEF Idle
  <2>. QED
    BY <2>2, <2>3, <2>4, <2>5 DEF Opening, Open, KeyPlaces
<1>12. ASSUME phase[c] = "open" PROVE Opening(c)' /\ Open(c)' /\ Done(c)'
  <2>1. /\ key[c] = K(c) /\ At(c) \in {Idle} \cup DataPlaces \cup FinalPlaces
        /\ At(c) \in {Idle} \cup DataPlaces => Holds(c, <<Ipad(c)>> \o said[c])
        /\ At(c) = <<"final", "mac">> => Holds(c, <<Opad(c), Inner(c)>>)
    BY <1>12 DEF Context, Open
  <2>2. CASE At(c) = <<"final", "digest">> /\ At(c)' = <<"init", "outer">>
    <3>1. Role(c) = "digest" /\ phase'[c] = "open" /\ key'[c] = K(c)'
      BY <1>2, <1>3, <1>5, <1>6, <1>12, <2>1, <2>2
    <3>2. out'[c] = Inner(c)'
      <4>1. hash[table[c]] = <<Ipad(c)>> \o said[c]
        BY <2>1, <2>2 DEF Holds, DataPlaces
      <4>2. out'[c] = Digest(Type(c), <<Ipad(c)>> \o said[c])
        <5>1. out'[c] = Digest(Type(c), hash[table[c]])
          BY <1>8, <3>1
        <5>. QED
          BY <4>1, <5>1, Zenon
      <4>. QED
        BY <1>10, <4>2 DEF Inner
    <3>. QED
      BY <2>2, <3>1, <3>2 DEF Open, Opening, Done, FinalPlaces, DataPlaces, Idle
  <2>3. CASE At(c) = <<"final", "mac">> /\ At(c)' = Idle
    <3>1. Role(c) = "mac" /\ phase'[c] = "done"
      BY <1>3, <1>5, <1>12, <2>3
    <3>2. out'[c] = Digest(Type(c), <<Opad(c), Inner(c)>>)
      <4>1. hash[table[c]] = <<Opad(c), Inner(c)>>
        BY <2>1, <2>3 DEF Holds
      <4>2. out'[c] = Digest(Type(c), hash[table[c]])
        BY <1>8, <3>1
      <4>. QED
        BY <4>1, <4>2, Zenon
    <3>3. out'[c] = Mac(Type(c)', given'[c], said'[c])
      BY <1>1, <1>2, <3>2 DEF Mac, Inner, Opad, Ipad, K
    <3>. QED
      BY <2>3, <3>1, <3>3 DEF Open, Opening, Done
  <2>4. At(c) # <<"final", "key">>
    BY <2>1 DEF Idle, DataPlaces, FinalPlaces
  <2>. QED
    BY <1>5, <2>2, <2>3, <2>4
<1>13. phase[c] # "done"
  BY <1>1, PlaceAt DEF Context, Done
<1>14. phase[c] = "broken" => phase'[c] = "broken"
  BY <1>3
<1>15. Opening(c)' /\ Open(c)'
  BY <1>1, <1>11, <1>12, <1>13, <1>14 DEF Opening, Open
<1>16. Done(c)'
  BY <1>1, <1>3, <1>12, <1>13 DEF Done
<1>17. Cleared(c)'
  <2>1. wrote[c] => At(c) \in {Idle} \cup FinalPlaces
    BY DEF Context, Cleared
  <2>2. wrote'[c] => wrote[c] \/ Role(c) # "key"
    BY <1>6 DEF Kinds
  <2>3. wrote'[c] => At(c)' \in {Idle} \cup FinalPlaces
    BY <1>5, <2>1, <2>2 DEF Idle, FinalPlaces
  <2>4. status'[c] = "OK"
    BY <1>1, <1>2 DEF Context, Cleared
  <2>. QED
    BY <2>3, <2>4 DEF Cleared
<1>18. \A d \in Contexts : d # c => Elsewhere(d)
  <2>1. \A d \in Contexts : d # c => wrote'[d] = wrote[d]
    BY <1>6 DEF Kinds
  <2>. QED
    BY <1>1, <1>2, <1>3, <1>4, <1>7, <2>1 DEF Elsewhere, Kinds
<1>. QED
  BY <1>9, <1>15, <1>16, <1>17, <1>18 DEF Kept, Context

LEMMA CallbackFailsKeeps ==
  ASSUME Kinds, NEW c \in Contexts, Context(c), CallbackFails(c)
  PROVE  Kept(c)
<1>1. /\ todo[c] # <<>> /\ todo' = [todo EXCEPT ![c] = <<>>]
      /\ faults < usage.max_faults /\ faults' = faults + 1
      /\ args' = [args EXCEPT ![c] = NoArgs] /\ status' = [status EXCEPT ![c] = "FAIL"]
      /\ UNCHANGED <<usage, level, table, owner, key, calls, given, said, wrote>>
      /\ Disturb(c, "broken") /\ table[c] \in Tables
      /\ hash' \in {hash, [hash EXCEPT ![table[c]] = Unknown]}
  BY DEF CallbackFails, Kinds
<1>2. /\ phase' \in [Contexts -> {"opening", "open", "done", "broken"}] /\ phase'[c] = "broken"
      /\ \A d \in Contexts : d # c =>
           \/ phase'[d] = IF phase[d] = "done" THEN "done" ELSE "broken"
           \/ table[d] # table[c] /\ phase'[d] = phase[d]
  BY <1>1, DisturbKeeps
<1>3. /\ DOMAIN out' = Contexts
      /\ \A d \in Contexts : d # c => out'[d] = out[d]
      /\ level = "MAX" /\ InFinal(c) => out'[c] = Wiped
  BY DEF CallbackFails, WipeOut, Kinds
<1>4. DOMAIN hash' = Tables /\ \A t \in Tables : t # table[c] => hash'[t] = hash[t]
  BY <1>1 DEF Kinds
<1>5. /\ <<>> \in Points /\ NoArgs \in [key : Keys \cup {"none"}, data : Chunks \cup {"none"}]
      /\ usage.max_faults \in Nat
  BY HmacAssumption DEF Kinds, Points, NoArgs
<1>6. /\ todo' \in [Contexts -> Points] /\ todo'[c] = <<>>
      /\ args' \in [Contexts -> [key : Keys \cup {"none"}, data : Chunks \cup {"none"}]]
      /\ status' \in [Contexts -> {"OK", "FAIL", "NULL_PTR", "INCORRECT_FUNCTION_PARAM"}]
      /\ \A d \in Contexts : d # c =>
           todo'[d] = todo[d] /\ args'[d] = args[d] /\ status'[d] = status[d]
      /\ faults' \in 0..usage.max_faults
  BY <1>1, <1>5 DEF Kinds
<1>7. Kinds'
  BY <1>1, <1>2, <1>3, <1>4, <1>6 DEF Kinds, Type
<1>8. wrote[c] => InFinal(c)
  <2>1. SUFFICES ASSUME wrote[c] PROVE InFinal(c)
    OBVIOUS
  <2>2. todo[c] \in Inside
    BY <1>1, <2>1, PlaceAt DEF Context, Cleared
  <2>3. Len(todo[c]) \in 1..5 /\ todo[c][Len(todo[c])] = <<"final", "mac">>
    BY <2>2, InsideFinal
  <2>. QED
    BY <2>3 DEF InFinal, FinalSteps
<1>9. At(c)' = Idle
  BY <1>6 DEF At, Place
<1>10. Context(c)'
  BY <1>1, <1>2, <1>3, <1>6, <1>8, <1>9 DEF Context, Opening, Open, Done, Cleared
<1>11. \A d \in Contexts : d # c => Elsewhere(d)
  BY <1>1, <1>2, <1>3, <1>4, <1>6 DEF Elsewhere, Kinds
<1>. QED
  BY <1>7, <1>10, <1>11 DEF Kept

LEMMA UpdateRefusedKeeps ==
  ASSUME Kinds, NEW c \in Contexts, Context(c), UpdateRefused(c)
  PROVE  Kept(c)
<1>1. /\ todo[c] # <<>> /\ todo' = [todo EXCEPT ![c] = <<>>] /\ Head(todo[c])[1] = "refuse"
      /\ args' = [args EXCEPT ![c] = NoArgs]
      /\ status' = [status EXCEPT ![c] = "INCORRECT_FUNCTION_PARAM"]
      /\ UNCHANGED <<usage, level, table, hash, owner, key, out, calls, faults, given, said, phase,
                     wrote>>
  BY DEF UpdateRefused, Runs
<1>2. At(c) = <<"refuse", "data">>
  BY <1>1, PlaceAt DEF Follows, Idle
<1>3. <<>> \in Points /\ NoArgs \in [key : Keys \cup {"none"}, data : Chunks \cup {"none"}]
  BY DEF Points, NoArgs
<1>4. /\ todo' \in [Contexts -> Points] /\ todo'[c] = <<>>
      /\ args' \in [Contexts -> [key : Keys \cup {"none"}, data : Chunks \cup {"none"}]]
      /\ status' \in [Contexts -> {"OK", "FAIL", "NULL_PTR", "INCORRECT_FUNCTION_PARAM"}]
      /\ \A d \in Contexts : d # c =>
           todo'[d] = todo[d] /\ args'[d] = args[d] /\ status'[d] = status[d]
  BY <1>1, <1>3 DEF Kinds
<1>5. Kinds'
  BY <1>1, <1>4 DEF Kinds, Type
<1>6. At(c)' = Idle
  BY <1>4 DEF At, Place
<1>7. /\ K(c)' = K(c) /\ Ipad(c)' = Ipad(c) /\ At(c) \in DataPlaces /\ At(c) \notin KeyPlaces
      /\ At(c) # Idle /\ At(c) \notin FinalPlaces
  BY <1>1, <1>2 DEF K, Ipad, Type, DataPlaces, KeyPlaces, Idle, FinalPlaces
<1>8. Opening(c)' /\ Done(c)'
  BY <1>1, <1>7 DEF Context, Opening, Done
<1>9. Open(c)'
  <2>1. SUFFICES ASSUME phase[c] = "open" PROVE Open(c)'
    BY <1>1 DEF Open
  <2>2. key[c] = K(c) /\ Holds(c, <<Ipad(c)>> \o said[c])
    BY <1>7, <2>1 DEF Context, Open
  <2>3. key'[c] = K(c)' /\ Holds(c, <<Ipad(c)>> \o said[c])'
    BY <1>1, <1>7, <2>2 DEF Holds
  <2>. QED
    BY <1>6, <2>3, Apart DEF Open, FinalPlaces
<1>10. Cleared(c)'
  BY <1>1, <1>4, <1>7 DEF Context, Cleared
<1>11. \A d \in Contexts : d # c => Elsewhere(d)
  BY <1>1, <1>4 DEF Elsewhere
<1>. QED
  BY <1>5, <1>8, <1>9, <1>10, <1>11 DEF Kept, Context
-----------------------------------------------------------------------------
(***************************************************************************)
(* The calls.                                                              *)
(***************************************************************************)
LEMMA CallKeeps ==
  ASSUME Kinds, NEW c \in Contexts, NEW p \in Points, Call(c, p)
  PROVE  /\ todo[c] = <<>> /\ At(c) = Idle
         /\ todo' \in [Contexts -> Points] /\ todo'[c] = p /\ At(c)' = Place(p)
         /\ status' \in [Contexts -> {"OK", "FAIL", "NULL_PTR", "INCORRECT_FUNCTION_PARAM"}]
         /\ status'[c] = "OK"
         /\ wrote' \in [Contexts -> BOOLEAN] /\ wrote'[c] = FALSE
         /\ calls' \in 0..usage.max_calls
         /\ \A d \in Contexts : d # c =>
              todo'[d] = todo[d] /\ status'[d] = status[d] /\ wrote'[d] = wrote[d]
         /\ UNCHANGED <<usage, level, table, hash, owner, out, faults>>
         /\ Type(c)' = Type(c)
<1>1. todo[c] = <<>> /\ calls < usage.max_calls /\ calls' = calls + 1
  BY DEF Call, MayCall
<1>2. usage.max_calls \in Nat /\ calls \in Nat
  BY HmacAssumption DEF Kinds
<1>3. calls' \in 0..usage.max_calls
  BY <1>1, <1>2
<1>4. /\ todo' = [todo EXCEPT ![c] = p] /\ status' = [status EXCEPT ![c] = "OK"]
      /\ wrote' = [wrote EXCEPT ![c] = FALSE]
      /\ UNCHANGED <<usage, level, table, hash, owner, out, faults>>
  BY DEF Call
<1>5. At(c) = Idle /\ todo'[c] = p /\ At(c)' = Place(p) /\ Type(c)' = Type(c)
  BY <1>1, <1>4 DEF Kinds, At, Place, Type
<1>. QED
  BY <1>1, <1>3, <1>4, <1>5 DEF Kinds

(* The calls that give a key. *)
LEMMA KeyedCallKeeps ==
  ASSUME Kinds, NEW c \in Contexts, Context(c), NEW k \in Keys, NEW d \in Chunks \cup {"none"},
         NEW p \in {InitSteps(Type(c), k), InitSteps(Type(c), k) \o UpdateSteps \o FinalSteps,
                    InitSteps(Type(c), k) \o <<<<"refuse", "data">>>>},
         Call(c, p), Keyed(c, k), args' = [args EXCEPT ![c] = [key |-> k, data |-> d]]
  PROVE  Kept(c)
<1>1. /\ p \in Points
      /\ Place(p) = IF KeyLen[k] > BlockSize(Type(c))
                    THEN <<"init", "key">> ELSE <<"init", "inner">>
  BY BeginPlaces
<1>2. /\ todo[c] = <<>> /\ At(c) = Idle
      /\ todo' \in [Contexts -> Points] /\ todo'[c] = p /\ At(c)' = Place(p)
      /\ status' \in [Contexts -> {"OK", "FAIL", "NULL_PTR", "INCORRECT_FUNCTION_PARAM"}]
      /\ status'[c] = "OK"
      /\ wrote' \in [Contexts -> BOOLEAN] /\ wrote'[c] = FALSE
      /\ calls' \in 0..usage.max_calls
      /\ \A e \in Contexts : e # c =>
           todo'[e] = todo[e] /\ status'[e] = status[e] /\ wrote'[e] = wrote[e]
      /\ UNCHANGED <<usage, level, table, hash, owner, out, faults>>
      /\ Type(c)' = Type(c)
  BY <1>1, CallKeeps
<1>3. BlockSize(Type(c)) = HashBlock(Type(c)) /\ HashBlock(Type(c)) \in Nat /\ KeyLen[k] \in Nat
  BY Blocks, HmacAssumption
<1>4. /\ given' \in [Contexts -> Keys \cup {"none"}] /\ given'[c] = k
      /\ said' \in [Contexts -> Seq(Said)] /\ said'[c] = <<>>
      /\ phase' \in [Contexts -> {"opening", "open", "done", "broken"}] /\ phase'[c] = "opening"
      /\ DOMAIN key' = Contexts
      /\ key'[c] = IF KeyLen[k] > HashBlock(Type(c)) THEN <<"zero">> ELSE <<"key", k>>
      /\ args' \in [Contexts -> [key : Keys \cup {"none"}, data : Chunks \cup {"none"}]]
      /\ args'[c].key = k
      /\ \A e \in Contexts : e # c =>
           /\ given'[e] = given[e] /\ said'[e] = said[e] /\ phase'[e] = phase[e]
           /\ key'[e] = key[e] /\ args'[e] = args[e]
  BY <1>3 DEF Keyed, Kinds
<1>5. \A e \in Contexts, j \in Keys :
        key'[e] = <<"key", j>> => KeyLen[j] <= HashBlock(Type(e)')
  <2>1. SUFFICES ASSUME NEW e \in Contexts, NEW j \in Keys, key'[e] = <<"key", j>>
                 PROVE  KeyLen[j] <= HashBlock(Type(e)')
    OBVIOUS
  <2>2. Type(e)' = Type(e)
    BY <1>2 DEF Type
  <2>3. CASE e # c
    <3>1. key[e] = <<"key", j>> => KeyLen[j] <= HashBlock(Type(e))
      BY DEF Kinds
    <3>2. key[e] = <<"key", j>>
      BY <1>4, <2>1, <2>3
    <3>. QED
      BY <2>2, <3>1, <3>2
  <2>4. CASE e = c
    <3>1. CASE KeyLen[k] > HashBlock(Type(c))
      BY <1>4, <2>1, <2>4, <3>1
    <3>2. CASE ~(KeyLen[k] > HashBlock(Type(c)))
      BY <1>3, <1>4, <2>1, <2>2, <2>4, <3>2
    <3>. QED
      BY <3>1, <3>2
  <2>. QED
    BY <2>3, <2>4
<1>6. Kinds'
  BY <1>2, <1>4, <1>5 DEF Kinds
<1>7. Opening(c)'
  <2>1. CASE KeyLen[k] > HashBlock(Type(c))
    <3>1. At(c)' = <<"init", "key">> /\ Long(c)'
      BY <1>1, <1>2, <1>3, <1>4, <2>1 DEF Long
    <3>. QED
      BY <1>4, <3>1 DEF Opening, KeyPlaces
  <2>2. CASE ~(KeyLen[k] > HashBlock(Type(c)))
    <3>1. At(c)' = <<"init", "inner">> /\ key'[c] = K(c)'
      BY <1>1, <1>2, <1>3, <1>4, <2>2 DEF K, PaddedKey
    <3>. QED
      BY <1>4, <3>1 DEF Opening, KeyPlaces
  <2>. QED
    BY <2>1, <2>2
<1>8. Open(c)' /\ Done(c)' /\ Cleared(c)'
  BY <1>2, <1>4 DEF Open, Done, Cleared
<1>9. \A e \in Contexts : e # c => Elsewhere(e)
  BY <1>2, <1>4 DEF Elsewhere
<1>. QED
  BY <1>6, <1>7, <1>8, <1>9 DEF Kept, Context

(* The calls that go on with an exchange. *)
LEMMA GoOnKeeps ==
  ASSUME Kinds, NEW c \in Contexts, Context(c), NEW p \in {UpdateSteps, FinalSteps}, Call(c, p),
         phase' = [phase EXCEPT ![c] = IF @ = "open" THEN "open" ELSE "broken"],
         UNCHANGED <<key, given, said>>,
         args' \in [Contexts -> [key : Keys \cup {"none"}, data : Chunks \cup {"none"}]],
         \A d \in Contexts : d # c => args'[d] = args[d]
  PROVE  Kept(c)
<1>1. p \in Points /\ Place(p) \in {<<"update", "data">>, <<"final", "digest">>}
  BY BeginPlaces
<1>2. /\ todo[c] = <<>> /\ At(c) = Idle
      /\ todo' \in [Contexts -> Points] /\ todo'[c] = p /\ At(c)' = Place(p)
      /\ status' \in [Contexts -> {"OK", "FAIL", "NULL_PTR", "INCORRECT_FUNCTION_PARAM"}]
      /\ status'[c] = "OK"
      /\ wrote' \in [Contexts -> BOOLEAN] /\ wrote'[c] = FALSE
      /\ calls' \in 0..usage.max_calls
      /\ \A e \in Contexts : e # c =>
           todo'[e] = todo[e] /\ status'[e] = status[e] /\ wrote'[e] = wrote[e]
      /\ UNCHANGED <<usage, level, table, hash, owner, out, faults>>
      /\ Type(c)' = Type(c)
  BY <1>1, CallKeeps
<1>3. /\ phase' \in [Contexts -> {"opening", "open", "done", "broken"}]
      /\ phase'[c] = IF phase[c] = "open" THEN "open" ELSE "broken"
      /\ \A e \in Contexts : e # c => phase'[e] = phase[e]
  BY DEF Kinds
<1>4. Kinds'
  BY <1>2, <1>3 DEF Kinds, Type
<1>5. Opening(c)' /\ Done(c)' /\ Cleared(c)'
  BY <1>2, <1>3 DEF Opening, Done, Cleared
<1>6. Open(c)'
  <2>1. SUFFICES ASSUME phase[c] = "open" PROVE Open(c)'
    BY <1>3 DEF Open
  <2>2. key[c] = K(c) /\ Holds(c, <<Ipad(c)>> \o said[c])
    BY <1>2, <2>1 DEF Context, Open
  <2>3. K(c)' = K(c) /\ Ipad(c)' = Ipad(c)
    BY <1>2 DEF K, Ipad
  <2>4. key'[c] = K(c)' /\ Holds(c, <<Ipad(c)>> \o said[c])'
    BY <1>2, <2>2, <2>3 DEF Holds
  <2>5. At(c)' \in DataPlaces
    BY <1>1, <1>2 DEF DataPlaces
  <2>6. At(c)' \notin FinalPlaces
    BY <2>5, Apart
  <2>. QED
    BY <2>4, <2>5, <2>6 DEF Open, FinalPlaces
<1>7. \A e \in Contexts : e # c => Elsewhere(e)
  BY <1>2, <1>3 DEF Elsewhere
<1>. QED
  BY <1>4, <1>5, <1>6, <1>7 DEF Kept, Context

(* The calls that are refused. *)
LEMMA RefusedKeeps ==
  ASSUME Kinds, NEW c \in Contexts, Context(c), HmacUpdateEmpty(c) \/ HmacFinalNull(c)
  PROVE  Kept(c)
<1>1. PICK why \in {"NULL_PTR", "INCORRECT_FUNCTION_PARAM"} : Refuse(c, why)
  BY DEF HmacUpdateEmpty, HmacFinalNull
<1>2. /\ todo[c] = <<>> /\ calls < usage.max_calls /\ calls' = calls + 1
      /\ status' = [status EXCEPT ![c] = why] /\ wrote' = [wrote EXCEPT ![c] = FALSE]
      /\ UNCHANGED <<usage, level, table, hash, owner, key, args, todo, faults, given, said>>
  BY <1>1 DEF Refuse, MayCall
<1>3. usage.max_calls \in Nat /\ calls \in Nat
  BY HmacAssumption DEF Kinds
<1>4. calls' \in 0..usage.max_calls
  BY <1>2, <1>3
<1>5. /\ DOMAIN out' = Contexts
      /\ phase' \in [Contexts -> {"opening", "open", "done", "broken"}]
      /\ phase'[c] = phase[c] \/ phase'[c] = "broken"
      /\ phase'[c] = "done" => out'[c] = out[c]
      /\ \A d \in Contexts : d # c => phase'[d] = phase[d] /\ out'[d] = out[d]
  <2>1. CASE HmacUpdateEmpty(c)
    BY <2>1 DEF HmacUpdateEmpty, Kinds
  <2>2. CASE HmacFinalNull(c)
    BY <2>2 DEF HmacFinalNull, Kinds
  <2>. QED
    BY <2>1, <2>2
<1>6. /\ status' \in [Contexts -> {"OK", "FAIL", "NULL_PTR", "INCORRECT_FUNCTION_PARAM"}]
      /\ wrote' \in [Contexts -> BOOLEAN] /\ wrote'[c] = FALSE
      /\ \A d \in Contexts : d # c => status'[d] = status[d] /\ wrote'[d] = wrote[d]
  BY <1>2 DEF Kinds
<1>7. Kinds'
  BY <1>2, <1>4, <1>5, <1>6 DEF Kinds, Type
<1>8. /\ At(c) = Idle /\ At(c)' = Idle /\ Type(c)' = Type(c) /\ K(c)' = K(c) /\ Ipad(c)' = Ipad(c)
  BY <1>2 DEF At, Place, Type, K, Ipad
<1>9. Idle \notin KeyPlaces /\ Idle \notin FinalPlaces
  BY Apart
<1>10. Opening(c)'
  BY <1>5, <1>8, <1>9 DEF Context, Opening
<1>11. Open(c)'
  <2>1. SUFFICES ASSUME phase'[c] = "open" PROVE Open(c)'
    BY DEF Open
  <2>2. key[c] = K(c) /\ Holds(c, <<Ipad(c)>> \o said[c])
    BY <1>5, <1>8, <2>1 DEF Context, Open
  <2>3. key'[c] = K(c)' /\ Holds(c, <<Ipad(c)>> \o said[c])'
    BY <1>2, <1>8, <2>2 DEF Holds
  <2>. QED
    BY <1>8, <1>9, <2>3 DEF Open, FinalPlaces
<1>12. Done(c)' /\ Cleared(c)'
  BY <1>2, <1>5, <1>6, <1>8 DEF Context, Done, Cleared
<1>13. \A d \in Contexts : d # c => Elsewhere(d)
  BY <1>2, <1>5, <1>6 DEF Elsewhere
<1>. QED
  BY <1>7, <1>10, <1>11, <1>12, <1>13 DEF Kept, Context
-----------------------------------------------------------------------------
LEMMA InitIInv == Init => IInv
<1>1. SUFFICES ASSUME Init PROVE IInv
  OBVIOUS
<1>2. <<>> \in Points /\ NoArgs \in [key : Keys \cup {"none"}, data : Chunks \cup {"none"}]
  BY DEF Points, NoArgs
<1>3. usage \in Usages /\ usage.max_calls \in Nat /\ usage.max_faults \in Nat
  BY <1>1, HmacAssumption DEF Init
<1>4. \A c \in Contexts, k \in Keys : key[c] # <<"key", k>>
  BY <1>1 DEF Init, Unset
<1>5. Kinds
  BY <1>1, <1>2, <1>3, <1>4 DEF Init, Kinds
<1>6. \A c \in Contexts : Context(c)
  BY <1>1 DEF Init, Context, Opening, Open, Done, Cleared
<1>. QED
  BY <1>5, <1>6 DEF IInv

(* What a context does is one of these, and keeps the invariant. *)
Acts(c) ==
  \/ \E k \in usage.keys : HmacInit(c, k) \/ HmacOneShotEmpty(c, k)
  \/ \E d \in Chunks : HmacUpdate(c, d) \/ \E k \in usage.keys : HmacOneShot(c, k, d)
  \/ HmacUpdateEmpty(c)
  \/ HmacFinal(c)
  \/ HmacFinalNull(c)
  \/ HashInit(c)
  \/ HashUpdate(c)
  \/ HashFinal(c)
  \/ CallbackFails(c)
  \/ UpdateRefused(c)

LEMMA ActsKeep ==
  ASSUME IInv, NEW c \in Contexts, Acts(c)
  PROVE  Kept(c)
<1>1. Kinds /\ Context(c)
  BY DEF IInv
<1>2. ASSUME NEW k \in usage.keys, HmacInit(c, k) \/ HmacOneShotEmpty(c, k) PROVE Kept(c)
  <2>1. k \in Keys /\ "none" \in Chunks \cup {"none"}
    BY <1>1, HmacAssumption DEF Kinds
  <2>2. CASE HmacInit(c, k)
    BY <1>1, <2>1, <2>2, KeyedCallKeeps DEF HmacInit
  <2>3. CASE HmacOneShotEmpty(c, k)
    BY <1>1, <2>1, <2>3, KeyedCallKeeps DEF HmacOneShotEmpty
  <2>. QED
    BY <1>2, <2>2, <2>3
<1>3. ASSUME NEW k \in usage.keys, NEW d \in Chunks, HmacOneShot(c, k, d) PROVE Kept(c)
  <2>1. k \in Keys /\ d \in Chunks \cup {"none"}
    BY <1>1, HmacAssumption DEF Kinds
  <2>. QED
    BY <1>1, <1>3, <2>1, KeyedCallKeeps DEF HmacOneShot
<1>4. ASSUME NEW d \in Chunks, HmacUpdate(c, d) PROVE Kept(c)
  <2>1. /\ args' \in [Contexts -> [key : Keys \cup {"none"}, data : Chunks \cup {"none"}]]
        /\ \A e \in Contexts : e # c => args'[e] = args[e]
    BY ZenonT(40), <1>1, <1>4 DEF Kinds, HmacUpdate
  <2>. QED
    BY <1>1, <1>4, <2>1, GoOnKeeps DEF HmacUpdate
<1>5. ASSUME HmacFinal(c) PROVE Kept(c)
  <2>1. /\ args' \in [Contexts -> [key : Keys \cup {"none"}, data : Chunks \cup {"none"}]]
        /\ \A e \in Contexts : e # c => args'[e] = args[e]
    BY <1>1, <1>5 DEF Kinds, HmacFinal
  <2>. QED
    BY <1>1, <1>5, <2>1, GoOnKeeps DEF HmacFinal
<1>. QED
  BY <1>1, <1>2, <1>3, <1>4, <1>5, RefusedKeeps, HashInitKeeps, HashUpdateKeeps,
     HashFinalKeeps, CallbackFailsKeeps, UpdateRefusedKeeps DEF Acts

LEMMA NextIInv == IInv /\ [Next]_vars => IInv'
<1>1. SUFFICES ASSUME IInv, [Next]_vars PROVE IInv'
  OBVIOUS
<1>2. ASSUME NEW c \in Contexts, Acts(c) PROVE IInv'
  <2>1. Kept(c)
    BY <1>1, <1>2, ActsKeep
  <2>2. ASSUME NEW d \in Contexts PROVE Context(d)'
    <3>1. CASE d = c
      BY <2>1, <3>1 DEF Kept
    <3>2. CASE d # c
      BY <1>1, <2>1, <3>2, OthersKept DEF IInv, Kept
    <3>. QED
      BY <3>1, <3>2
  <2>. QED
    BY <2>1, <2>2 DEF IInv, Kept
<1>3. CASE UNCHANGED vars
  <2>1. Kinds'
    BY <1>1, <1>3 DEF IInv, vars, Kinds, Type
  <2>2. \A d \in Contexts : Elsewhere(d)
    BY <1>3 DEF vars, Elsewhere
  <2>. QED
    BY <1>1, <2>1, <2>2, OthersKept DEF IInv
<1>. QED
  BY <1>1, <1>2, <1>3 DEF Next, Acts

(***************************************************************************)
(* Every context knows what the hash_ctx of its table holds at every       *)
(* callback, or its exchange is void: for any number of contexts, tables,  *)
(* keys and calls, in any interleaving, with callbacks failing anywhere.   *)
(***************************************************************************)
THEOREM HmacInvariance == Spec => []IInv
BY InitIInv, NextIInv, PTL DEF Spec

(***************************************************************************)
(* Every variable of HMAC keeps its type, and a key copied as it is fits   *)
(* the block of the hash (hmac.c:69-80).                                   *)
(***************************************************************************)
THEOREM HmacTypeCorrect == Spec => []TypeOK
<1>1. ASSUME IInv PROVE TypeOK
  <2>1. \A c \in Contexts : \A i \in 1..Len(todo[c]) : todo[c][i] \in Step
    <3>1. SUFFICES ASSUME NEW c \in Contexts, NEW i \in 1..Len(todo[c]) PROVE todo[c][i] \in Step
      OBVIOUS
    <3>2. todo[c] \in Seq(Step)
      BY <1>1, PlaceAt DEF IInv
    <3>. QED
      BY <3>2
  <2>. QED
    BY <1>1, <2>1 DEF IInv, Kinds, TypeOK
<1>. QED
  BY <1>1, HmacInvariance, PTL

(***************************************************************************)
(* What final writes is the HMAC of RFC 2104 of the key and all the data   *)
(* of the exchange (hmac.c:46-212).                                        *)
(***************************************************************************)
THEOREM MacCorrect == Spec => []MacIsCorrect
<1>1. IInv => MacIsCorrect
  BY DEF IInv, Context, Done, MacIsCorrect
<1>. QED
  BY <1>1, HmacInvariance, PTL

(***************************************************************************)
(* At the MAX level no failed call leaves a digest in the caller's buffer  *)
(* (hmac.c:193-209).                                                       *)
(***************************************************************************)
THEOREM FailedMacWiped == Spec => []FailedMacIsWiped
<1>1. IInv => FailedMacIsWiped
  BY DEF IInv, Context, Cleared, FailedMacIsWiped
<1>. QED
  BY <1>1, HmacInvariance, PTL
-----------------------------------------------------------------------------
(***************************************************************************)
(* Every step of a context is one of the keyed hash it promises, and what  *)
(* it does to the others is to leave them alone or to void them.           *)
(***************************************************************************)
LEMMA Mapped ==
  ASSUME NEW c \in Contexts, Kinds
  PROVE  /\ Private!Open(c) <=> /\ phase[c] \in {"opening", "broken"} /\ phase'[c] = "open"
                                /\ said'[c] = <<>>
         /\ Private!Void(c) <=> phase'[c] \notin {"open", "done"}
BY DEF Kinds, Private!Open, Private!Void

Promised(c) ==
  Private!Open(c) \/ Private!Update(c) \/ Private!Final(c) \/ Private!Void(c) \/ Private!Rest(c)

LEMMA ElsewhereMac ==
  ASSUME Kinds, NEW c \in Contexts, Elsewhere(c)
  PROVE  Promised(c)
<1>1. Type(c)' = Type(c) /\ given'[c] = given[c] /\ said'[c] = said[c] /\ out'[c] = out[c]
  BY DEF Elsewhere, Type
<1>2. CASE phase'[c] = phase[c]
  BY <1>1, <1>2 DEF Private!Rest, Promised
<1>3. CASE phase'[c] = "broken"
  BY <1>3 DEF Private!Void, Promised
<1>. QED
  BY <1>2, <1>3 DEF Elsewhere

(* A context is at rest when its phase, key and data do not change, and an *)
(* exchange that is done keeps what was written to out.                    *)
LEMMA RestMac ==
  ASSUME NEW c \in Contexts, UNCHANGED <<table, given>>, phase'[c] = phase[c], said'[c] = said[c],
         phase[c] # "done" \/ out'[c] = out[c]
  PROVE  Promised(c)
BY DEF Private!Rest, Promised, Type

LEMMA VoidMac ==
  ASSUME NEW c \in Contexts, phase'[c] \in {"opening", "broken"}
  PROVE  Promised(c)
BY DEF Private!Void, Promised

LEMMA CallMac ==
  ASSUME IInv, NEW c \in Contexts,
         \/ \E k \in usage.keys : HmacInit(c, k) \/ HmacOneShotEmpty(c, k)
         \/ \E d \in Chunks : HmacUpdate(c, d) \/ \E k \in usage.keys : HmacOneShot(c, k, d)
         \/ HmacUpdateEmpty(c) \/ HmacFinal(c) \/ HmacFinalNull(c)
  PROVE  Promised(c)
<1>1. Kinds
  BY DEF IInv
<1>2. CASE \E k \in usage.keys :
             HmacInit(c, k) \/ HmacOneShotEmpty(c, k) \/ \E d \in Chunks : HmacOneShot(c, k, d)
  <2>1. phase' = [phase EXCEPT ![c] = "opening"]
    BY <1>2 DEF HmacInit, HmacOneShotEmpty, HmacOneShot, Keyed
  <2>. QED
    BY <1>1, <2>1, VoidMac DEF Kinds
<1>3. CASE HmacFinal(c) \/ \E d \in Chunks : HmacUpdate(c, d)
  <2>1. /\ phase' = [phase EXCEPT ![c] = IF @ = "open" THEN "open" ELSE "broken"]
        /\ UNCHANGED <<table, given, said>>
    BY <1>3 DEF HmacFinal, HmacUpdate, Call
  <2>2. CASE phase[c] = "open"
    BY <1>1, <2>1, <2>2, RestMac DEF Kinds
  <2>3. CASE phase[c] # "open"
    BY <1>1, <2>1, <2>3, VoidMac DEF Kinds
  <2>. QED
    BY <2>2, <2>3
<1>4. CASE HmacUpdateEmpty(c)
  BY <1>4, RestMac DEF HmacUpdateEmpty, Refuse
<1>5. CASE HmacFinalNull(c)
  <2>1. /\ phase' = [phase EXCEPT ![c] = IF @ = "done" THEN "broken" ELSE @]
        /\ UNCHANGED <<table, given, said>>
    BY <1>5 DEF HmacFinalNull, Refuse
  <2>2. CASE phase[c] = "done"
    BY <1>1, <2>1, <2>2, VoidMac DEF Kinds
  <2>3. CASE phase[c] # "done"
    BY <1>1, <2>1, <2>3, RestMac DEF Kinds
  <2>. QED
    BY <2>2, <2>3
<1>. QED
  BY <1>2, <1>3, <1>4, <1>5

(* A callback runs only while a call does: no exchange is done then. *)
LEMMA NotDone ==
  ASSUME IInv, NEW c \in Contexts, todo[c] # <<>>
  PROVE  phase[c] # "done"
BY PlaceAt DEF IInv, Context, Done

LEMMA HashUpdateMac ==
  ASSUME IInv, NEW c \in Contexts, HashUpdate(c)
  PROVE  Promised(c)
<1> DEFINE p == IF Role(c) = "ipad" /\ phase[c] = "opening" THEN "open" ELSE phase[c]
<1>1. /\ Kinds /\ Opening(c) /\ Runs(c, "update") /\ UNCHANGED <<table, given>>
      /\ phase[c] \in {"opening", "open", "done", "broken"} /\ Disturb(c, p)
      /\ said \in [Contexts -> Seq(Said)]
  BY DEF IInv, Context, HashUpdate, Proceed, Kinds
<1>2. phase'[c] = p /\ phase[c] # "done" /\ Type(c)' = Type(c) /\ given'[c] = given[c]
  BY <1>1, DisturbKeeps, NotDone DEF Runs, Type
<1>3. CASE Role(c) = "ipad" /\ phase[c] = "opening"
  <2>1. said'[c] = <<>>
    BY <1>1, <1>3 DEF HashUpdate, Opening
  <2>. QED
    BY <1>1, <1>2, <1>3, <2>1, Mapped DEF Promised
<1>4. CASE Role(c) = "data" /\ phase[c] = "open"
  <2>1. PICK item : said' = [said EXCEPT ![c] = Append(@, item)]
    BY <1>4 DEF HashUpdate
  <2>2. said'[c] = Append(said[c], item) /\ said[c] \in Seq(Said \cup {item})
    BY <1>1, <2>1
  <2>3. Len(said'[c]) = Len(said[c]) + 1 /\ SubSeq(said'[c], 1, Len(said[c])) = said[c]
    BY <2>2, AppendProperties
  <2>4. Private!Update(c)
    BY <1>2, <1>4, <2>3 DEF Private!Update
  <2>. QED
    BY <2>4 DEF Promised
<1>5. CASE Role(c) = "data" /\ phase[c] # "open"
  BY <1>1, <1>2, <1>5, VoidMac
<1>6. CASE Role(c) # "data" /\ ~(Role(c) = "ipad" /\ phase[c] = "opening")
  <2>1. said' = said
    BY <1>6 DEF HashUpdate
  <2>. QED
    BY <1>1, <1>2, <1>6, <2>1, RestMac
<1>. QED
  BY <1>3, <1>4, <1>5, <1>6

LEMMA HashFinalMac ==
  ASSUME IInv, NEW c \in Contexts, HashFinal(c)
  PROVE  Promised(c)
<1> DEFINE p == IF Role(c) = "mac" /\ phase[c] = "open" THEN "done" ELSE phase[c]
<1>1. /\ Kinds /\ Runs(c, "final") /\ UNCHANGED <<table, given, said>>
      /\ phase[c] \in {"opening", "open", "done", "broken"} /\ Disturb(c, p)
  BY DEF IInv, HashFinal, Proceed, Kinds
<1>2. phase'[c] = p /\ phase[c] # "done" /\ Type(c)' = Type(c) /\ given'[c] = given[c]
  BY <1>1, DisturbKeeps, NotDone DEF Runs, Type
<1>3. CASE Role(c) = "mac" /\ phase[c] = "open"
  <2>1. Done(c)'
    BY ActsKeep DEF Acts, Kept, Context
  <2>2. out'[c] = Mac(Type(c), given[c], said[c])
    BY <1>1, <1>2, <1>3, <2>1 DEF Done, Mac, PaddedKey, HashBlock
  <2>3. Private!Final(c)
    BY <1>1, <1>2, <1>3, <2>2 DEF Private!Final, KeyedMac
  <2>. QED
    BY <2>3 DEF Promised
<1>4. CASE ~(Role(c) = "mac" /\ phase[c] = "open")
  BY <1>1, <1>2, <1>4, RestMac
<1>. QED
  BY <1>3, <1>4

LEMMA CallbackMac ==
  ASSUME IInv, NEW c \in Contexts, HashInit(c) \/ CallbackFails(c) \/ UpdateRefused(c)
  PROVE  Promised(c)
<1>1. Kinds /\ phase[c] \in {"opening", "open", "done", "broken"}
  BY DEF IInv, Kinds
<1>2. CASE HashInit(c)
  BY <1>1, <1>2, DisturbKeeps, RestMac DEF HashInit, Proceed
<1>3. CASE CallbackFails(c)
  <2>1. phase'[c] = "broken"
    BY <1>1, <1>3, DisturbKeeps DEF CallbackFails
  <2>. QED
    BY <2>1, VoidMac
<1>4. CASE UpdateRefused(c)
  BY <1>4, RestMac DEF UpdateRefused
<1>. QED
  BY <1>2, <1>3, <1>4

(***************************************************************************)
(* Each context implements a keyed hash of its own (MacFunction), whatever *)
(* the contexts that share its callbacks table do (hmac.c:46-240).         *)
(***************************************************************************)
THEOREM MacRefinement == Spec => ImplementsMac
<1>1. Init => Private!Init
  BY DEF Init, Private!Init
<1>2. IInv /\ [Next]_vars => [Private!Next]_(Private!vars)
  <2>1. SUFFICES ASSUME IInv, [Next]_vars PROVE [Private!Next]_(Private!vars)
    OBVIOUS
  <2>2. ASSUME NEW c \in Contexts, Acts(c), NEW d \in Contexts PROVE Promised(d)
    <3>1. CASE d = c
      BY <2>1, <2>2, <3>1, CallMac, HashUpdateMac, HashFinalMac, CallbackMac DEF Acts
    <3>2. CASE d # c
      BY <2>1, <2>2, <3>2, ActsKeep, ElsewhereMac DEF IInv, Kept
    <3>. QED
      BY <3>1, <3>2
  <2>3. CASE Next
    BY <2>2, <2>3 DEF Next, Acts, Private!Next, Promised
  <2>4. CASE UNCHANGED vars
    BY <2>4 DEF vars, Private!vars, Type
  <2>. QED
    BY <2>1, <2>3, <2>4
<1>. QED
  BY <1>1, <1>2, HmacInvariance, PTL DEF Spec, ImplementsMac, Private!Spec
=============================================================================
