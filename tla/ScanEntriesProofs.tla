--------------------------- MODULE ScanEntriesProofs ---------------------------
(***************************************************************************)
(* The scanner agrees with the JSON grammar for every set of strings and   *)
(* every depth of nesting, and so it stops exactly at the entries key of   *)
(* an object under a key log.                                              *)
(*                                                                         *)
(* The inductive invariant is the types, the agreement of the scanner's    *)
(* stacks with the document's, and a fact about the document that the      *)
(* agreement needs: only an object wants a key.                            *)
(***************************************************************************)
EXTENDS ScanEntries, SequenceTheorems, TLAPS

OnlyObjectsWantKeys == \A i \in 1..Len(stack) : stack[i].atKey => stack[i].object

ScanInv == TypeOK /\ OnlyObjectsWantKeys /\ FollowsGrammar /\ StopsAtLogEntries

(***************************************************************************)
(* AfterValue keeps the containers and their keys, and leaves no object    *)
(* waiting for a value.                                                    *)
(***************************************************************************)
LEMMA AfterValueFacts ==
  ASSUME NEW s \in Seq(Frame)
  PROVE  /\ AfterValue(s) \in Seq(Frame) /\ Len(AfterValue(s)) = Len(s)
         /\ \A i \in 1..Len(s) : /\ AfterValue(s)[i].object = s[i].object
                                 /\ AfterValue(s)[i].key = s[i].key
                                 /\ i < Len(s) => AfterValue(s)[i] = s[i]
         /\ s # <<>> => AfterValue(s)[Len(s)].atKey = s[Len(s)].object
  <1>1. CASE s = <<>>
    BY <1>1, EmptySeq DEF AfterValue
  <1>2. CASE s # <<>>
    <2> DEFINE n == Len(s)
               f == [s[n] EXCEPT !.atKey = s[n].object]
    <2>1. n \in 1..Len(s)
      BY <1>2, EmptySeq, LenProperties
    <2>2. s[n] \in Frame
      BY <2>1, ElementOfSeq
    <2>3. /\ f \in Frame /\ f.object = s[n].object /\ f.key = s[n].key
          /\ f.atKey = s[n].object
      <3>1. s[n].object \in BOOLEAN
        BY <2>2 DEF Frame
      <3> QED
        BY <2>2, <3>1 DEF Frame
    <2>4. AfterValue(s) = [s EXCEPT ![n] = f]
      BY <1>2 DEF AfterValue
    <2> HIDE DEF f, n
    <2>5. /\ AfterValue(s) \in Seq(Frame) /\ Len(AfterValue(s)) = Len(s)
          /\ \A i \in 1..Len(s) : AfterValue(s)[i] = IF i = n THEN f ELSE s[i]
      BY <2>1, <2>3, <2>4, ExceptSeq DEF n
    <2>6. n = Len(s)
      BY DEF n
    <2>7. ASSUME NEW i \in 1..Len(s)
          PROVE  /\ AfterValue(s)[i].object = s[i].object
                 /\ AfterValue(s)[i].key = s[i].key
                 /\ i < Len(s) => AfterValue(s)[i] = s[i]
      <3>1. i = n => AfterValue(s)[i] = f /\ ~(i < Len(s))
        BY <2>5, <2>6, LenProperties
      <3>2. i # n => AfterValue(s)[i] = s[i]
        BY <2>5, Zenon
      <3> QED
        BY <2>3, <3>1, <3>2, Zenon
    <2>8. AfterValue(s)[Len(s)].atKey = s[Len(s)].object
      BY <2>1, <2>3, <2>5, <2>6, Zenon
    <2> QED
      BY <2>5, <2>7, <2>8
  <1> QED
    BY <1>1, <1>2

(***************************************************************************)
(* All but the last element of a sequence.                                 *)
(***************************************************************************)
LEMMA FrontFacts ==
  ASSUME NEW S, NEW s \in Seq(S), s # <<>>
  PROVE  /\ Front(s) \in Seq(S) /\ Len(Front(s)) = Len(s) - 1
         /\ \A i \in 1..(Len(s) - 1) : Front(s)[i] = s[i]
  <1>1. Len(s) \in Nat /\ Len(s) >= 1
    BY EmptySeq
  <1>2. \A i \in 1..(Len(s) - 1) : s[i] \in S
    BY <1>1, ElementOfSeq
  <1>3. 1 \in Int /\ Len(s) - 1 \in Int
    BY <1>1
  <1>4. /\ Front(s) \in Seq(S)
        /\ Len(Front(s)) = IF 1 <= Len(s) - 1 THEN (Len(s) - 1) - 1 + 1 ELSE 0
        /\ \A i \in 1..((Len(s) - 1) - 1 + 1) : Front(s)[i] = s[1 + i - 1]
    BY <1>2, <1>3, SubSeqProperties DEF Front
  <1>5. \A i \in 1..(Len(s) - 1) : 1 + i - 1 = i /\ i \in 1..((Len(s) - 1) - 1 + 1)
    BY <1>1
  <1>6. Len(Front(s)) = Len(s) - 1
    <2>1. CASE Len(s) = 1
      BY <1>4, <2>1
    <2>2. CASE Len(s) > 1
      BY <1>1, <1>4, <2>2
    <2> QED
      BY <1>1, <2>1, <2>2
  <1>7. \A i \in 1..(Len(s) - 1) : Front(s)[i] = s[i]
    BY <1>4, <1>5
  <1> QED
    BY <1>4, <1>6, <1>7

-------------------------------------------------------------------------------
(***************************************************************************)
(* The initial state satisfies the invariant.                              *)
(***************************************************************************)
LEMMA InitInv == Init => ScanInv
  <1> SUFFICES ASSUME Init PROVE ScanInv
    OBVIOUS
  <1>1. stack = <<>> /\ inObject = <<>> /\ keyOf = <<>> /\ expectKey = FALSE
        /\ result = "scanning"
    BY DEF Init
  <1>2. TypeOK
    <2>1. Len(stack) = 0 /\ Len(inObject) = 0 /\ Len(keyOf) = 0
      BY <1>1, EmptySeq
    <2>2. stack \in Seq(Frame) /\ inObject \in Seq(BOOLEAN)
          /\ keyOf \in Seq(Strings \cup {NoKey})
      BY <1>1, EmptySeq, Zenon
    <2>3. Len(stack) <= MaxDepth
      BY <2>1, DepthAssumption
    <2>4. Len(inObject) = Len(stack) /\ Len(keyOf) = Len(stack)
      BY <2>1
    <2>5. expectKey \in BOOLEAN /\ result \in {"scanning", "found", "error"}
      BY <1>1
    <2> QED
      BY <2>2, <2>3, <2>4, <2>5, Zenon DEF TypeOK
  <1>3. OnlyObjectsWantKeys
    BY <1>1 DEF OnlyObjectsWantKeys
  <1>4. FollowsGrammar
    <2>1. DOMAIN stack = {}
      BY <1>1
    <2>2. expectKey = AtKey
      BY <1>1, Zenon DEF AtKey
    <2> QED
      BY <2>1, <2>2, Zenon DEF FollowsGrammar
  <1>5. StopsAtLogEntries
    BY <1>1 DEF StopsAtLogEntries, AtLogEntries
  <1> QED
    BY <1>2, <1>3, <1>4, <1>5 DEF ScanInv

-------------------------------------------------------------------------------
\* The scanner's two stacks are those of the document.
SameStacks ==
    \A i \in 1..Len(stack) : inObject[i] = stack[i].object /\ keyOf[i] = stack[i].key

(***************************************************************************)
(* The document's containers and the scanner's stack, which is as deep.    *)
(***************************************************************************)
LEMMA StackFacts ==
  ASSUME NEW s \in Seq(Frame), NEW o \in Seq(BOOLEAN), Len(o) = Len(s)
  PROVE  /\ Len(s) \in Nat /\ DOMAIN s = 1..Len(s)
         /\ (s = <<>>) <=> (Len(s) = 0)
         /\ (o = <<>>) <=> (Len(s) = 0)
         /\ \A i \in 1..Len(s) : /\ s[i] \in Frame
                                 /\ s[i].object \in BOOLEAN
                                 /\ s[i].atKey \in BOOLEAN
                                 /\ o[i] \in BOOLEAN
  <1>2. Len(s) \in Nat /\ DOMAIN s = 1..Len(s)
    BY LenProperties
  <1>3. (s = <<>>) <=> (Len(s) = 0)
    BY EmptySeq
  <1>4. (o = <<>>) <=> (Len(s) = 0)
    BY EmptySeq
  <1>5. \A i \in 1..Len(s) : s[i] \in Frame /\ o[i] \in BOOLEAN
    BY ElementOfSeq
  <1>6. \A f \in Frame : f.object \in BOOLEAN /\ f.atKey \in BOOLEAN
    BY DEF Frame
  <1> QED
    BY <1>2, <1>3, <1>4, <1>5, <1>6

(***************************************************************************)
(* What has to be shown of a step after which the scan goes on.            *)
(***************************************************************************)
LEMMA StillScanning ==
  ASSUME TypeOK', SameStacks', OnlyObjectsWantKeys', result' = "scanning",
         expectKey' = AtKey',
         stack' # <<>> => \/ Innermost'.key = NoKey
                          \/ Innermost'.atKey = Innermost'.object
  PROVE  ScanInv'
  <1>0. /\ stack' \in Seq(Frame) /\ inObject' \in Seq(BOOLEAN)
        /\ Len(inObject') = Len(stack')
    BY Zenon DEF TypeOK
  <1>1. FollowsGrammar'
    <2>1. DOMAIN stack' = 1..Len(stack')
      BY <1>0, StackFacts
    <2> QED
      BY <2>1, Zenon DEF SameStacks, FollowsGrammar
  <1>2. ~AtLogEntries'
    <2>1. SUFFICES ASSUME AtLogEntries' PROVE FALSE
      OBVIOUS
    <2>2. Len(stack') \in Nat /\ Len(stack') >= 2 /\ stack' # <<>>
      <3>1. Len(stack') >= 2
        BY <2>1, Zenon DEF AtLogEntries
      <3>2. Len(stack') \in Nat
        BY <1>0, LenProperties
      <3>3. Len(stack') # 0
        BY <3>1, <3>2
      <3> QED
        BY <1>0, <3>1, <3>2, <3>3, EmptySeq, Zenon
    <2>3. Innermost'.object /\ ~Innermost'.atKey /\ Innermost'.key = "entries"
      BY <2>1, Zenon DEF AtLogEntries, Innermost
    <2>4. Innermost'.key # NoKey
      BY <2>3, Zenon DEF NoKey
    <2> QED
      BY <2>2, <2>3, <2>4, Zenon
  <1>3. StopsAtLogEntries'
    BY <1>2 DEF StopsAtLogEntries
  <1> QED
    BY <1>1, <1>3 DEF ScanInv

(***************************************************************************)
(* What the invariant says while the scan goes on.                         *)
(***************************************************************************)
LEMMA ScanningFacts ==
  ASSUME ScanInv, result = "scanning"
  PROVE  TypeOK /\ SameStacks /\ OnlyObjectsWantKeys /\ expectKey = AtKey
  <1>1. stack \in Seq(Frame) /\ inObject \in Seq(BOOLEAN) /\ Len(inObject) = Len(stack)
    BY Zenon DEF ScanInv, TypeOK
  <1>2. DOMAIN stack = 1..Len(stack)
    BY <1>1, StackFacts
  <1>3. result # "found"
    OBVIOUS
  <1> QED
    BY <1>2, <1>3, Zenon DEF ScanInv, FollowsGrammar, SameStacks

-------------------------------------------------------------------------------
(***************************************************************************)
(* A sequence with an element added, in terms of its length n.            *)
(***************************************************************************)
LEMMA AppendFacts ==
  ASSUME NEW S, NEW s \in Seq(S), NEW e \in S, NEW n, n = Len(s)
  PROVE  /\ Append(s, e) \in Seq(S) /\ Len(Append(s, e)) = n + 1
         /\ Append(s, e)[n + 1] = e /\ \A i \in 1..n : Append(s, e)[i] = s[i]
  BY AppendProperties, ZenonT(60)

(***************************************************************************)
(* A container is opened.                                                  *)
(***************************************************************************)
LEMMA OpenPreserves ==
  ASSUME ScanInv, NEW isObject \in BOOLEAN, OpenContainer(isObject)
  PROVE  ScanInv'
  <1> DEFINE n == Len(stack)
             f == [object |-> isObject, key |-> NoKey, atKey |-> isObject]
  <1>1. /\ result = "scanning" /\ result' = "scanning" /\ n < MaxDepth
        /\ stack' = Append(stack, f) /\ inObject' = Append(inObject, isObject)
        /\ keyOf' = Append(keyOf, NoKey) /\ expectKey' = isObject
    BY Zenon DEF OpenContainer, Push
  <1>2. TypeOK /\ SameStacks /\ OnlyObjectsWantKeys
    BY <1>1, ScanningFacts
  <1>3. /\ stack \in Seq(Frame) /\ inObject \in Seq(BOOLEAN)
        /\ keyOf \in Seq(Strings \cup {NoKey})
        /\ Len(inObject) = n /\ Len(keyOf) = n
    BY <1>2, Zenon DEF TypeOK
  <1>4. n \in Nat
    BY <1>3, LenProperties
  <1>5. f \in Frame /\ f.object = isObject /\ f.key = NoKey /\ f.atKey = isObject
    BY DEF Frame
  <1> HIDE DEF f
  <1> HIDE DEF n
  <1>6. /\ stack' \in Seq(Frame) /\ Len(stack') = n + 1
        /\ stack'[n + 1] = f /\ \A i \in 1..n : stack'[i] = stack[i]
    BY <1>1, <1>3, <1>5, AppendFacts DEF n
  <1>7. /\ inObject' \in Seq(BOOLEAN) /\ Len(inObject') = n + 1
        /\ inObject'[n + 1] = isObject /\ \A i \in 1..n : inObject'[i] = inObject[i]
    BY <1>1, <1>3, AppendFacts
  <1>8. /\ keyOf' \in Seq(Strings \cup {NoKey}) /\ Len(keyOf') = n + 1
        /\ keyOf'[n + 1] = NoKey /\ \A i \in 1..n : keyOf'[i] = keyOf[i]
    BY <1>1, <1>3, AppendFacts
  <1>9. \A i \in 1..Len(stack') : i = n + 1 \/ i \in 1..n
    BY <1>4, <1>6
  <1>10. TypeOK'
    <2>1. n + 1 <= MaxDepth
      BY <1>1, <1>4, DepthAssumption
    <2>2. Len(inObject') = Len(stack') /\ Len(keyOf') = Len(stack')
      BY <1>6, <1>7, <1>8
    <2>3. expectKey' \in BOOLEAN /\ result' \in {"scanning", "found", "error"}
      BY <1>1
    <2> QED
      BY <1>6, <1>7, <1>8, <2>1, <2>2, <2>3, Zenon DEF TypeOK
  <1>11. SameStacks'
    BY <1>2, <1>5, <1>6, <1>7, <1>8, <1>9, Zenon DEF SameStacks, n
  <1>12. OnlyObjectsWantKeys'
    BY <1>2, <1>5, <1>6, <1>9, Zenon DEF OnlyObjectsWantKeys, n
  <1>13. stack' # <<>> /\ Innermost' = f
    BY <1>4, <1>6, EmptySeq DEF Innermost
  <1>14. expectKey' = AtKey'
    BY <1>1, <1>5, <1>13, Zenon DEF AtKey
  <1> QED
    BY <1>1, <1>5, <1>10, <1>11, <1>12, <1>13, <1>14, StillScanning, Zenon

(***************************************************************************)
(* A value that is complete, a container or not, as the document and the   *)
(* scanner see it: s, o and k are what is open around it.                  *)
(***************************************************************************)
LEMMA ValueCompleted ==
  ASSUME NEW s \in Seq(Frame), NEW o \in Seq(BOOLEAN),
         NEW k \in Seq(Strings \cup {NoKey}), Len(s) <= MaxDepth, Len(o) = Len(s), Len(k) = Len(s),
         \A i \in 1..Len(s) : o[i] = s[i].object /\ k[i] = s[i].key,
         \A i \in 1..Len(s) : s[i].atKey => s[i].object,
         stack' = AfterValue(s), inObject' = o, keyOf' = k,
         expectKey' = InAnObject(o), result' = "scanning"
  PROVE  ScanInv'
  <1> DEFINE n == Len(s)
  <1>1. /\ stack' \in Seq(Frame) /\ Len(stack') = n
        /\ \A i \in 1..n : /\ stack'[i].object = s[i].object
                           /\ stack'[i].key = s[i].key
                           /\ i < n => stack'[i] = s[i]
        /\ s # <<>> => stack'[n].atKey = s[n].object
    BY AfterValueFacts
  <1>0. n \in Nat
    BY LenProperties
  <1>2. (s = <<>> <=> n = 0) /\ (o = <<>> <=> n = 0) /\ (stack' = <<>> <=> n = 0)
    <2>1. \A S : \A t \in Seq(S) : t = <<>> <=> Len(t) = 0
      BY EmptySeq
    <2> QED
      BY <1>1, <2>1, Zenon
  <1>3. TypeOK'
    <2>1. expectKey' \in BOOLEAN /\ result' \in {"scanning", "found", "error"}
      BY <1>2, StackFacts DEF InAnObject
    <2> QED
      BY <1>1, <2>1, Zenon DEF TypeOK
  <1>4. SameStacks'
    BY <1>1, Zenon DEF SameStacks
  <1>5. n # 0 => /\ Innermost'.atKey = Innermost'.object
                 /\ Innermost'.object = o[n]
    <2>1. n # 0 => n \in 1..n
      BY <1>0
    <2> QED
      BY <1>1, <1>2, <2>1, Zenon DEF Innermost
  <1>6. OnlyObjectsWantKeys'
    <2> SUFFICES ASSUME NEW i \in 1..n, stack'[i].atKey PROVE stack'[i].object
      BY <1>1, Zenon DEF OnlyObjectsWantKeys
    <2>1. CASE i < n
      BY <1>1, <2>1, Zenon
    <2>2. CASE i = n
      <3>1. n # 0
        BY <1>0, <2>2
      <3> QED
        BY <1>1, <1>5, <2>2, <3>1, Zenon DEF Innermost
    <2>3. i < n \/ i = n
      BY <1>0
    <2> QED
      BY <2>1, <2>2, <2>3, Zenon
  <1>7. expectKey' = AtKey'
    BY <1>1, <1>2, <1>5, Zenon DEF AtKey, InAnObject
  <1> QED
    BY <1>2, <1>3, <1>4, <1>5, <1>6, <1>7, StillScanning, Zenon

(***************************************************************************)
(* A container is closed: it is a value of the one around it.              *)
(***************************************************************************)
LEMMA ClosePreserves ==
  ASSUME ScanInv, CloseContainer
  PROVE  ScanInv'
  <1> DEFINE s == Front(stack)
             o == Front(inObject)
             k == Front(keyOf)
  <1>1. result = "scanning" /\ result' = "scanning" /\ stack # <<>>
        /\ stack' = AfterValue(s)
    BY Zenon DEF CloseContainer
  <1>2. TypeOK /\ SameStacks /\ OnlyObjectsWantKeys
    BY <1>1, ScanningFacts
  <1>3. /\ stack \in Seq(Frame) /\ inObject \in Seq(BOOLEAN)
        /\ keyOf \in Seq(Strings \cup {NoKey})
        /\ Len(inObject) = Len(stack) /\ Len(keyOf) = Len(stack) /\ Len(stack) <= MaxDepth
    BY <1>2, Zenon DEF TypeOK
  <1>4. inObject # <<>> /\ keyOf # <<>>
    BY <1>1, <1>3, EmptySeq
  <1>5. inObject' = o /\ keyOf' = k /\ expectKey' = InAnObject(o)
    BY <1>4, Zenon DEF CloseContainer, Pop, AfterClose
  <1>6. /\ s \in Seq(Frame) /\ Len(s) = Len(stack) - 1
        /\ \A i \in 1..(Len(stack) - 1) : s[i] = stack[i]
    BY <1>1, <1>3, FrontFacts, Zenon
  <1>7. /\ o \in Seq(BOOLEAN) /\ Len(o) = Len(inObject) - 1
        /\ \A i \in 1..(Len(inObject) - 1) : o[i] = inObject[i]
    BY <1>3, <1>4, FrontFacts, Zenon
  <1>8. /\ k \in Seq(Strings \cup {NoKey}) /\ Len(k) = Len(keyOf) - 1
        /\ \A i \in 1..(Len(keyOf) - 1) : k[i] = keyOf[i]
    BY <1>3, <1>4, FrontFacts, Zenon
  <1>9. Len(stack) \in Nat
    BY <1>3, LenProperties
  <1> HIDE DEF s, o, k
  <1>10. Len(s) <= MaxDepth /\ Len(o) = Len(s) /\ Len(k) = Len(s)
    BY <1>3, <1>6, <1>7, <1>8, <1>9, DepthAssumption
  <1>11. \A i \in 1..Len(s) : /\ i \in 1..Len(stack)
                              /\ i \in 1..(Len(stack) - 1)
                              /\ i \in 1..(Len(inObject) - 1)
                              /\ i \in 1..(Len(keyOf) - 1)
    BY <1>3, <1>6, <1>9
  <1>12. \A i \in 1..Len(s) : o[i] = s[i].object /\ k[i] = s[i].key
    BY <1>2, <1>6, <1>7, <1>8, <1>11, Zenon DEF SameStacks
  <1>13. \A i \in 1..Len(s) : s[i].atKey => s[i].object
    BY <1>2, <1>6, <1>11, Zenon DEF OnlyObjectsWantKeys
  <1> QED
    BY <1>1, <1>5, <1>6, <1>7, <1>8, <1>10, <1>12, <1>13, ValueCompleted, Zenon

(***************************************************************************)
(* A string, a number, a boolean or null where the grammar has a value.    *)
(***************************************************************************)
LEMMA ValuePreserves ==
  ASSUME ScanInv, (\E s \in Strings : StringValue(s)) \/ Scalar
  PROVE  ScanInv'
  <1>1. result = "scanning" /\ AtValue /\ stack' = AfterValue(stack)
    BY Zenon DEF StringValue, Scalar
  <1>2. TypeOK /\ SameStacks /\ OnlyObjectsWantKeys /\ expectKey = AtKey
    BY <1>1, ScanningFacts
  <1>3. SeeScalar
    BY <1>1, <1>2, Zenon DEF StringValue, Scalar, SeeString, AtValue
  <1>4. /\ inObject' = inObject /\ keyOf' = keyOf /\ result' = "scanning"
        /\ expectKey' = InAnObject(inObject)
    BY <1>1, <1>3, Zenon DEF SeeScalar
  <1> QED
    BY <1>1, <1>2, <1>4, ValueCompleted, Zenon DEF TypeOK, SameStacks, OnlyObjectsWantKeys

(***************************************************************************)
(* A key: the one step that can find the entries of a log.                 *)
(***************************************************************************)
LEMMA KeyPreserves ==
  ASSUME ScanInv, NEW str \in Strings, Key(str)
  PROVE  ScanInv'
  <1> DEFINE n == Len(stack)
             f == [stack[n] EXCEPT !.key = str, !.atKey = FALSE]
  <1>1. /\ result = "scanning" /\ AtKey
        /\ stack' = [stack EXCEPT ![n].key = str, ![n].atKey = FALSE]
    BY Zenon DEF Key
  <1>2. TypeOK /\ SameStacks /\ OnlyObjectsWantKeys /\ expectKey = AtKey
    BY <1>1, ScanningFacts
  <1>3. /\ stack \in Seq(Frame) /\ inObject \in Seq(BOOLEAN)
        /\ keyOf \in Seq(Strings \cup {NoKey}) /\ n <= MaxDepth
        /\ Len(inObject) = n /\ Len(keyOf) = n /\ expectKey \in BOOLEAN
    BY <1>2, Zenon DEF TypeOK
  <1>4. stack # <<>> /\ stack[n].atKey
    BY <1>1, Zenon DEF AtKey, Innermost
  <1>5. n \in Nat /\ n >= 1
    BY <1>3, <1>4, EmptySeq
  <1>6. n \in 1..n
    BY <1>5
  <1>7. stack[n].object /\ stack[n] \in Frame
    <2>1. stack[n].object
      BY <1>2, <1>4, <1>6, Zenon DEF OnlyObjectsWantKeys
    <2>2. stack[n] \in Frame
      BY <1>3, <1>6, ElementOfSeq
    <2> QED
      BY <2>1, <2>2
  <1>8. f \in Frame /\ f.object = stack[n].object /\ f.key = str /\ f.atKey = FALSE
    BY <1>7 DEF Frame
  <1>9. stack' = [stack EXCEPT ![n] = f]
    BY <1>1
  <1>10. SeeKey(str)
    BY <1>1, <1>2, Zenon DEF Key, SeeString
  <1>11. inObject' = inObject /\ keyOf' = [keyOf EXCEPT ![n] = str]
    BY <1>3, <1>10 DEF SeeKey
  <1> HIDE DEF f, n
  <1>12. /\ stack' \in Seq(Frame) /\ Len(stack') = n
         /\ \A i \in 1..n : stack'[i] = IF i = n THEN f ELSE stack[i]
    BY <1>3, <1>6, <1>8, <1>9, ExceptSeq DEF n
  <1>13. /\ keyOf' \in Seq(Strings \cup {NoKey}) /\ Len(keyOf') = n
         /\ \A i \in 1..n : keyOf'[i] = IF i = n THEN str ELSE keyOf[i]
    BY <1>3, <1>6, <1>11, ExceptSeq
  <1>14. \/ IsLogEntries(str) /\ result' = "found" /\ expectKey' = expectKey
         \/ ~IsLogEntries(str) /\ result' = "scanning" /\ expectKey' = FALSE
    BY <1>1, <1>10, Zenon DEF SeeKey
  <1>15. TypeOK'
    <2>1. expectKey' \in BOOLEAN /\ result' \in {"scanning", "found", "error"}
      BY <1>3, <1>14
    <2>2. n <= MaxDepth
      BY <1>3 DEF n
    <2> QED
      BY <1>3, <1>11, <1>12, <1>13, <2>1, <2>2, Zenon DEF TypeOK
  <1>16. SameStacks'
    BY <1>2, <1>8, <1>11, <1>12, <1>13, ZenonT(60) DEF SameStacks, n
  <1>17. OnlyObjectsWantKeys'
    BY <1>2, <1>8, <1>12, Zenon DEF OnlyObjectsWantKeys, n
  <1>18. AtKey' = FALSE
    BY <1>6, <1>8, <1>12, Zenon DEF AtKey, Innermost
  <1>19. FollowsGrammar'
    <2>1. DOMAIN stack' = 1..Len(stack')
      BY <1>12, LenProperties
    <2>2. result' # "found" => expectKey' = AtKey'
      BY <1>14, <1>18
    <2> QED
      BY <1>16, <2>1, <2>2, Zenon DEF SameStacks, FollowsGrammar
  <1>20. AtLogEntries' <=> IsLogEntries(str)
    <2>1. /\ stack'[n].object /\ ~stack'[n].atKey /\ stack'[n].key = str
      BY <1>6, <1>7, <1>8, <1>12, Zenon
    <2>2. n >= 2 => /\ n - 1 \in 1..n /\ n - 1 # n
      BY <1>5
    <2>3. n >= 2 => stack'[n - 1].key = keyOf[n - 1]
      BY <1>2, <1>12, <2>2, Zenon DEF SameStacks, n
    <2>4. AtLogEntries' <=> n >= 2 /\ str = "entries" /\ stack'[n - 1].key = "log"
      BY <1>12, <2>1, Zenon DEF AtLogEntries
    <2>5. IsLogEntries(str) <=> str = "entries" /\ n >= 2 /\ keyOf[n - 1] = "log"
      BY <1>3, Zenon DEF IsLogEntries, n
    <2> QED
      BY <2>3, <2>4, <2>5, Zenon
  <1>21. StopsAtLogEntries'
    BY <1>14, <1>20 DEF StopsAtLogEntries
  <1> QED
    BY <1>15, <1>17, <1>19, <1>21 DEF ScanInv

(***************************************************************************)
(* The end of the text, and steps in which nothing happens.                *)
(***************************************************************************)
LEMMA FailPreserves ==
  ASSUME ScanInv, TokenFails \/ UNCHANGED vars
  PROVE  ScanInv'
  <1>1. CASE UNCHANGED vars
    <2>1. stack' = stack /\ inObject' = inObject /\ keyOf' = keyOf
          /\ expectKey' = expectKey /\ result' = result
      BY <1>1 DEF vars, docVars, scanVars
    <2> QED
      BY <2>1 DEF ScanInv, TypeOK, OnlyObjectsWantKeys, FollowsGrammar, AtKey, Innermost,
                  StopsAtLogEntries, AtLogEntries
  <1>2. CASE TokenFails
    <2>1. /\ stack' = stack /\ inObject' = inObject /\ keyOf' = keyOf
          /\ expectKey' = expectKey /\ result = "scanning" /\ result' = "error"
      BY <1>2 DEF TokenFails, docVars
    <2>2. TypeOK' /\ OnlyObjectsWantKeys'
      BY <2>1 DEF ScanInv, TypeOK, OnlyObjectsWantKeys
    <2>3. FollowsGrammar'
      BY <2>1 DEF ScanInv, FollowsGrammar, AtKey, Innermost
    <2>4. StopsAtLogEntries'
      BY <2>1 DEF StopsAtLogEntries
    <2> QED
      BY <2>2, <2>3, <2>4 DEF ScanInv
  <1> QED
    BY <1>1, <1>2

(***************************************************************************)
(* The invariant holds throughout.                                         *)
(***************************************************************************)
LEMMA ScanInvariant == Spec => []ScanInv
  <1>1. ScanInv /\ [Next]_vars => ScanInv'
    BY OpenPreserves, ClosePreserves, ValuePreserves, KeyPreserves, FailPreserves DEF Next
  <1> QED
    BY InitInv, <1>1, PTL DEF Spec

-------------------------------------------------------------------------------
\* The types hold for every set of strings and every depth of nesting.
THEOREM ScanTypeCorrect == Spec => []TypeOK
  <1>1. ScanInv => TypeOK
    BY DEF ScanInv
  <1> QED
    BY ScanInvariant, <1>1, PTL

\* Keys and values are told apart, and keyOf[depth-1] is in the slice, at every depth
\* (read.go 112-119).
THEOREM GrammarFollowed == Spec => []FollowsGrammar
  <1>1. ScanInv => FollowsGrammar
    BY DEF ScanInv
  <1> QED
    BY ScanInvariant, <1>1, PTL

\* The scanner stops at the entries of a log and at nothing else, at every depth
\* (read.go 112-119, 158-165).
THEOREM EntriesFound == Spec => []StopsAtLogEntries
  <1>1. ScanInv => StopsAtLogEntries
    BY DEF ScanInv
  <1> QED
    BY ScanInvariant, <1>1, PTL

===============================================================================
