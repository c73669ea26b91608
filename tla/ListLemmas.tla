-------------------------------- MODULE ListLemmas --------------------------------
(***************************************************************************)
(* What the lists of PollOneOff, HostMaps and SyscallDispatch contain, for *)
(* every input.  GuestLists_proofs carries it into the calls.              *)
(***************************************************************************)
EXTENDS HostMaps, PollOneOff, SyscallDispatch, FiniteSetTheorems, WellFoundedInduction, TLAPS

-----------------------------------------------------------------------------
(* Arranged: each member of the set has one place in the list.               *)

IsOrder(S, before) ==
    /\ \A x, y, z \in S : <<x, y>> \in before /\ <<y, z>> \in before => <<x, z>> \in before
    /\ \A x \in S : <<x, x>> \notin before
    /\ \A x, y \in S : x # y => <<x, y>> \in before \/ <<y, x>> \in before

\* The place of a member is counted by those before it, and no two members have
\* the same number of them: an injection into as many numbers as there are
\* members, which is therefore onto.
LEMMA PlacesAreTaken ==
  ASSUME NEW S, IsFiniteSet(S), NEW before, IsOrder(S, before),
         NEW place, place = [x \in S |-> Cardinality({y \in S : <<y, x>> \in before})]
  PROVE  /\ \A x, z \in S : <<x, z>> \in before => place[x] < place[z]
         /\ \A x, z \in S : place[x] = place[z] => x = z
         /\ \A x \in S : place[x] \in 0..(Cardinality(S) - 1)
         /\ \A k \in 0..(Cardinality(S) - 1) : \E x \in S : place[x] = k
<1> DEFINE Before(x) == {y \in S : <<y, x>> \in before}
           n == Cardinality(S)
<1>1. n \in Nat
  BY FS_CardinalityType
<1>2. \A x \in S : IsFiniteSet(Before(x)) /\ place[x] = Cardinality(Before(x)) /\ place[x] \in Nat
  <2> TAKE x \in S
  <2>1. IsFiniteSet(Before(x))
    BY FS_Subset
  <2> QED
    BY <2>1, FS_CardinalityType
<1>3. ASSUME NEW x \in S, NEW T \in SUBSET S, Before(x) \subseteq T, x \in T
      PROVE  place[x] < Cardinality(T)
  <2>1. x \notin Before(x)
    BY DEF IsOrder
  <2>2. Cardinality(Before(x) \cup {x}) = place[x] + 1
    BY <1>2, <2>1, FS_AddElement
  <2>3. IsFiniteSet(T)
    BY FS_Subset
  <2>4. Before(x) \cup {x} \subseteq T
    BY <1>3
  <2>5. Cardinality(Before(x) \cup {x}) <= Cardinality(T) /\ Cardinality(T) \in Nat
    BY <2>3, <2>4, FS_Subset, FS_CardinalityType
  <2> QED
    BY <1>2, <2>2, <2>5
<1>4. ASSUME NEW x \in S, NEW z \in S, <<x, z>> \in before
      PROVE  place[x] < place[z]
  <2>1. Before(x) \subseteq Before(z) /\ x \in Before(z) /\ Before(z) \in SUBSET S
    BY <1>4 DEF IsOrder
  <2>2. place[x] < Cardinality(Before(z))
    BY <1>3, <2>1
  <2> QED
    BY <1>2, <2>2
<1>5. ASSUME NEW x \in S, NEW z \in S, place[x] = place[z]
      PROVE  x = z
  <2>1. ~ (place[x] < place[z]) /\ ~ (place[z] < place[x])
    <3>1. place[x] \in Nat /\ place[z] \in Nat
      BY <1>2
    <3> QED
      BY <1>5, <3>1
  <2>2. <<x, z>> \notin before /\ <<z, x>> \notin before
    BY <1>4, <2>1
  <2> QED
    BY <2>2 DEF IsOrder
<1>6. ASSUME NEW x \in S
      PROVE  place[x] \in 0..(n - 1)
  <2>1. place[x] < n
    BY <1>3
  <2> QED
    BY <1>1, <1>2, <2>1
<1>7. place \in Injection(S, 0..(n - 1))
  <2>1. place \in [S -> 0..(n - 1)]
    BY <1>6
  <2> QED
    BY <1>5, <2>1 DEF Injection, IsInjective
<1>8. IsFiniteSet(0..(n - 1)) /\ Cardinality(0..(n - 1)) = n
  BY <1>1, FS_Interval
<1>9. place \in Surjection(S, 0..(n - 1))
  BY <1>7, <1>8, FS_Injection
<1> QED
  BY <1>4, <1>5, <1>6, <1>9 DEF Surjection

\* e has each member of S once.
OnceEach(e, S) ==
    /\ Cardinality(S) \in Nat /\ DOMAIN e = 1..Cardinality(S) /\ Len(e) = Cardinality(S)
    /\ \A k \in DOMAIN e : e[k] \in S
    /\ \A x \in S : \E k \in DOMAIN e : e[k] = x
    /\ \A j, k \in DOMAIN e : e[j] = e[k] => j = k

\* Arranged gives each member of the set once, in order.
LEMMA ArrangedLists ==
  ASSUME NEW S, IsFiniteSet(S), NEW before, IsOrder(S, before), NEW e, e = Arranged(S, before)
  PROVE  /\ OnceEach(e, S)
         /\ \A j, k \in DOMAIN e : j < k => <<e[j], e[k]>> \in before
<1> DEFINE n == Cardinality(S)
           place == [x \in S |-> Cardinality({y \in S : <<y, x>> \in before})]
<1>1. n \in Nat
  BY FS_CardinalityType
<1>2. /\ \A x, z \in S : <<x, z>> \in before => place[x] < place[z]
      /\ \A x, z \in S : place[x] = place[z] => x = z
      /\ \A x \in S : place[x] \in 0..(n - 1)
      /\ \A k \in 0..(n - 1) : \E x \in S : place[x] = k
  <2>1. place = [x \in S |-> Cardinality({y \in S : <<y, x>> \in before})]
    OBVIOUS
  <2> HIDE DEF place
  <2> QED
    BY <2>1, PlacesAreTaken
<1>3. e = [k \in 1..n |-> CHOOSE x \in S : Cardinality({y \in S : <<y, x>> \in before}) = k - 1]
  BY DEF Arranged
<1>9. \A x \in S : place[x] = Cardinality({y \in S : <<y, x>> \in before})
  OBVIOUS
<1> HIDE DEF place
<1>4. ASSUME NEW k \in 1..n
      PROVE  e[k] \in S /\ place[e[k]] = k - 1
  <2>1. \E x \in S : Cardinality({y \in S : <<y, x>> \in before}) = k - 1
    <3>1. k - 1 \in 0..(n - 1)
      BY <1>1
    <3> QED
      BY <1>2, <1>9, <3>1
  <2>2. e[k] = CHOOSE x \in S : Cardinality({y \in S : <<y, x>> \in before}) = k - 1
    BY <1>3
  <2>3. e[k] \in S /\ Cardinality({y \in S : <<y, e[k]>> \in before}) = k - 1
    BY <2>1, <2>2
  <2> QED
    BY <1>9, <2>3
<1>5. DOMAIN e = 1..n /\ Len(e) = n
  <2>1. DOMAIN e = 1..n /\ e = [k \in 1..n |-> e[k]]
    BY <1>3
  <2>2. e \in [1..n -> S]
    BY <1>4, <2>1
  <2>3. e \in Seq(S)
    BY <1>1, <2>2
  <2> QED
    BY <1>1, <2>1, <2>3
<1>6. ASSUME NEW x \in S
      PROVE  \E k \in 1..n : e[k] = x
  <2>1. place[x] + 1 \in 1..n /\ (place[x] + 1) - 1 = place[x]
    BY <1>1, <1>2
  <2> QED
    BY <1>2, <1>4, <2>1
<1>7. ASSUME NEW j \in 1..n, NEW k \in 1..n, j < k
      PROVE  <<e[j], e[k]>> \in before
  <2>1. place[e[j]] < place[e[k]]
    BY <1>1, <1>4, <1>7
  <2>2. e[j] # e[k] /\ <<e[k], e[j]>> \notin before
    BY <1>2, <1>4, <2>1
  <2> QED
    BY <1>4, <2>2 DEF IsOrder
<1>8. ASSUME NEW j \in 1..n, NEW k \in 1..n, e[j] = e[k]
      PROVE  j = k
  BY <1>1, <1>4, <1>8
<1> QED
  BY <1>1, <1>4, <1>5, <1>6, <1>7, <1>8 DEF OnceEach

\* A set of numbers below a bound.
LEMMA AscendingLists ==
  ASSUME NEW n \in Nat, NEW S \in SUBSET (1..n), NEW e, e = Ascending(S)
  PROVE  /\ OnceEach(e, S)
         /\ \A j, k \in DOMAIN e : j < k => e[j] < e[k]
<1> DEFINE before == {p \in S \X S : p[1] < p[2]}
<1>1. IsFiniteSet(S)
  <2>1. IsFiniteSet(1..n)
    BY FS_Interval
  <2> QED
    BY <2>1, FS_Subset
<1>2. \A x, y \in S : <<x, y>> \in before <=> x < y
  OBVIOUS
<1>3. e = Arranged(S, before)
  BY DEF Ascending
<1> HIDE DEF before
<1>4. IsOrder(S, before)
  BY <1>2 DEF IsOrder
<1>5. /\ OnceEach(e, S)
      /\ \A j, k \in DOMAIN e : j < k => <<e[j], e[k]>> \in before
  BY <1>1, <1>3, <1>4, ArrangedLists
<1>6. DOMAIN e = 1..Cardinality(S) /\ \A k \in DOMAIN e : e[k] \in S
  BY <1>5 DEF OnceEach
<1> QED
  BY <1>2, <1>5, <1>6

-----------------------------------------------------------------------------
(* The least number, and the greatest index.                                        *)

\* A nonempty set of naturals has a least element.
LEMMA LeastExists ==
  ASSUME NEW S \in SUBSET Nat, S # {}
  PROVE  \E m \in S : \A y \in S : m <= y
<1>1. \E m \in S : \A y \in S : ~ (<<y, m>> \in OpToRel(<, Nat))
  BY NatLessThanWellFounded, WFMin
<1>2. \A y, m \in Nat : ~ (<<y, m>> \in OpToRel(<, Nat)) => m <= y
  BY DEF OpToRel
<1> QED
  BY <1>1, <1>2, Zenon

LEMMA MaxIsIn ==
  ASSUME NEW n \in Nat, NEW S \in SUBSET (1..n), S # {}
  PROVE  Max(S) \in S /\ \A y \in S : y <= Max(S)
<1> DEFINE T == {n - x : x \in S}
<1>1. T \in SUBSET Nat /\ T # {}
  <2>1. \A x \in S : x \in Nat /\ x <= n /\ n - x \in Nat
    OBVIOUS
  <2> QED
    BY <2>1
<1>2. PICK m \in T : \A y \in T : m <= y
  BY <1>1, LeastExists
<1>3. PICK x \in S : m = n - x
  BY <1>2
<1>4. ASSUME NEW y \in S
      PROVE  y <= x
  <2>1. x \in Nat /\ y \in Nat /\ n - y \in T
    OBVIOUS
  <2>2. n - x <= n - y
    BY <1>2, <1>3, <2>1
  <2> QED
    BY <2>1, <2>2
<1> QED
  BY <1>3, <1>4 DEF Max

-----------------------------------------------------------------------------
(* The dispatch: what the classes read is what the handlers declare.         *)

\* What Invoke leaves in the place of an argument.
Place(c) == IF Translated(c) THEN "pointer" ELSE "word"

\* The types that a class hands on, in order.
Handed(class) == [i \in DOMAIN Reads[class] |-> Passed(Place(ArgSig[class][i]), Reads[class][i])]

\* The kinds of arguments that are passed on.
LEMMA KindsPassed ==
  /\ Passed(Place("i"), "u32") = "int"
  /\ Passed(Place("*"), "native_pointer") = "pointer" /\ Passed(Place("$"), "native_pointer") = "pointer"
BY DEF Passed, Place, Translated, IsAddress

LEMMA ClassesHandOn ==
  /\ Handed("P") = <<"pointer">>
  /\ Handed("S") = <<"pointer">>
  /\ Handed("U32_P") = <<"int", "pointer">>
  /\ Handed("U32_U32") = <<"int", "int">>
  /\ Handed("S_P_P") = <<"pointer", "pointer", "pointer">>
  /\ Handed("U32_P_P") = <<"int", "pointer", "pointer">>
  /\ Handed("U32_U32_U32_P") = <<"int", "int", "int", "pointer">>
  /\ Handed("U32_P_P_U32") = <<"int", "pointer", "pointer", "int">>
  /\ Handed("U32_U32_P_P") = <<"int", "int", "pointer", "pointer">>
  /\ Handed("U32_U32_U32_P_P") = <<"int", "int", "int", "pointer", "pointer">>
  /\ Handed("U32_U32_U32_P_U32") = <<"int", "int", "int", "pointer", "int">>
<1>1. Handed("P") = <<"pointer">>
  <2>1. /\ ArgSig["P"] = <<"*">>
        /\ Reads["P"] = <<"native_pointer">>
    BY DEF ArgSig, Reads
  <2>2. /\ Handed("P") = [i \in 1..1 |-> Handed("P")[i]]
        /\ \A i \in 1..1 : Handed("P")[i] = Passed(Place(ArgSig["P"][i]), Reads["P"][i])
    BY <2>1 DEF Handed
  <2> QED
    BY <2>1, <2>2, KindsPassed
<1>2. Handed("S") = <<"pointer">>
  <2>1. /\ ArgSig["S"] = <<"$">>
        /\ Reads["S"] = <<"native_pointer">>
    BY DEF ArgSig, Reads
  <2>2. /\ Handed("S") = [i \in 1..1 |-> Handed("S")[i]]
        /\ \A i \in 1..1 : Handed("S")[i] = Passed(Place(ArgSig["S"][i]), Reads["S"][i])
    BY <2>1 DEF Handed
  <2> QED
    BY <2>1, <2>2, KindsPassed
<1>3. Handed("U32_P") = <<"int", "pointer">>
  <2>1. /\ ArgSig["U32_P"] = <<"i", "*">>
        /\ Reads["U32_P"] = <<"u32", "native_pointer">>
    BY DEF ArgSig, Reads
  <2>2. /\ Handed("U32_P") = [i \in 1..2 |-> Handed("U32_P")[i]]
        /\ \A i \in 1..2 : Handed("U32_P")[i] = Passed(Place(ArgSig["U32_P"][i]), Reads["U32_P"][i])
    BY <2>1 DEF Handed
  <2> QED
    BY <2>1, <2>2, KindsPassed
<1>4. Handed("U32_U32") = <<"int", "int">>
  <2>1. /\ ArgSig["U32_U32"] = <<"i", "i">>
        /\ Reads["U32_U32"] = <<"u32", "u32">>
    BY DEF ArgSig, Reads
  <2>2. /\ Handed("U32_U32") = [i \in 1..2 |-> Handed("U32_U32")[i]]
        /\ \A i \in 1..2 : Handed("U32_U32")[i] = Passed(Place(ArgSig["U32_U32"][i]), Reads["U32_U32"][i])
    BY <2>1 DEF Handed
  <2> QED
    BY <2>1, <2>2, KindsPassed
<1>5. Handed("S_P_P") = <<"pointer", "pointer", "pointer">>
  <2>1. /\ ArgSig["S_P_P"] = <<"$", "*", "*">>
        /\ Reads["S_P_P"] = <<"native_pointer", "native_pointer", "native_pointer">>
    BY DEF ArgSig, Reads
  <2>2. /\ Handed("S_P_P") = [i \in 1..3 |-> Handed("S_P_P")[i]]
        /\ \A i \in 1..3 : Handed("S_P_P")[i] = Passed(Place(ArgSig["S_P_P"][i]), Reads["S_P_P"][i])
    BY <2>1 DEF Handed
  <2> QED
    BY <2>1, <2>2, KindsPassed
<1>6. Handed("U32_P_P") = <<"int", "pointer", "pointer">>
  <2>1. /\ ArgSig["U32_P_P"] = <<"i", "*", "*">>
        /\ Reads["U32_P_P"] = <<"u32", "native_pointer", "native_pointer">>
    BY DEF ArgSig, Reads
  <2>2. /\ Handed("U32_P_P") = [i \in 1..3 |-> Handed("U32_P_P")[i]]
        /\ \A i \in 1..3 : Handed("U32_P_P")[i] = Passed(Place(ArgSig["U32_P_P"][i]), Reads["U32_P_P"][i])
    BY <2>1 DEF Handed
  <2> QED
    BY <2>1, <2>2, KindsPassed
<1>7. Handed("U32_U32_U32_P") = <<"int", "int", "int", "pointer">>
  <2>1. /\ ArgSig["U32_U32_U32_P"] = <<"i", "i", "i", "*">>
        /\ Reads["U32_U32_U32_P"] = <<"u32", "u32", "u32", "native_pointer">>
    BY DEF ArgSig, Reads
  <2>2. /\ Handed("U32_U32_U32_P") = [i \in 1..4 |-> Handed("U32_U32_U32_P")[i]]
        /\ \A i \in 1..4 : Handed("U32_U32_U32_P")[i] = Passed(Place(ArgSig["U32_U32_U32_P"][i]), Reads["U32_U32_U32_P"][i])
    BY <2>1 DEF Handed
  <2> QED
    BY <2>1, <2>2, KindsPassed
<1>8. Handed("U32_P_P_U32") = <<"int", "pointer", "pointer", "int">>
  <2>1. /\ ArgSig["U32_P_P_U32"] = <<"i", "*", "*", "i">>
        /\ Reads["U32_P_P_U32"] = <<"u32", "native_pointer", "native_pointer", "u32">>
    BY DEF ArgSig, Reads
  <2>2. /\ Handed("U32_P_P_U32") = [i \in 1..4 |-> Handed("U32_P_P_U32")[i]]
        /\ \A i \in 1..4 : Handed("U32_P_P_U32")[i] = Passed(Place(ArgSig["U32_P_P_U32"][i]), Reads["U32_P_P_U32"][i])
    BY <2>1 DEF Handed
  <2> QED
    BY <2>1, <2>2, KindsPassed
<1>9. Handed("U32_U32_P_P") = <<"int", "int", "pointer", "pointer">>
  <2>1. /\ ArgSig["U32_U32_P_P"] = <<"i", "i", "*", "*">>
        /\ Reads["U32_U32_P_P"] = <<"u32", "u32", "native_pointer", "native_pointer">>
    BY DEF ArgSig, Reads
  <2>2. /\ Handed("U32_U32_P_P") = [i \in 1..4 |-> Handed("U32_U32_P_P")[i]]
        /\ \A i \in 1..4 : Handed("U32_U32_P_P")[i] = Passed(Place(ArgSig["U32_U32_P_P"][i]), Reads["U32_U32_P_P"][i])
    BY <2>1 DEF Handed
  <2> QED
    BY <2>1, <2>2, KindsPassed
<1>10. Handed("U32_U32_U32_P_P") = <<"int", "int", "int", "pointer", "pointer">>
  <2>1. /\ ArgSig["U32_U32_U32_P_P"] = <<"i", "i", "i", "*", "*">>
        /\ Reads["U32_U32_U32_P_P"] = <<"u32", "u32", "u32", "native_pointer", "native_pointer">>
    BY DEF ArgSig, Reads
  <2>2. /\ Handed("U32_U32_U32_P_P") = [i \in 1..5 |-> Handed("U32_U32_U32_P_P")[i]]
        /\ \A i \in 1..5 : Handed("U32_U32_U32_P_P")[i] = Passed(Place(ArgSig["U32_U32_U32_P_P"][i]), Reads["U32_U32_U32_P_P"][i])
    BY <2>1 DEF Handed
  <2> QED
    BY <2>1, <2>2, KindsPassed
<1>11. Handed("U32_U32_U32_P_U32") = <<"int", "int", "int", "pointer", "int">>
  <2>1. /\ ArgSig["U32_U32_U32_P_U32"] = <<"i", "i", "i", "*", "i">>
        /\ Reads["U32_U32_U32_P_U32"] = <<"u32", "u32", "u32", "native_pointer", "u32">>
    BY DEF ArgSig, Reads
  <2>2. /\ Handed("U32_U32_U32_P_U32") = [i \in 1..5 |-> Handed("U32_U32_U32_P_U32")[i]]
        /\ \A i \in 1..5 : Handed("U32_U32_U32_P_U32")[i] = Passed(Place(ArgSig["U32_U32_U32_P_U32"][i]), Reads["U32_U32_U32_P_U32"][i])
    BY <2>1 DEF Handed
  <2> QED
    BY <2>1, <2>2, KindsPassed
<1> QED
  BY <1>1, <1>2, <1>3, <1>4, <1>5, <1>6, <1>7, <1>8, <1>9, <1>10, <1>11

\* The classes read as many arguments as they declare.
LEMMA AllAreRead ==
  /\ DOMAIN Reads["P"] = DOMAIN ArgSig["P"]
  /\ DOMAIN Reads["S"] = DOMAIN ArgSig["S"]
  /\ DOMAIN Reads["U32_P"] = DOMAIN ArgSig["U32_P"]
  /\ DOMAIN Reads["U32_U32"] = DOMAIN ArgSig["U32_U32"]
  /\ DOMAIN Reads["S_P_P"] = DOMAIN ArgSig["S_P_P"]
  /\ DOMAIN Reads["U32_P_P"] = DOMAIN ArgSig["U32_P_P"]
  /\ DOMAIN Reads["U32_U32_U32_P"] = DOMAIN ArgSig["U32_U32_U32_P"]
  /\ DOMAIN Reads["U32_P_P_U32"] = DOMAIN ArgSig["U32_P_P_U32"]
  /\ DOMAIN Reads["U32_U32_P_P"] = DOMAIN ArgSig["U32_U32_P_P"]
  /\ DOMAIN Reads["U32_U32_U32_P_P"] = DOMAIN ArgSig["U32_U32_U32_P_P"]
  /\ DOMAIN Reads["U32_U32_U32_P_U32"] = DOMAIN ArgSig["U32_U32_U32_P_U32"]
BY DEF Reads, ArgSig

\* The declaration of the handler of an entry is what its class hands on.
Fits(r) == Handed(r[2]) = Params[r[3]] /\ DOMAIN Reads[r[2]] = DOMAIN ArgSig[r[2]]

LEMMA EntriesFit ==
  /\ Fits(<<130, "S", "PthreadSetName">>) /\ Fits(<<1, "S_P_P", "WamrExtSysctl">>)
  /\ Fits(<<200, "U32_P", "FDStatVFS">>) /\ Fits(<<201, "U32_P", "FDFcntl">>)
  /\ Fits(<<300, "U32_U32_U32_P", "SockOpen">>) /\ Fits(<<301, "U32_P", "SockBind">>)
  /\ Fits(<<302, "U32_P", "SockConnect">>) /\ Fits(<<303, "U32_U32", "SockListen">>)
  /\ Fits(<<304, "U32_P_P", "SockAccept">>) /\ Fits(<<305, "U32_P", "SockGetSockName">>)
  /\ Fits(<<306, "U32_P", "SockGetPeerName">>) /\ Fits(<<307, "U32_U32", "SockShutdown">>)
  /\ Fits(<<308, "U32_U32_U32_P_P", "SockGetOpt">>) /\ Fits(<<309, "U32_U32_U32_P_U32", "SockSetOpt">>)
  /\ Fits(<<310, "U32_P_P_U32", "SockRecvMsg">>) /\ Fits(<<311, "U32_P_P_U32", "SockSendMsg">>)
  /\ Fits(<<312, "P", "SockGetIfAddrs">>) /\ Fits(<<400, "P", "ProcessSpawn">>)
  /\ Fits(<<401, "U32_U32_P_P", "ProcessWaitPID">>)
BY ClassesHandOn, AllAreRead DEF Fits, Params

LEMMA RegisteredFit ==
  /\ Len(Registered) \in Nat /\ DOMAIN Registered = 1..Len(Registered)
  /\ \A k \in DOMAIN Registered : Fits(Registered[k])
<1> DEFINE T == {
               <<130, "S", "PthreadSetName">>, <<1, "S_P_P", "WamrExtSysctl">>,
               <<200, "U32_P", "FDStatVFS">>, <<201, "U32_P", "FDFcntl">>,
               <<300, "U32_U32_U32_P", "SockOpen">>, <<301, "U32_P", "SockBind">>,
               <<302, "U32_P", "SockConnect">>, <<303, "U32_U32", "SockListen">>,
               <<304, "U32_P_P", "SockAccept">>, <<305, "U32_P", "SockGetSockName">>,
               <<306, "U32_P", "SockGetPeerName">>, <<307, "U32_U32", "SockShutdown">>,
               <<308, "U32_U32_U32_P_P", "SockGetOpt">>, <<309, "U32_U32_U32_P_U32", "SockSetOpt">>,
               <<310, "U32_P_P_U32", "SockRecvMsg">>, <<311, "U32_P_P_U32", "SockSendMsg">>,
               <<312, "P", "SockGetIfAddrs">>, <<400, "P", "ProcessSpawn">>,
               <<401, "U32_U32_P_P", "ProcessWaitPID">>}
<1>0. \A r \in T : Fits(r)
  BY EntriesFit
<1>1. PthreadInit \in Seq(T)
  BY DEF PthreadInit
<1>2. WamrInit \in Seq(T)
  BY DEF WamrInit
<1>3. FSInit \in Seq(T)
  BY DEF FSInit
<1>4. SocketInit \in Seq(T)
  BY DEF SocketInit
<1>5. ProcessInit \in Seq(T)
  BY DEF ProcessInit
<1> HIDE DEF T
<1>6. Registered \in Seq(T)
  BY <1>1, <1>2, <1>3, <1>4, <1>5 DEF Registered
<1>7. \A k \in DOMAIN Registered : Registered[k] \in T
  BY <1>6
<1> QED
  BY <1>0, <1>6, <1>7

\* Every handler gets what it declares, if the array is as Invoke left it.
LEMMA HandlerCallFits ==
  ASSUME NEW id \in DOMAIN gExtSyscallMap, NEW r, r = HandlerCall(id, InvokedArgs(id))
  PROVE  r.args = Params[r.func]
<1> DEFINE places == {k \in DOMAIN Registered : Registered[k][1] = id}
           last == Max(places)
<1>1. places \in SUBSET (1..Len(Registered)) /\ places # {} /\ Len(Registered) \in Nat
  BY RegisteredFit DEF gExtSyscallMap
<1>2. last \in places
  BY <1>1, MaxIsIn
<1>3. Fits(Registered[last])
  BY <1>2, RegisteredFit
<1>4. gExtSyscallMap[id] = [class |-> Registered[last][2], func |-> Registered[last][3]]
  BY DEF gExtSyscallMap, RegisterExtSyscall
<1> HIDE DEF last
<1> DEFINE class == Registered[last][2]
           argv == InvokedArgs(id)
<1>5. DOMAIN Reads[class] = DOMAIN ArgSig[class]
  BY <1>3 DEF Fits
<1>6. argv = [i \in DOMAIN ArgSig[class] |-> Place(ArgSig[class][i])]
  BY <1>4 DEF InvokedArgs, Place
<1>7. /\ r.args = [i \in DOMAIN Reads[class] |-> Passed(argv[i], Reads[class][i])]
      /\ r.func = Registered[last][3]
  BY <1>4 DEF HandlerCall
<1> HIDE DEF argv, class
<1>8. \A i \in DOMAIN Reads[class] : argv[i] = Place(ArgSig[class][i])
  BY <1>5, <1>6
<1>9. r.args = Handed(class)
  BY <1>7, <1>8 DEF Handed
<1> QED
  BY <1>3, <1>7, <1>9 DEF Fits, class

-----------------------------------------------------------------------------
(* poll_oneoff: the clock that is kept.                                      *)

LEMMA TimeoutInRange ==
  ASSUME NEW fds, NEW sub \in Subscriptions(fds), IsClock(sub), NEW now \in 0..Forever
  PROVE  TimeoutOf(sub, now) \in 0..Forever
<1>1. sub.timeout \in 0..Forever /\ sub.abs \in BOOLEAN
  BY DEF Subscriptions, IsClock
<1> QED
  BY <1>1, TimeAssumption DEF TimeoutOf

\* The loop over the clocks keeps the first of those that come first.
LEMMA TimeoutIsLeast ==
  ASSUME NEW fds, NEW subs \in Seq(Subscriptions(fds)), NEW now \in 0..Forever,
         NEW best, best = Timeout(subs, now)
  PROVE  /\ best.timeout \in 0..Forever
         /\ \A i \in DOMAIN subs : IsClock(subs[i]) => best.timeout <= TimeoutOf(subs[i], now)
         /\ best.sub = 0 => best.timeout = Forever /\ \A i \in DOMAIN subs : IsClock(subs[i]) => TimeoutOf(subs[i], now) = Forever
         /\ best.sub # 0 => /\ best.sub \in DOMAIN subs /\ IsClock(subs[best.sub])
                            /\ best.timeout = TimeoutOf(subs[best.sub], now) /\ best.timeout < Forever
<1> DEFINE due(i) == TimeoutOf(subs[i], now)
           timed == {i \in DOMAIN subs : IsClock(subs[i]) /\ due(i) < Forever}
           kept == CHOOSE i \in timed : \A j \in timed : Keeps(subs, now, i, j)
<1>1. Forever \in Nat
  BY TimeAssumption
<1>2. \A i \in DOMAIN subs : IsClock(subs[i]) => due(i) \in 0..Forever
  BY TimeoutInRange
<1>3. best = IF timed = {} THEN [timeout |-> Forever, sub |-> 0] ELSE [timeout |-> due(kept), sub |-> kept]
  BY DEF Timeout
<1>4. timed \in SUBSET Nat /\ 0 \notin timed
  OBVIOUS
<1>5. CASE timed = {}
  <2>1. best.timeout = Forever /\ best.sub = 0
    BY <1>3, <1>5
  <2>2. \A i \in DOMAIN subs : IsClock(subs[i]) => due(i) = Forever
    BY <1>1, <1>2, <1>5
  <2> QED
    BY <1>1, <2>1, <2>2
<1>6. CASE timed # {}
  <2>1. \E i \in timed : \A j \in timed : Keeps(subs, now, i, j)
    <3> DEFINE times == {due(i) : i \in timed}
    <3>1. times \in SUBSET Nat /\ times # {}
      BY <1>2, <1>6
    <3>2. PICK m \in times : \A y \in times : m <= y
      BY <3>1, LeastExists
    <3> DEFINE first == {i \in timed : due(i) = m}
    <3>3. first \in SUBSET Nat /\ first # {}
      BY <1>4, <3>2
    <3>4. PICK i \in first : \A j \in first : i <= j
      BY <3>3, LeastExists
    <3>5. ASSUME NEW j \in timed
          PROVE  Keeps(subs, now, i, j)
      <4>1. m <= due(j) /\ due(i) = m /\ m \in Nat /\ due(j) \in Nat
        BY <1>2, <3>1, <3>2
      <4>2. due(j) = m => i <= j
        BY <3>4
      <4> QED
        BY <4>1, <4>2 DEF Keeps
    <3> QED
      BY <3>4, <3>5
  <2>2. kept \in timed /\ \A j \in timed : Keeps(subs, now, kept, j)
    BY <2>1
  <2> HIDE DEF kept
  <2>3. best.timeout = due(kept) /\ best.sub = kept
    BY <1>3, <1>6
  <2>4. kept \in DOMAIN subs /\ IsClock(subs[kept]) /\ due(kept) < Forever /\ due(kept) \in Nat /\ kept # 0
    BY <1>1, <1>2, <1>4, <2>2
  <2>5. ASSUME NEW i \in DOMAIN subs, IsClock(subs[i])
        PROVE  due(kept) <= due(i)
    <3>1. due(i) \in 0..Forever
      BY <1>2, <2>5
    <3>2. CASE i \in timed
      <4>1. Keeps(subs, now, kept, i)
        BY <2>2, <3>2
      <4> QED
        BY <2>4, <3>1, <4>1 DEF Keeps
    <3> QED
      BY <1>1, <2>4, <2>5, <3>1, <3>2
  <2> QED
    BY <1>1, <2>3, <2>4, <2>5
<1> QED
  BY <1>5, <1>6

LEMMA Division ==
  ASSUME NEW x \in Nat, NEW d \in Nat \ {0}
  PROVE  /\ x \div d \in Nat
         /\ (x \div d) * d <= x /\ x < (x \div d) * d + d
OBVIOUS

LEMMA ProductsGrow ==
  ASSUME NEW a \in Nat, NEW b \in Nat, NEW d \in Nat, a < b
  PROVE  a * d \in Nat /\ b * d \in Nat /\ (a + 1) * d = a * d + d /\ (a + 1) * d <= b * d
OBVIOUS

\* poll() is told to wait for whole milliseconds, as many as it can.
LEMMA PollWaits ==
  ASSUME NEW due \in 0..Forever, NEW slept, slept = PollTimeout(due) * NsPerMs
  PROVE  /\ due - slept < NsPerMs \/ due >= (MaxPoll + 1) * NsPerMs
         /\ due = Forever => slept = MaxPoll * NsPerMs
<1> DEFINE ms == due \div NsPerMs
<1>1. /\ NsPerMs \in Nat \ {0} /\ MaxPoll \in Nat /\ Forever \in Nat /\ due \in Nat
      /\ MaxPoll * NsPerMs < Forever
  BY TimeAssumption
<1>2. ms \in Nat /\ ms * NsPerMs <= due /\ due < ms * NsPerMs + NsPerMs
  BY <1>1, Division
<1>3. slept = (IF ms < MaxPoll THEN ms ELSE MaxPoll) * NsPerMs
  BY DEF PollTimeout, Milliseconds
<1> HIDE DEF ms
<1>4. CASE ms < MaxPoll
  <2>1. ms * NsPerMs \in Nat /\ MaxPoll * NsPerMs \in Nat /\ (ms + 1) * NsPerMs = ms * NsPerMs + NsPerMs
        /\ (ms + 1) * NsPerMs <= MaxPoll * NsPerMs
    BY <1>1, <1>2, <1>4, ProductsGrow
  <2>2. slept = ms * NsPerMs
    BY <1>3, <1>4
  <2> QED
    BY <1>1, <1>2, <2>1, <2>2
<1>5. CASE ms = MaxPoll
  BY <1>1, <1>2, <1>3, <1>5
<1>6. CASE MaxPoll < ms
  <2>1. (MaxPoll + 1) * NsPerMs <= ms * NsPerMs /\ ms * NsPerMs \in Nat /\ (MaxPoll + 1) * NsPerMs \in Nat
    <3>1. (MaxPoll + 1) * NsPerMs <= ms * NsPerMs /\ ms * NsPerMs \in Nat /\ MaxPoll * NsPerMs \in Nat
          /\ (MaxPoll + 1) * NsPerMs = MaxPoll * NsPerMs + NsPerMs
      BY <1>1, <1>2, <1>6, ProductsGrow
    <3> QED
      BY <1>1, <3>1
  <2>2. slept = MaxPoll * NsPerMs
    BY <1>1, <1>2, <1>3, <1>6
  <2> QED
    BY <1>1, <1>2, <2>1, <2>2
<1> QED
  BY <1>1, <1>2, <1>4, <1>5, <1>6

-----------------------------------------------------------------------------
(* poll_oneoff: the events.                                                  *)

\* What poll() may have said of the descriptors arr.
Said(subs, arr, revents) ==
    \A i \in DOMAIN subs :
        /\ IsClock(subs[i]) => arr[i] = INVALID_SOCKET
        /\ revents[i] \subseteq {"POLLRDNORM", "POLLWRNORM", "POLLHUP", "POLLERR", "POLLNVAL"}
        /\ "POLLNVAL" \in revents[i] => revents[i] = {"POLLNVAL"}
        /\ arr[i] = INVALID_SOCKET => revents[i] = {}

\* An event is that of its subscription.
LEMMA EventOfSubscription ==
  ASSUME NEW subs, NEW i, NEW fd, NEW revents, EventOf(subs, i, fd, revents) # <<>>
  PROVE  LET e == EventOf(subs, i, fd, revents)[1] IN
         /\ e.userdata = i /\ e.type = subs[i].type /\ ~IsClock(subs[i])
         /\ e.error = "EBADF" <=> CannotPoll(subs, i, fd, revents)
         /\ "POLLHUP" \in revents /\ ~CannotPoll(subs, i, fd, revents) => e.hangup
BY DEF EventOf, HangupEvent, Event, CannotPoll

\* Each subscription with an event has it once in the list, in their order.
LEMMA ReadyEventsOnce ==
  ASSUME NEW subs, Len(subs) \in Nat, DOMAIN subs = 1..Len(subs), NEW arr, NEW revents,
         NEW ev, ev = ReadyEvents(subs, arr, revents)
  PROVE  /\ \A k \in DOMAIN ev : /\ ev[k].userdata \in DOMAIN subs
                                 /\ LET i == ev[k].userdata
                                        e == EventOf(subs, i, arr[i], revents[i])
                                    IN e # <<>> /\ ev[k] = e[1]
         /\ \A j, k \in DOMAIN ev : j < k => ev[j].userdata < ev[k].userdata
         /\ \A i \in DOMAIN subs : EventOf(subs, i, arr[i], revents[i]) # <<>> =>
               \E k \in DOMAIN ev : ev[k].userdata = i
<1> DEFINE event(i) == EventOf(subs, i, arr[i], revents[i])
           S == {i \in DOMAIN subs : event(i) # <<>>}
           answered == Ascending(S)
<1>1. ev = [k \in DOMAIN answered |-> event(answered[k])[1]]
  BY DEF ReadyEvents
<1>2. \A i \in S : event(i)[1].userdata = i
  BY EventOfSubscription
<1>3. S \in SUBSET (1..Len(subs))
  OBVIOUS
<1>4. \A i : i \in S <=> i \in DOMAIN subs /\ event(i) # <<>>
  OBVIOUS
<1> HIDE DEF S
<1>5. /\ \A k \in DOMAIN answered : answered[k] \in S
      /\ \A x \in S : \E k \in DOMAIN answered : answered[k] = x
      /\ \A j, k \in DOMAIN answered : j < k => answered[j] < answered[k]
  <2>1. answered = Ascending(S)
    OBVIOUS
  <2> HIDE DEF answered
  <2>2. OnceEach(answered, S) /\ \A j, k \in DOMAIN answered : j < k => answered[j] < answered[k]
    BY <1>3, <2>1, AscendingLists, Zenon
  <2> QED
    BY <2>2 DEF OnceEach
<1> HIDE DEF answered
<1>6. DOMAIN ev = DOMAIN answered
  BY <1>1
<1>7. \A k \in DOMAIN ev : ev[k] = event(answered[k])[1]
  BY <1>1
<1>8. \A k \in DOMAIN ev : ev[k].userdata = answered[k]
  BY <1>2, <1>5, <1>6, <1>7
<1> QED
  BY <1>4, <1>5, <1>6, <1>7, <1>8

\* What a call of the guest's with subscriptions subs is told.
AnswersFit(subs, v) ==
    LET ev == v.events
        told(i) == \E k \in DOMAIN ev : ev[k].userdata = i
        found == "revents" \in DOMAIN v /\ \E i \in DOMAIN subs : v.revents[i] # {}
    IN /\ \A i, j \in DOMAIN ev : i < j => ev[i].userdata < ev[j].userdata
       /\ \A i \in DOMAIN ev : ev[i].userdata \in DOMAIN subs /\ ev[i].type = subs[ev[i].userdata].type
       /\ found => \A i \in DOMAIN subs :
             told(i) = (~IsClock(subs[i]) /\ (v.arr[i] = INVALID_SOCKET \/ v.revents[i] \cap Told # {}))
       /\ ~found => /\ \A i \in DOMAIN subs : told(i) => IsClock(subs[i])
                    /\ (\E i \in DOMAIN subs : IsClock(subs[i]) /\ TimeoutOf(subs[i], v.now) < Forever) => ev # <<>>

BadOnesTold(subs, v) ==
    "revents" \in DOMAIN v =>
        LET answers(i) == {v.events[k] : k \in {n \in DOMAIN v.events : v.events[n].userdata = i}}
            missing(i) == ~IsClock(subs[i]) /\ v.arr[i] = INVALID_SOCKET /\ \E j \in DOMAIN subs : v.revents[j] # {}
        IN \A i \in DOMAIN subs :
            /\ (missing(i) \/ "POLLNVAL" \in v.revents[i]) = (\E e \in answers(i) : e.error = "EBADF")
            /\ "POLLHUP" \in v.revents[i] => \E e \in answers(i) : e.hangup

ClocksInTime(subs, v) ==
    \A i \in DOMAIN v.events :
        LET due(k) == TimeoutOf(subs[k], v.now)
            k == v.events[i].userdata
        IN IsClock(subs[k]) =>
           /\ \/ due(k) - v.slept < NsPerMs
              \/ IF "revents" \in DOMAIN v THEN due(k) >= (MaxPoll + 1) * NsPerMs ELSE due(k) > MaxSleep
           /\ \A other \in DOMAIN subs : IsClock(subs[other]) => due(k) <= due(other)

\* poll() has found something.
LEMMA ReadyAnswers ==
  ASSUME NEW subs, Len(subs) \in Nat, DOMAIN subs = 1..Len(subs), NEW arr, NEW revents, Said(subs, arr, revents),
         \E i \in DOMAIN subs : revents[i] # {}, NEW now,
         NEW v, v = [events |-> ReadyEvents(subs, arr, revents), arr |-> arr, revents |-> revents, slept |-> 0, now |-> now]
  PROVE  AnswersFit(subs, v) /\ BadOnesTold(subs, v) /\ ClocksInTime(subs, v)
<1> DEFINE ev == ReadyEvents(subs, arr, revents)
           event(i) == EventOf(subs, i, arr[i], revents[i])
<1>1. v.events = ev /\ v.arr = arr /\ v.revents = revents
  OBVIOUS
<1>2. /\ \A k \in DOMAIN ev : ev[k].userdata \in DOMAIN subs
                              /\ event(ev[k].userdata) # <<>> /\ ev[k] = event(ev[k].userdata)[1]
      /\ \A j, k \in DOMAIN ev : j < k => ev[j].userdata < ev[k].userdata
      /\ \A i \in DOMAIN subs : event(i) # <<>> => \E k \in DOMAIN ev : ev[k].userdata = i
  <2>1. ev = ReadyEvents(subs, arr, revents)
    OBVIOUS
  <2> HIDE DEF ev
  <2> QED
    BY <2>1, ReadyEventsOnce
<1> HIDE DEF ev
<1> DEFINE bad(i) == CannotPoll(subs, i, arr[i], revents[i])
<1>3. \A i \in DOMAIN subs : event(i) # <<>> =>
        /\ event(i)[1].type = subs[i].type /\ ~IsClock(subs[i])
        /\ event(i)[1].error = "EBADF" <=> bad(i)
        /\ "POLLHUP" \in revents[i] /\ ~bad(i) => event(i)[1].hangup
  BY EventOfSubscription
<1>4. \A i \in DOMAIN subs : bad(i) \/ (~IsClock(subs[i]) /\ "POLLHUP" \in revents[i]) => event(i) # <<>>
  BY DEF EventOf, HangupEvent, CannotPoll
<1>5. \A i \in DOMAIN subs : event(i) # <<>> <=> ~IsClock(subs[i]) /\ (arr[i] = INVALID_SOCKET \/ revents[i] \cap Told # {})
  <2> TAKE i \in DOMAIN subs
  <2>1. revents[i] \cap Told # {} <=>
          \/ "POLLNVAL" \in revents[i] \/ "POLLHUP" \in revents[i]
          \/ revents[i] \cap {"POLLRDNORM", "POLLWRNORM"} # {}
    BY DEF Told
  <2> QED
    BY <2>1 DEF EventOf, HangupEvent, CannotPoll
<1> HIDE DEF event
<1>6. AnswersFit(subs, v)
  <2>1. \A i \in DOMAIN subs : (\E k \in DOMAIN ev : ev[k].userdata = i) <=> event(i) # <<>>
    BY <1>2
  <2>2. \A k \in DOMAIN ev : ev[k].type = subs[ev[k].userdata].type
    BY <1>2, <1>3
  <2>3. "revents" \in DOMAIN v /\ \E i \in DOMAIN subs : v.revents[i] # {}
    OBVIOUS
  <2>4. \A i \in DOMAIN subs : (\E k \in DOMAIN v.events : v.events[k].userdata = i) <=>
          ~IsClock(subs[i]) /\ (v.arr[i] = INVALID_SOCKET \/ v.revents[i] \cap Told # {})
    BY <1>1, <1>5, <2>1
  <2>5. /\ \A i, j \in DOMAIN v.events : i < j => v.events[i].userdata < v.events[j].userdata
        /\ \A i \in DOMAIN v.events : v.events[i].userdata \in DOMAIN subs
                                     /\ v.events[i].type = subs[v.events[i].userdata].type
    BY <1>1, <1>2, <2>2
  <2> QED
    BY <2>3, <2>4, <2>5, Zenon DEF AnswersFit
<1>7. BadOnesTold(subs, v)
  <2> DEFINE answers(i) == {v.events[k] : k \in {n \in DOMAIN v.events : v.events[n].userdata = i}}
             missing(i) == ~IsClock(subs[i]) /\ v.arr[i] = INVALID_SOCKET /\ \E j \in DOMAIN subs : v.revents[j] # {}
  <2>1. \A i \in DOMAIN subs : (missing(i) \/ "POLLNVAL" \in v.revents[i]) <=> bad(i)
    BY <1>1 DEF CannotPoll, Said
  <2>2. \A i \in DOMAIN subs : \A e \in answers(i) : event(i) # <<>> /\ e = event(i)[1]
    BY <1>1, <1>2
  <2>3. \A i \in DOMAIN subs : event(i) # <<>> => event(i)[1] \in answers(i)
    BY <1>1, <1>2
  <2>4. \A i \in DOMAIN subs : "POLLHUP" \in revents[i] => ~bad(i) /\ ~IsClock(subs[i])
    BY DEF CannotPoll, Said
  <2> HIDE DEF answers, missing, bad
  <2>5. ASSUME NEW i \in DOMAIN subs
        PROVE  /\ (missing(i) \/ "POLLNVAL" \in v.revents[i]) <=> (\E e \in answers(i) : e.error = "EBADF")
               /\ "POLLHUP" \in v.revents[i] => \E e \in answers(i) : e.hangup
    <3>1. bad(i) <=> (\E e \in answers(i) : e.error = "EBADF")
      BY <1>3, <1>4, <2>2, <2>3
    <3>2. "POLLHUP" \in revents[i] => \E e \in answers(i) : e.hangup
      BY <1>3, <1>4, <2>3, <2>4
    <3> QED
      BY <1>1, <2>1, <3>1, <3>2
  <2> QED
    BY <2>5 DEF BadOnesTold, answers, missing
<1>8. ClocksInTime(subs, v)
  <2>1. \A k \in DOMAIN ev : ~IsClock(subs[ev[k].userdata])
    BY <1>2, <1>3
  <2> QED
    BY <1>1, <2>1 DEF ClocksInTime
<1> QED
  BY <1>6, <1>7, <1>8

\* The time of the clock that was kept has come, or there is none.
LEMMA ClockAnswers ==
  ASSUME NEW fds, NEW subs \in Seq(Subscriptions(fds)), NEW now \in 0..Forever, NEW best, best = Timeout(subs, now),
         NEW v, v.events = ClockEvent(subs, best.sub), v.now = now,
         \/ /\ v.slept = PollTimeout(best.timeout) * NsPerMs /\ "revents" \in DOMAIN v
            /\ \A i \in DOMAIN subs : v.revents[i] = {}
         \/ v.slept = SleepTime(best.timeout) /\ "revents" \notin DOMAIN v /\ best.sub # 0
  PROVE  AnswersFit(subs, v) /\ BadOnesTold(subs, v) /\ ClocksInTime(subs, v)
<1>1. /\ best.timeout \in 0..Forever
      /\ \A i \in DOMAIN subs : IsClock(subs[i]) => best.timeout <= TimeoutOf(subs[i], now)
      /\ best.sub = 0 => best.timeout = Forever /\ \A i \in DOMAIN subs : IsClock(subs[i]) => TimeoutOf(subs[i], now) = Forever
      /\ best.sub # 0 => /\ best.sub \in DOMAIN subs /\ IsClock(subs[best.sub])
                         /\ best.timeout = TimeoutOf(subs[best.sub], now) /\ best.timeout < Forever
  BY TimeoutIsLeast
<1>2. /\ best.sub = 0 => v.events = <<>> /\ DOMAIN v.events = {}
      /\ best.sub # 0 => /\ DOMAIN v.events = {1} /\ v.events # <<>> /\ v.events[1].userdata = best.sub
                         /\ v.events[1].type = subs[best.sub].type /\ v.events[1].error = "0"
  BY DEF ClockEvent, Event
<1>3. AnswersFit(subs, v)
  <2>1. ~("revents" \in DOMAIN v /\ \E i \in DOMAIN subs : v.revents[i] # {})
    OBVIOUS
  <2>2. (\E i \in DOMAIN subs : IsClock(subs[i]) /\ TimeoutOf(subs[i], now) < Forever) => best.sub # 0
    BY <1>1, TimeAssumption
  <2>3. \A i, j \in DOMAIN v.events : ~ i < j
    BY <1>2
  <2>4. \A i \in DOMAIN v.events : v.events[i].userdata \in DOMAIN subs /\ IsClock(subs[v.events[i].userdata])
                                   /\ v.events[i].type = subs[v.events[i].userdata].type
    BY <1>1, <1>2
  <2>5. (\E i \in DOMAIN subs : IsClock(subs[i]) /\ TimeoutOf(subs[i], v.now) < Forever) => v.events # <<>>
    BY <1>2, <2>2
  <2> DEFINE told(i) == \E k \in DOMAIN v.events : v.events[k].userdata = i
  <2>6. \A i \in DOMAIN subs : told(i) => IsClock(subs[i])
    BY <2>4
  <2> HIDE DEF told
  <2> QED
    BY <2>1, <2>3, <2>4, <2>5, <2>6 DEF AnswersFit, told
<1>4. BadOnesTold(subs, v)
  <2>1. \A k \in DOMAIN v.events : v.events[k].error # "EBADF"
    BY <1>2
  <2> QED
    BY <2>1 DEF BadOnesTold
<1>5. ClocksInTime(subs, v)
  <2>1. CASE best.sub = 0
    BY <1>2, <2>1 DEF ClocksInTime
  <2>2. CASE best.sub # 0
    <3> DEFINE due == TimeoutOf(subs[best.sub], now)
    <3>1. \/ due - v.slept < NsPerMs
          \/ IF "revents" \in DOMAIN v THEN due >= (MaxPoll + 1) * NsPerMs ELSE due > MaxSleep
      <4>1. CASE "revents" \in DOMAIN v
        BY <1>1, <2>2, <4>1, PollWaits
      <4>2. CASE "revents" \notin DOMAIN v
        BY <1>1, <2>2, <4>2, TimeAssumption DEF SleepTime
      <4> QED
        BY <4>1, <4>2
    <3>2. \A i \in DOMAIN v.events : v.events[i].userdata = best.sub
      BY <1>2, <2>2
    <3>3. \A other \in DOMAIN subs : IsClock(subs[other]) => due <= TimeoutOf(subs[other], now)
      BY <1>1, <2>2
    <3> QED
      BY <3>1, <3>2, <3>3 DEF ClocksInTime
  <2> QED
    BY <2>1, <2>2
<1> QED
  BY <1>3, <1>4, <1>5

-----------------------------------------------------------------------------
(* The interfaces of the host.                                               *)

\* As many in S as in T, if f tells one from another.
LEMMA OneToOne ==
  ASSUME NEW S, IsFiniteSet(S), NEW T, NEW f, f = [x \in S |-> f[x]],
         \A x \in S : f[x] \in T,
         \A x, y \in S : f[x] = f[y] => x = y,
         \A z \in T : \E x \in S : f[x] = z
  PROVE  IsFiniteSet(T) /\ Cardinality(T) = Cardinality(S)
<1>1. f \in [S -> T]
  OBVIOUS
<1>2. f \in Bijection(S, T)
  BY <1>1 DEF Bijection, Injection, Surjection, IsInjective
<1>3. ExistsBijection(S, T)
  BY <1>2 DEF ExistsBijection
<1> QED
  BY <1>3, FS_Bijection

\* What getifaddrs() gives, see ValidInterfaces.
IfList(list) ==
    /\ Len(list) \in Nat /\ DOMAIN list = 1..Len(list)
    /\ \A i \in DOMAIN list : list[i].name \in Nat

\* The last entry of an interface.
LastOf(list, i) == \A j \in EntriesOf(list, list[i].name) : j <= i

LEMMA LastExists ==
  ASSUME NEW list, IfList(list), NEW i \in DOMAIN list
  PROVE  \E l \in DOMAIN list : list[l].name = list[i].name /\ LastOf(list, l)
<1> DEFINE E == EntriesOf(list, list[i].name)
<1>1. E \in SUBSET (1..Len(list)) /\ E # {} /\ Len(list) \in Nat
  BY DEF EntriesOf, IfList
<1>2. Max(E) \in E /\ \A y \in E : y <= Max(E)
  <2> HIDE DEF E
  <2> QED
    BY <1>1, MaxIsIn
<1> QED
  BY <1>2 DEF EntriesOf, LastOf

LEMMA FiniteIndices ==
  ASSUME NEW list, IfList(list), NEW S \in SUBSET (DOMAIN list)
  PROVE  IsFiniteSet(S)
<1>1. IsFiniteSet(1..Len(list))
  BY FS_Interval DEF IfList
<1> QED
  BY <1>1, FS_Subset DEF IfList

\* The buffer is made for the number of entries that are then written.
LEMMA IfAddrsCounted ==
  ASSUME NEW list, IfList(list)
  PROVE  Cardinality(IfInfos(list)) = IfAddrCount(list)
<1> DEFINE inet == {i \in DOMAIN list : IsInet(list[i])}
           bare == {i \in DOMAIN list : WithoutAddr(list, list[i].name) /\ LastOf(list, i)}
           names == {name \in {list[i].name : i \in DOMAIN list} : WithoutAddr(list, name)}
           nameOf == [i \in bare |-> list[i].name]
<1>1. IfInfos(list) = inet \cup bare
  BY DEF IfInfos, LastOf
<1>2. inet \cap bare = {}
  BY DEF WithoutAddr, EntriesOf
<1>3. IsFiniteSet(inet) /\ IsFiniteSet(bare)
  BY FiniteIndices
<1>4. Cardinality(names) = Cardinality(bare)
  <2>1. \A i \in bare : nameOf[i] = list[i].name /\ nameOf[i] \in names
    OBVIOUS
  <2>2. ASSUME NEW i \in bare, NEW j \in bare, nameOf[i] = nameOf[j]
        PROVE  i = j
    <3>1. i \in EntriesOf(list, list[j].name) /\ j \in EntriesOf(list, list[i].name) /\ i \in Nat /\ j \in Nat
      BY <2>1, <2>2 DEF EntriesOf, IfList
    <3> QED
      BY <3>1 DEF LastOf
  <2>3. ASSUME NEW name \in names
        PROVE  \E i \in bare : nameOf[i] = name
    <3>1. PICK i \in DOMAIN list : list[i].name = name
      OBVIOUS
    <3>2. PICK l \in DOMAIN list : list[l].name = list[i].name /\ LastOf(list, l)
      BY LastExists
    <3> QED
      BY <3>1, <3>2
  <2>4. nameOf = [i \in bare |-> nameOf[i]]
    OBVIOUS
  <2> HIDE DEF nameOf, bare, names
  <2> QED
    BY <1>3, <2>1, <2>2, <2>3, <2>4, OneToOne
<1>5. Cardinality(inet) \in Nat /\ Cardinality(bare) \in Nat
  BY <1>3, FS_CardinalityType
<1>6. Cardinality(inet \cup bare) = Cardinality(inet) + Cardinality(bare)
  <2> HIDE DEF inet, bare
  <2>1. Cardinality(inet \cup bare) = Cardinality(inet) + Cardinality(bare) - Cardinality(inet \cap bare)
    BY <1>3, FS_Union
  <2>2. Cardinality(inet \cap bare) = 0
    BY <1>2, FS_EmptySet
  <2> QED
    BY <1>5, <2>1, <2>2
<1> QED
  BY <1>1, <1>4, <1>6 DEF IfAddrCount

\* The entries for the guest are those of tempIfMap, each once.
LEMMA AppIfAddrsOnce ==
  ASSUME NEW list, IfList(list), NEW out, out = AppIfAddrs(list)
  PROVE  \E order : /\ OnceEach(order, IfInfos(list))
                    /\ DOMAIN out = DOMAIN order /\ Len(out) = Cardinality(IfInfos(list))
                    /\ \A k \in DOMAIN out : out[k] = AppIfAddr(list, order[k])
<1> DEFINE S == IfInfos(list)
           before == {p \in S \X S : IfBefore(list, p[1], p[2])}
           order == Arranged(S, before)
<1>1. \A x, y \in S : <<x, y>> \in before <=> IfBefore(list, x, y)
  OBVIOUS
<1>2. \A x \in S : x \in DOMAIN list /\ x \in Nat /\ list[x].name \in Nat
  BY DEF IfInfos, IfList
<1>3. out = [k \in DOMAIN order |-> AppIfAddr(list, order[k])]
  BY DEF AppIfAddrs
<1>4. IsFiniteSet(S)
  BY FiniteIndices DEF IfInfos
<1> HIDE DEF before, S
<1>5. IsOrder(S, before)
  BY <1>1, <1>2 DEF IsOrder, IfBefore
<1>6. order = Arranged(S, before)
  OBVIOUS
<1> HIDE DEF order
<1>7. OnceEach(order, S)
  BY <1>4, <1>5, <1>6, ArrangedLists, Zenon
<1>8. DOMAIN out = DOMAIN order /\ \A k \in DOMAIN out : out[k] = AppIfAddr(list, order[k])
  BY <1>3
<1>9. Len(out) = Cardinality(S)
  <2> DEFINE T == {AppIfAddr(list, order[k]) : k \in DOMAIN order}
  <2>1. DOMAIN order = 1..Cardinality(S) /\ Cardinality(S) \in Nat
    BY <1>7 DEF OnceEach
  <2>2. out \in [1..Cardinality(S) -> T]
    BY <1>3, <2>1
  <2>3. out \in Seq(T)
    BY <2>1, <2>2
  <2> HIDE DEF T
  <2> QED
    BY <1>8, <2>1, <2>3
<1> QED
  BY <1>7, <1>8, <1>9 DEF S

\* What the guest is told of the interfaces.
IfAddrsFit(list, v) ==
    /\ Len(v.ifaddrs) = v.cnt
    /\ \A i \in DOMAIN list : IsInet(list[i]) =>
          Cardinality({k \in DOMAIN v.ifaddrs : v.ifaddrs[k].name = list[i].name /\ v.ifaddrs[k].addr = list[i].addr})
          = Cardinality({j \in DOMAIN list : IsInet(list[j]) /\ list[j].name = list[i].name
                                             /\ list[j].addr = list[i].addr})
    /\ \A i \in DOMAIN list : \E k \in DOMAIN v.ifaddrs : v.ifaddrs[k].name = list[i].name
    /\ \A i \in DOMAIN list, k \in DOMAIN v.ifaddrs :
          list[i].family = "AF_PACKET" /\ v.ifaddrs[k].name = list[i].name =>
             v.ifaddrs[k].hw = [mac |-> list[i].mac, index |-> list[i].index]

LEMMA InterfacesFit ==
  ASSUME NEW list, IfList(list),
         \A i, j \in DOMAIN list :
            list[i].family = "AF_PACKET" /\ list[j].family = "AF_PACKET" /\ list[i].name = list[j].name => i = j,
         NEW v, v.ifaddrs = AppIfAddrs(list), v.cnt = IfAddrCount(list)
  PROVE  IfAddrsFit(list, v)
<1> DEFINE out == v.ifaddrs
           S == IfInfos(list)
<1>1. PICK order : /\ OnceEach(order, S)
                   /\ DOMAIN out = DOMAIN order /\ Len(out) = Cardinality(S)
                   /\ \A k \in DOMAIN out : out[k] = AppIfAddr(list, order[k])
  BY AppIfAddrsOnce
<1>2. Len(out) = v.cnt
  BY <1>1, IfAddrsCounted
<1>3. \A k \in DOMAIN out : /\ order[k] \in S /\ order[k] \in DOMAIN list
                            /\ out[k].name = list[order[k]].name
                            /\ out[k].addr = (IF IsInet(list[order[k]]) THEN list[order[k]].addr ELSE "UNSPEC")
                            /\ out[k].hw = HardwareOf(list, order[k])
  <2>1. \A k \in DOMAIN out : order[k] \in S
    BY <1>1 DEF OnceEach
  <2> QED
    BY <1>1, <2>1 DEF AppIfAddr, IfInfos
<1>4. \A x \in S : \E k \in DOMAIN out : order[k] = x
  BY <1>1 DEF OnceEach
<1>5. \A j, k \in DOMAIN out : order[j] = order[k] => j = k
  BY <1>1 DEF OnceEach
<1>6. \A i \in DOMAIN list : IsInet(list[i]) => i \in S
  BY DEF IfInfos
<1>7. \A i \in DOMAIN list, x \in S : IsInet(list[i]) /\ list[x].name = list[i].name => IsInet(list[x])
  BY DEF IfInfos, WithoutAddr, EntriesOf
<1>8. IsFiniteSet(DOMAIN out)
  BY <1>1, FS_Interval DEF OnceEach
<1>9. ASSUME NEW i \in DOMAIN list
      PROVE  \E x \in S : list[x].name = list[i].name
  <2>1. CASE WithoutAddr(list, list[i].name)
    BY <2>1, LastExists DEF IfInfos, LastOf
  <2>2. CASE ~WithoutAddr(list, list[i].name)
    BY <1>6, <2>2 DEF WithoutAddr, EntriesOf
  <2> QED
    BY <2>1, <2>2
<1> HIDE DEF S, out
<1>10. ASSUME NEW i \in DOMAIN list, IsInet(list[i])
       PROVE  Cardinality({k \in DOMAIN out : out[k].name = list[i].name /\ out[k].addr = list[i].addr})
              = Cardinality({j \in DOMAIN list : IsInet(list[j]) /\ list[j].name = list[i].name
                                                 /\ list[j].addr = list[i].addr})
  <2> DEFINE K == {k \in DOMAIN out : out[k].name = list[i].name /\ out[k].addr = list[i].addr}
             J == {j \in DOMAIN list : IsInet(list[j]) /\ list[j].name = list[i].name /\ list[j].addr = list[i].addr}
             f == [k \in K |-> order[k]]
  <2>1. IsFiniteSet(K)
    BY <1>8, FS_Subset
  <2>2. \A k \in K : f[k] = order[k] /\ f[k] \in J
    BY <1>3, <1>7, <1>10
  <2>3. \A x, y \in K : f[x] = f[y] => x = y
    BY <1>5
  <2>4. \A j \in J : \E k \in K : f[k] = j
    BY <1>3, <1>4, <1>6
  <2>5. f = [k \in K |-> f[k]]
    OBVIOUS
  <2> HIDE DEF f, K, J
  <2>6. Cardinality(J) = Cardinality(K)
    BY <2>1, <2>2, <2>3, <2>4, <2>5, OneToOne
  <2> QED
    BY <2>6 DEF K, J
<1>11. ASSUME NEW i \in DOMAIN list, NEW k \in DOMAIN out, list[i].family = "AF_PACKET", out[k].name = list[i].name
       PROVE  out[k].hw = [mac |-> list[i].mac, index |-> list[i].index]
  <2> DEFINE packets == {j \in EntriesOf(list, list[i].name) : list[j].family = "AF_PACKET" /\ j < Len(list) + 1}
  <2>1. packets = {i}
    BY <1>11 DEF EntriesOf, IfList
  <2>2. {i} \in SUBSET (1..Len(list)) /\ Len(list) \in Nat
    BY DEF IfList
  <2>3. Max(packets) = i
    <3>1. Max({i}) \in {i}
      BY <2>2, MaxIsIn
    <3> QED
      BY <2>1, <3>1
  <2>4. HardwareOf(list, order[k]) = IfHardware(list, list[i].name, Len(list) + 1)
    BY <1>3, <1>11 DEF HardwareOf
  <2> QED
    BY <1>3, <2>1, <2>3, <2>4 DEF IfHardware
<1>12. \A i \in DOMAIN list : \E k \in DOMAIN out : out[k].name = list[i].name
  BY <1>3, <1>4, <1>9
<1> QED
  BY <1>2, <1>10, <1>11, <1>12 DEF IfAddrsFit, out

-----------------------------------------------------------------------------
(* The child of ProcessSpawn.                                                *)

\* Sources beyond 0, 1 and 2 reach their destinations as they were.
LEMMA ChildGets ==
  ASSUME NEW c0, StdFDs \subseteq DOMAIN c0, \A h \in DOMAIN c0 : c0[h] = h,
         NEW arr, \A fd \in StdFDs : arr[fd] = -1 \/ arr[fd] \in DOMAIN c0 \ StdFDs
  PROVE  \A fd \in StdFDs : arr[fd] # -1 => ChildStd(c0, arr)[fd] = arr[fd]
<1> DEFINE H == DOMAIN c0
           c1 == AfterDup2(c0, arr[0], 0)
           c2 == AfterDup2(c1, arr[1], 1)
           c3 == AfterDup2(c2, arr[2], 2)
<1>1. StdFDs = {0, 1, 2}
  BY DEF StdFDs
<1>2. DOMAIN c1 = H /\ (\A h \in H \ {0} : c1[h] = h) /\ (arr[0] # -1 => c1[0] = arr[0])
  BY <1>1 DEF AfterDup2
<1> HIDE DEF c1
<1>3. DOMAIN c2 = H /\ (\A h \in H \ {1} : c2[h] = c1[h]) /\ (arr[1] # -1 => c2[1] = arr[1])
  BY <1>1, <1>2 DEF AfterDup2
<1> HIDE DEF c2
<1>4. DOMAIN c3 = H /\ (\A h \in H \ {2} : c3[h] = c2[h]) /\ (arr[2] # -1 => c3[2] = arr[2])
  BY <1>1, <1>2, <1>3 DEF AfterDup2
<1>5. ChildStd(c0, arr) = c3
  BY DEF ChildStd, c1, c2, c3
<1> HIDE DEF c3
<1> QED
  BY <1>1, <1>2, <1>3, <1>4, <1>5
=============================================================================
