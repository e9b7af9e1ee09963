--------------------------- MODULE ProvidersProofs ---------------------------
(***************************************************************************)
(* What MapKeys returns for every secret and every list of mappings, what  *)
(* the Secrets of the policies hold, and the arithmetic of randomString.   *)
(***************************************************************************)
EXTENDS Providers, WellFoundedInduction, TLAPS

-----------------------------------------------------------------------------
(* Induction over the positions of a list *)

\* A non-empty set of naturals has a least element.
LEMMA LeastExists ==
  ASSUME NEW S \in SUBSET Nat, S # {}
  PROVE  \E x \in S : \A y \in S : x <= y
<1>1. PICK x \in S : \A y \in S : ~(<<y, x>> \in OpToRel(<, Nat))
  BY WFMin, NatLessThanWellFounded, Zenon
<1>2. \A y \in S : ~(y < x)
  BY <1>1, Zenon DEF OpToRel
<1>3. QED
  BY <1>2

\* Induction up to n: a set of naturals that contains 0, and with every number
\* before n the next one, contains 0..n. Otherwise take the least one it misses.
LEMMA InductionUpTo ==
  ASSUME NEW n \in Nat, NEW S, 0 \in S, \A i \in 1..n : i - 1 \in S => i \in S
  PROVE  0..n \subseteq S
<1> DEFINE Missing == (0..n) \ S
<1>1. CASE Missing = {}
  BY <1>1
<1>2. CASE Missing # {}
  <2>1. PICK x \in Missing : \A y \in Missing : x <= y
    <3>1. Missing \in SUBSET Nat
      OBVIOUS
    <3>2. QED
      BY <1>2, <3>1, LeastExists
  <2>2. x # 0 /\ x \in 1..n
    BY <2>1
  <2>3. x - 1 \in 0..n /\ ~(x <= x - 1)
    BY <2>2
  <2>4. x - 1 \in S
    BY <2>1, <2>3
  <2>5. QED
    BY <2>1, <2>2, <2>4
<1>3. QED
  BY <1>1, <1>2

\* Of the positions of a list, a non-empty set has a last one.
LEMMA LastExists ==
  ASSUME NEW n \in Nat, NEW S \in SUBSET (1..n), S # {}
  PROVE  \E x \in S : \A y \in S : y <= x
<1> DEFINE FromTheEnd == {n - x : x \in S}
<1>1. FromTheEnd \in SUBSET Nat /\ FromTheEnd # {}
  <2>1. \A x \in S : n - x \in Nat
    OBVIOUS
  <2>2. PICK x \in S : TRUE
    OBVIOUS
  <2>3. n - x \in FromTheEnd
    OBVIOUS
  <2>4. QED
    BY <2>1, <2>3
<1>2. PICK d \in FromTheEnd : \A e \in FromTheEnd : d <= e
  BY <1>1, LeastExists
<1>3. PICK x \in S : d = n - x
  BY <1>2
<1>4. \A y \in S : n - x <= n - y
  BY <1>2, <1>3
<1>5. \A y \in S : y <= x
  BY <1>4
<1>6. QED
  BY <1>3, <1>5

-----------------------------------------------------------------------------
(* MapKeys *)

\* What the loop has in hand after each of its first n turns.
IsLoop(result, secret, mappings, n) ==
  result = [i \in 0..n |->
              IF i = 0 THEN Mapped(<<>>) ELSE MapOne(secret, result[i - 1], mappings[i])]

\* The recursion is sound: every number of turns can be taken, each from what
\* the turn before has left.
LEMMA LoopRuns ==
  ASSUME NEW secret, NEW mappings, NEW n \in Nat
  PROVE  \E result : IsLoop(result, secret, mappings, n)
<1> DEFINE Runs == {k \in Nat : \E result : IsLoop(result, secret, mappings, k)}
<1>1. 0 \in Runs
  <2> DEFINE first == [i \in 0..0 |-> Mapped(<<>>)]
  <2>1. IsLoop(first, secret, mappings, 0)
    BY DEF IsLoop
  <2>2. QED
    BY <2>1
<1>2. ASSUME NEW i \in 1..n, i - 1 \in Runs
      PROVE  i \in Runs
  <2>1. PICK before : IsLoop(before, secret, mappings, i - 1)
    BY <1>2
  <2> DEFINE next == [j \in 0..i |-> IF j = i THEN MapOne(secret, before[i - 1], mappings[i])
                                              ELSE before[j]]
  <2>2. \A j \in 0..(i - 1) : before[j] = IF j = 0 THEN Mapped(<<>>)
                                          ELSE MapOne(secret, before[j - 1], mappings[j])
    BY <2>1 DEF IsLoop
  <2>3. \A j \in 0..(i - 1) : next[j] = before[j]
    OBVIOUS
  <2>4. ASSUME NEW j \in 0..i
        PROVE  next[j] = IF j = 0 THEN Mapped(<<>>) ELSE MapOne(secret, next[j - 1], mappings[j])
    <3>1. CASE j = i
      <4>1. i - 1 \in 0..(i - 1)
        OBVIOUS
      <4>2. next[j] = MapOne(secret, before[i - 1], mappings[i]) /\ j # 0
        BY <3>1
      <4>3. QED
        BY <2>3, <3>1, <4>1, <4>2
    <3>2. CASE j = 0
      BY <2>2, <2>3, <3>2
    <3>3. CASE j # i /\ j # 0
      <4>1. j \in 0..(i - 1) /\ j - 1 \in 0..(i - 1)
        BY <3>3
      <4>2. next[j] = before[j] /\ next[j - 1] = before[j - 1]
        BY <2>3, <4>1
      <4>3. QED
        BY <2>2, <3>3, <4>1, <4>2
    <3>4. QED
      BY <3>1, <3>2, <3>3
  <2>5. IsLoop(next, secret, mappings, i)
    <3>1. next = [j \in 0..i |-> next[j]]
      OBVIOUS
    <3> HIDE DEF next
    <3>2. QED
      BY <2>4, <3>1 DEF IsLoop
  <2>6. QED
    BY <2>5
<1>3. 0..n \subseteq Runs
  <2> HIDE DEF Runs
  <2>1. QED
    BY <1>1, <1>2, InductionUpTo
<1>4. n \in Runs
  BY <1>3
<1>5. QED
  BY <1>4

\* MapKeys takes as many turns as there are mappings.
LEMMA MapKeysRuns ==
  ASSUME NEW secret, NEW mappings \in Seq(Mapping)
  PROVE  \E result : /\ IsLoop(result, secret, mappings, Len(mappings))
                     /\ MapKeys(secret, mappings) = result[Len(mappings)]
<1> DEFINE loop == CHOOSE result : IsLoop(result, secret, mappings, Len(mappings))
<1>1. \E result : IsLoop(result, secret, mappings, Len(mappings))
  <2>1. Len(mappings) \in Nat
    OBVIOUS
  <2>2. QED
    BY <2>1, LoopRuns, Zenon
<1>2. IsLoop(loop, secret, mappings, Len(mappings))
  BY <1>1, Zenon
<1>3. MapKeys(secret, mappings) = loop[Len(mappings)]
  BY Zenon DEF MapKeys, IsLoop
<1>4. QED
  BY <1>2, <1>3, Zenon

\* The invariant of the loop. After i turns nothing has failed when the keys of
\* the first i mappings are all there; the data then has the names of those
\* mappings, each with the value of the last that has its name.
MappedSoFar(result, secret, mappings, i) ==
  /\ result.ok = (\A j \in 1..i : mappings[j].providerKey \in DOMAIN secret)
  /\ result.ok =>
       /\ result.data = [k \in {mappings[j].secretKey : j \in 1..i} |-> result.data[k]]
       /\ \A j \in 1..i :
            (\A l \in (j + 1)..i : mappings[l].secretKey # mappings[j].secretKey)
              => result.data[mappings[j].secretKey] = secret[mappings[j].providerKey]

\* One turn keeps it.
LEMMA MapOneStep ==
  ASSUME NEW secret, NEW mappings, NEW i \in Nat \ {0}, NEW before,
         MappedSoFar(before, secret, mappings, i - 1)
  PROVE  MappedSoFar(MapOne(secret, before, mappings[i]), secret, mappings, i)
<1> DEFINE after == MapOne(secret, before, mappings[i])
           There(j) == mappings[j].providerKey \in DOMAIN secret
<1>1. 1..i = (1..(i - 1)) \cup {i}
  OBVIOUS
<1>2. before.ok = \A j \in 1..(i - 1) : There(j)
  BY DEF MappedSoFar
<1>3. CASE ~before.ok
  <2>1. after = before
    BY <1>3 DEF MapOne
  <2>2. ~(\A j \in 1..i : There(j))
    BY <1>1, <1>2, <1>3
  <2>3. before.ok = FALSE
    BY <1>2, <1>3
  <2>4. QED
    BY <2>1, <2>2, <2>3 DEF MappedSoFar
<1>4. CASE before.ok /\ ~There(i)
  <2>1. after.ok = FALSE
    BY <1>4 DEF MapOne, KeyNotFound
  <2>2. ~(\A j \in 1..i : There(j))
    BY <1>1, <1>4
  <2>3. QED
    BY <2>1, <2>2 DEF MappedSoFar
<1>5. CASE before.ok /\ There(i)
  <2> DEFINE name == mappings[i].secretKey
             value == secret[mappings[i].providerKey]
             data == Put(before.data, name, value)
             names == {mappings[j].secretKey : j \in 1..(i - 1)}
             namesAfter == {mappings[j].secretKey : j \in 1..i}
  <2>1. after.ok = TRUE /\ after.data = data
    BY <1>5 DEF MapOne, Mapped
  <2>2. \A j \in 1..i : There(j)
    BY <1>1, <1>2, <1>5
  <2>3. before.data = [k \in names |-> before.data[k]]
    BY <1>5 DEF MappedSoFar
  <2>4. DOMAIN before.data = names
    BY <2>3
  <2>5. namesAfter = names \cup {name}
    BY <1>1
  <2>6. data = [k \in names \cup {name} |-> IF k = name THEN value ELSE before.data[k]]
    BY <2>4 DEF Put
  <2>7. data = [k \in namesAfter |-> data[k]]
    BY <2>5, <2>6
  <2>8. ASSUME NEW j \in 1..i,
               \A l \in (j + 1)..i : mappings[l].secretKey # mappings[j].secretKey
        PROVE  data[mappings[j].secretKey] = secret[mappings[j].providerKey]
    <3>1. CASE j = i
      BY <2>6, <3>1
    <3>2. CASE j # i
      <4>1. j \in 1..(i - 1) /\ i \in (j + 1)..i
        BY <3>2
      <4>2. mappings[j].secretKey # name /\ mappings[j].secretKey \in names
        BY <2>8, <4>1
      <4>3. \A l \in (j + 1)..(i - 1) : mappings[l].secretKey # mappings[j].secretKey
        BY <2>8
      <4>4. before.data[mappings[j].secretKey] = secret[mappings[j].providerKey]
        BY <1>5, <4>1, <4>3 DEF MappedSoFar
      <4>5. QED
        BY <2>6, <4>2, <4>4
    <3>3. QED
      BY <3>1, <3>2
  <2>9. QED
    <3> HIDE DEF after, data, There
    <3>1. (\A j \in 1..i : mappings[j].providerKey \in DOMAIN secret) = TRUE
      BY <2>2 DEF There
    <3>2. QED
      BY <2>1, <2>7, <2>8, <3>1 DEF MappedSoFar, after
<1>6. QED
  BY <1>3, <1>4, <1>5

\* So MapKeys returns what the invariant says of all the mappings.
LEMMA MapKeysMaps ==
  ASSUME NEW secret, NEW mappings \in Seq(Mapping)
  PROVE  MappedSoFar(MapKeys(secret, mappings), secret, mappings, Len(mappings))
<1> DEFINE n == Len(mappings)
<1>1. n \in Nat
  OBVIOUS
<1>2. PICK loop : IsLoop(loop, secret, mappings, n) /\ MapKeys(secret, mappings) = loop[n]
  BY MapKeysRuns
<1> DEFINE Kept == {i \in 0..n : MappedSoFar(loop[i], secret, mappings, i)}
<1> HIDE DEF n
<1>3. 0 \in Kept
  <2>1. loop[0] = Mapped(<<>>)
    BY <1>1, <1>2 DEF IsLoop
  <2>2. <<>> = [k \in {mappings[j].secretKey : j \in 1..0} |-> <<>>[k]]
    OBVIOUS
  <2>3. MappedSoFar(Mapped(<<>>), secret, mappings, 0)
    BY <2>2 DEF MappedSoFar, Mapped
  <2>4. QED
    BY <1>1, <2>1, <2>3
<1>4. ASSUME NEW i \in 1..n, i - 1 \in Kept
      PROVE  i \in Kept
  <2>1. loop[i] = MapOne(secret, loop[i - 1], mappings[i])
    BY <1>1, <1>2, <1>4 DEF IsLoop
  <2>2. i \in Nat \ {0} /\ MappedSoFar(loop[i - 1], secret, mappings, i - 1)
    BY <1>1, <1>4
  <2>3. MappedSoFar(loop[i], secret, mappings, i)
    BY <2>1, <2>2, MapOneStep
  <2>4. QED
    BY <1>1, <2>3
<1>5. n \in Kept
  <2> HIDE DEF Kept
  <2>1. 0..n \subseteq Kept
    BY <1>1, <1>3, <1>4, InductionUpTo
  <2>2. QED
    BY <1>1, <2>1
<1>6. QED
  BY <1>2, <1>5 DEF n

\* Every name mapped has a mapping that is the last to it: the CHOOSE of Reference
\* has something to choose.
LEMMA LastMapping ==
  ASSUME NEW mappings \in Seq(Mapping), NEW k \in {mappings[i].secretKey : i \in DOMAIN mappings}
  PROVE  \E i \in DOMAIN mappings :
           /\ mappings[i].secretKey = k
           /\ \A j \in DOMAIN mappings : mappings[j].secretKey = k => j <= i
<1> DEFINE n == Len(mappings)
           Positions == {i \in 1..n : mappings[i].secretKey = k}
<1>1. n \in Nat /\ DOMAIN mappings = 1..n
  OBVIOUS
<1>2. Positions \in SUBSET (1..n) /\ Positions # {}
  BY <1>1
<1>3. \E i \in Positions : \A j \in Positions : j <= i
  <2> HIDE DEF Positions, n
  <2>1. QED
    BY <1>1, <1>2, LastExists
<1>4. QED
  BY <1>1, <1>3

\* For every secret and every list of mappings MapKeys is its definition without
\* the loop: it succeeds when every key asked for is there, and then returns the
\* names mapped, each with the value of the last mapping to it.
THEOREM MapKeysIsReference ==
  ASSUME NEW secret, NEW mappings \in Seq(Mapping)
  PROVE  LET mapped == MapKeys(secret, mappings)
         IN  /\ mapped.ok = \A i \in DOMAIN mappings : mappings[i].providerKey \in DOMAIN secret
             /\ mapped.ok => mapped.data = Reference(secret, mappings)
<1> DEFINE mapped == MapKeys(secret, mappings)
           n == Len(mappings)
           names == {mappings[i].secretKey : i \in DOMAIN mappings}
           Final(k) == CHOOSE i \in DOMAIN mappings :
                         /\ mappings[i].secretKey = k
                         /\ \A j \in DOMAIN mappings : mappings[j].secretKey = k => j <= i
<1>1. n \in Nat /\ DOMAIN mappings = 1..n
  OBVIOUS
<1>2. MappedSoFar(mapped, secret, mappings, n)
  BY MapKeysMaps
<1> HIDE DEF mapped, n
<1>3. mapped.ok = \A i \in DOMAIN mappings : mappings[i].providerKey \in DOMAIN secret
  BY <1>1, <1>2 DEF MappedSoFar
<1>4. ASSUME mapped.ok
      PROVE  mapped.data = Reference(secret, mappings)
  <2>1. mapped.data = [k \in names |-> mapped.data[k]]
    BY <1>1, <1>2, <1>4 DEF MappedSoFar
  <2>2. ASSUME NEW k \in names
        PROVE  mapped.data[k] = secret[mappings[Final(k)].providerKey]
    <3>1. \E i \in DOMAIN mappings :
             /\ mappings[i].secretKey = k
             /\ \A j \in DOMAIN mappings : mappings[j].secretKey = k => j <= i
      BY LastMapping
    <3>2. /\ Final(k) \in 1..n
          /\ mappings[Final(k)].secretKey = k
          /\ \A j \in 1..n : mappings[j].secretKey = k => j <= Final(k)
      BY <1>1, <3>1
    <3> HIDE DEF Final
    <3>3. \A l \in (Final(k) + 1)..n : mappings[l].secretKey # mappings[Final(k)].secretKey
      BY <1>1, <3>2
    <3>4. QED
      BY <1>2, <1>4, <3>2, <3>3 DEF MappedSoFar
  <2>3. Reference(secret, mappings) = [k \in names |-> secret[mappings[Final(k)].providerKey]]
    BY Zenon DEF Reference
  <2> HIDE DEF names, Final
  <2>4. QED
    BY <2>1, <2>2, <2>3
<1>5. QED
  BY <1>3, <1>4 DEF mapped

-----------------------------------------------------------------------------
(* What the Secrets of the policies hold *)

\* The secret that a provider makes with its n-th call.
SecretOf(name, n) == IF name = "mock" THEN MockSecret(n) ELSE StaticSecret(n)

\* The calls that a process has made of mock, and all processes of static.
Calls(name) == IF name = "mock" THEN rotateCount ELSE draws

\* Every variable keeps its type.
TypeOK ==
  /\ asked \in [Policies -> Request]
  /\ rotateCount \in 0..MaxCalls /\ draws \in 0..MaxCalls
  /\ starts \in Nat
  /\ held = [p \in Policies |-> held[p]]
  /\ served \in SUBSET Policies

\* The provider returns every key asked for, whatever the call.
KeysThere(request) ==
  \A i \in DOMAIN request.keys :
    request.keys[i].providerKey \in DOMAIN SecretOf(request.name, 0)

\* The data is what the n-th call of the provider gives to one who asks so.
IsFrom(data, request, n) ==
  /\ request.name \in {"mock", "static"}
  /\ KeysThere(request)
  /\ data = Reference(SecretOf(request.name, n), request.keys)

\* Every Secret was written out of one call within the bound. Of those written
\* since the process started, each is out of a call that is counted, and no two
\* are out of one call.
OneCallEach ==
  /\ \A p \in Policies : held[p] # <<>> => \E n \in 1..MaxCalls : IsFrom(held[p], asked[p], n)
  /\ \A p \in served : \E n \in 1..Calls(asked[p].name) : IsFrom(held[p], asked[p], n)
  /\ \A p, q \in served : p # q /\ asked[p].name = asked[q].name =>
       \E m, n \in 1..Calls(asked[p].name) :
          m # n /\ IsFrom(held[p], asked[p], m) /\ IsFrom(held[q], asked[q], n)

IInv == TypeOK /\ OneCallEach

\* The keys that a provider returns do not depend on the call, and a value tells
\* the provider, the key and, except for the user name, the call.
LEMMA SecretOfValues ==
  ASSUME NEW name \in {"mock", "static"}, NEW n
  PROVE  /\ DOMAIN SecretOf(name, n) = DOMAIN SecretOf(name, 0)
         /\ \A key \in DOMAIN SecretOf(name, 0) :
              /\ SecretOf(name, n)[key].name = name
              /\ SecretOf(name, n)[key].key = key
              /\ key # "username" => SecretOf(name, n)[key].call = n
BY DEF SecretOf, MockSecret, StaticSecret, Value

\* What is out of a call has values of that call.
LEMMA IsFromValues ==
  ASSUME NEW data, NEW request \in Request, NEW n, IsFrom(data, request, n), NEW k \in DOMAIN data
  PROVE  \E key \in DOMAIN SecretOf(request.name, 0) : data[k] = SecretOf(request.name, n)[key]
<1> DEFINE keys == request.keys
           Final(name) == CHOOSE i \in DOMAIN keys :
                            /\ keys[i].secretKey = name
                            /\ \A j \in DOMAIN keys : keys[j].secretKey = name => j <= i
           names == {keys[i].secretKey : i \in DOMAIN keys}
           secret == SecretOf(request.name, n)
<1>1. data = [name \in names |-> secret[keys[Final(name)].providerKey]]
  BY Zenon DEF IsFrom, Reference
<1>2. keys \in Seq(Mapping)
  BY DEF Request
<1>3. k \in names
  <2> HIDE DEF names, Final, secret
  <2>1. QED
    BY <1>1
<1>4. Final(k) \in DOMAIN keys
  <2>1. \E i \in DOMAIN keys : /\ keys[i].secretKey = k
                               /\ \A j \in DOMAIN keys : keys[j].secretKey = k => j <= i
    <3> HIDE DEF keys
    <3>1. QED
      BY <1>2, <1>3, LastMapping DEF keys
  <2>2. QED
    BY <2>1
<1>5. keys[Final(k)].providerKey \in DOMAIN SecretOf(request.name, 0)
  <2> HIDE DEF Final
  <2>1. QED
    BY <1>4 DEF IsFrom, KeysThere
<1>6. data[k] = secret[keys[Final(k)].providerKey]
  <2> HIDE DEF names, Final, secret
  <2>1. QED
    BY <1>1, <1>3
<1>7. QED
  BY <1>5, <1>6, Zenon

\* Out of two calls come different values, user names apart.
LEMMA CallsDiffer ==
  ASSUME NEW dataP, NEW dataQ, NEW p \in Request, NEW q \in Request, NEW m, NEW n,
         IsFrom(dataP, p, m), IsFrom(dataQ, q, n), p.name = q.name => m # n,
         NEW k \in DOMAIN dataP, NEW l \in DOMAIN dataQ, dataP[k] = dataQ[l]
  PROVE  dataP[k].key = "username"
<1>1. p.name \in {"mock", "static"} /\ q.name \in {"mock", "static"}
  BY DEF IsFrom
<1>2. PICK keyP \in DOMAIN SecretOf(p.name, 0) : dataP[k] = SecretOf(p.name, m)[keyP]
  BY IsFromValues
<1>3. PICK keyQ \in DOMAIN SecretOf(q.name, 0) : dataQ[l] = SecretOf(q.name, n)[keyQ]
  BY IsFromValues
<1>4. /\ dataP[k].name = p.name /\ dataP[k].key = keyP
      /\ keyP # "username" => dataP[k].call = m
  BY <1>1, <1>2, SecretOfValues
<1>5. /\ dataQ[l].name = q.name /\ dataQ[l].key = keyQ
      /\ keyQ # "username" => dataQ[l].call = n
  BY <1>1, <1>3, SecretOfValues
<1>6. QED
  BY <1>4, <1>5

\* What executeRotation writes is out of the call just made.
LEMMA MappedIsFrom ==
  ASSUME NEW request \in Request, request.name \in {"mock", "static"}, NEW n
  PROVE  LET mapped == MapKeys(SecretOf(request.name, n), request.keys)
         IN  /\ mapped.ok = KeysThere(request)
             /\ mapped.ok => IsFrom(mapped.data, request, n)
<1> DEFINE secret == SecretOf(request.name, n)
           mapped == MapKeys(secret, request.keys)
<1>1. request.keys \in Seq(Mapping)
  BY DEF Request
<1> HIDE DEF secret
<1>2. /\ mapped.ok = \A i \in DOMAIN request.keys : request.keys[i].providerKey \in DOMAIN secret
      /\ mapped.ok => mapped.data = Reference(secret, request.keys)
  BY <1>1, MapKeysIsReference, Zenon
<1> HIDE DEF mapped
<1>3. DOMAIN secret = DOMAIN SecretOf(request.name, 0)
  BY SecretOfValues DEF secret
<1>4. mapped.ok = KeysThere(request)
  BY <1>2, <1>3 DEF KeysThere
<1>5. mapped.ok => IsFrom(mapped.data, request, n)
  BY <1>2, <1>4 DEF IsFrom, secret
<1>6. QED
  BY <1>4, <1>5 DEF mapped, secret

\* Init establishes the invariant.
LEMMA InitIInv == Init => IInv
BY AskedAssumption, BoundsAssumption DEF Init, IInv, TypeOK, OneCallEach

\* A rotation is a call of the provider. Its outcome is kept, unless a key asked
\* for is one that the provider never returns.
LEMMA RotateKeeps ==
  ASSUME IInv, NEW p \in Policies, Rotate(p)
  PROVE  LET name == asked[p].name
             n    == Calls(name) + 1
         IN  /\ name \in {"mock", "static"} /\ n \in 1..MaxCalls
             /\ Calls(name)' = n
             /\ asked' = asked /\ starts' = starts
             /\ rotateCount' \in rotateCount..MaxCalls /\ draws' \in draws..MaxCalls
             /\ \/ /\ ~KeysThere(asked[p])
                   /\ held' = held /\ served' = served
                \/ /\ IsFrom(held'[p], asked[p], n)
                   /\ held' = [held EXCEPT ![p] = held'[p]]
                   /\ served' = served \cup {p}
<1> USE BoundsAssumption
<1> DEFINE request == asked[p]
<1>1. request \in Request
  BY DEF IInv, TypeOK
<1>2. held = [r \in Policies |-> held[r]]
  BY DEF IInv, TypeOK
<1>3. ASSUME NEW n, Keep(p, MapKeys(SecretOf(request.name, n), request.keys)),
             request.name \in {"mock", "static"}
      PROVE  \/ ~KeysThere(request) /\ held' = held /\ served' = served
             \/ /\ IsFrom(held'[p], request, n)
                /\ held' = [held EXCEPT ![p] = held'[p]]
                /\ served' = served \cup {p}
  <2> DEFINE mapped == MapKeys(SecretOf(request.name, n), request.keys)
  <2>1. CASE mapped.ok
    <3>1. IsFrom(mapped.data, request, n)
      BY <1>1, <1>3, <2>1, MappedIsFrom
    <3> HIDE DEF mapped
    <3>2. held' = [held EXCEPT ![p] = mapped.data] /\ served' = served \cup {p}
      BY <1>3, <2>1 DEF Keep, mapped
    <3>3. held'[p] = mapped.data
      BY <1>2, <3>2
    <3>4. QED
      BY <3>1, <3>2, <3>3
  <2>2. CASE ~mapped.ok
    <3>1. ~KeysThere(request)
      BY <1>1, <1>3, <2>2, MappedIsFrom
    <3> HIDE DEF mapped
    <3>2. QED
      BY <1>3, <2>2, <3>1 DEF Keep, mapped
  <2>3. QED
    BY <2>1, <2>2
<1>4. CASE RotateMock(p)
  <2>1. request.name = "mock" /\ SecretOf(request.name, rotateCount + 1) = MockSecret(NewCount)
    BY <1>4 DEF RotateMock, SecretOf, NewCount
  <2>2. Keep(p, MapKeys(SecretOf(request.name, rotateCount + 1), request.keys))
    BY <1>4, <2>1 DEF RotateMock
  <2>3. /\ rotateCount' = rotateCount + 1 /\ rotateCount + 1 \in 1..MaxCalls
        /\ draws' = draws /\ asked' = asked /\ starts' = starts
    BY <1>4 DEF RotateMock, IInv, TypeOK
  <2>4. Calls(request.name) = rotateCount /\ Calls(request.name)' = rotateCount + 1
    BY <2>1, <2>3 DEF Calls
  <2>5. QED
    BY <1>3, <2>1, <2>2, <2>3, <2>4 DEF Calls, IInv, TypeOK
<1>5. CASE RotateStatic(p)
  <2>1. request.name = "static" /\ SecretOf(request.name, draws + 1) = StaticSecret(draws + 1)
    BY <1>5 DEF RotateStatic, SecretOf
  <2>2. Keep(p, MapKeys(SecretOf(request.name, draws + 1), request.keys))
    BY <1>5, <2>1 DEF RotateStatic
  <2>3. /\ draws' = draws + 1 /\ draws + 1 \in 1..MaxCalls
        /\ rotateCount' = rotateCount /\ asked' = asked /\ starts' = starts
    BY <1>5 DEF RotateStatic, IInv, TypeOK
  <2>4. Calls(request.name) = draws /\ Calls(request.name)' = draws + 1
    BY <2>1, <2>3 DEF Calls
  <2>5. QED
    BY <1>3, <2>1, <2>2, <2>3, <2>4 DEF Calls, IInv, TypeOK
<1>6. QED
  BY <1>4, <1>5 DEF Rotate

\* A rotation keeps the invariant: what it wrote is out of a call that no other
\* Secret is out of, because the counter had not reached it.
LEMMA RotateStep ==
  ASSUME IInv, NEW p \in Policies, Rotate(p)
  PROVE  IInv'
<1> DEFINE name == asked[p].name
           n    == Calls(name) + 1
<1>1. /\ name \in {"mock", "static"} /\ n \in 1..MaxCalls /\ Calls(name)' = n
      /\ asked' = asked /\ starts' = starts
      /\ rotateCount' \in rotateCount..MaxCalls /\ draws' \in draws..MaxCalls
  BY RotateKeeps
<1>2. \/ held' = held /\ served' = served
      \/ /\ IsFrom(held'[p], asked[p], n)
         /\ held' = [held EXCEPT ![p] = held'[p]]
         /\ served' = served \cup {p}
  BY RotateKeeps
<1>3. TypeOK'
  <2>1. held' = [r \in Policies |-> held'[r]]
    <3>1. held = [r \in Policies |-> held[r]]
      BY DEF IInv, TypeOK
    <3>2. QED
      BY <1>2, <3>1
  <2>2. QED
    BY <1>1, <1>2, <2>1 DEF IInv, TypeOK
<1>4. \A q \in Policies : q # p => held'[q] = held[q]
  <2>1. held = [r \in Policies |-> held[r]]
    BY DEF IInv, TypeOK
  <2>2. QED
    BY <1>2, <2>1
<1>5. \A q \in Policies : /\ Calls(asked[q].name) \in Nat /\ Calls(asked[q].name)' \in Nat
                          /\ Calls(asked[q].name) <= Calls(asked[q].name)'
  <2>1. /\ rotateCount \in Nat /\ rotateCount' \in Nat /\ rotateCount <= rotateCount'
        /\ draws \in Nat /\ draws' \in Nat /\ draws <= draws'
    BY <1>1, BoundsAssumption DEF IInv, TypeOK
  <2>2. QED
    BY <1>1, <2>1 DEF Calls
<1> HIDE DEF name, n
<1>6. served \in SUBSET Policies /\ served' \subseteq served \cup {p}
  BY <1>2 DEF IInv, TypeOK
\* What the call wrote, and what was there.
<1>7. CASE held' = held /\ served' = served
  <2>1. \A q \in Policies : held[q] # <<>> => \E k \in 1..MaxCalls : IsFrom(held[q], asked[q], k)
    BY DEF IInv, OneCallEach
  <2>2. ASSUME NEW q \in served
        PROVE  \E k \in 1..Calls(asked[q].name)' : IsFrom(held[q], asked[q], k)
    <3>1. PICK k \in 1..Calls(asked[q].name) : IsFrom(held[q], asked[q], k)
      BY DEF IInv, OneCallEach
    <3>2. k \in 1..Calls(asked[q].name)'
      BY <1>5, <1>6
    <3>3. QED
      BY <3>1, <3>2
  <2>3. ASSUME NEW q \in served, NEW r \in served, q # r, asked[q].name = asked[r].name
        PROVE  \E k, l \in 1..Calls(asked[q].name)' :
                  k # l /\ IsFrom(held[q], asked[q], k) /\ IsFrom(held[r], asked[r], l)
    <3>1. PICK k \in 1..Calls(asked[q].name), l \in 1..Calls(asked[q].name) :
             k # l /\ IsFrom(held[q], asked[q], k) /\ IsFrom(held[r], asked[r], l)
      BY <2>3 DEF IInv, OneCallEach
    <3>2. k \in 1..Calls(asked[q].name)' /\ l \in 1..Calls(asked[q].name)'
      BY <1>5, <1>6
    <3>3. QED
      BY <3>1, <3>2
  <2>4. OneCallEach'
    BY <1>1, <1>7, <2>1, <2>2, <2>3 DEF OneCallEach
  <2>5. QED
    BY <1>3, <2>4 DEF IInv
<1>8. CASE IsFrom(held'[p], asked[p], n)
  <2>1. ASSUME NEW q \in Policies, held'[q] # <<>>
        PROVE  \E k \in 1..MaxCalls : IsFrom(held'[q], asked[q], k)
    <3>1. CASE q = p
      BY <1>1, <1>8, <3>1
    <3>2. CASE q # p
      BY <1>4, <2>1, <3>2 DEF IInv, OneCallEach
    <3>3. QED
      BY <3>1, <3>2
  <2>2. ASSUME NEW q \in served'
        PROVE  \E k \in 1..Calls(asked[q].name)' : IsFrom(held'[q], asked[q], k)
    <3>1. CASE q = p
      <4>1. n \in 1..Calls(asked[q].name)'
        BY <1>1, <3>1 DEF name
      <4>2. QED
        BY <1>8, <3>1, <4>1
    <3>2. CASE q # p
      <4>1. q \in served /\ held'[q] = held[q]
        BY <1>4, <1>6, <3>2
      <4>2. PICK k \in 1..Calls(asked[q].name) : IsFrom(held[q], asked[q], k)
        BY <4>1 DEF IInv, OneCallEach
      <4>3. k \in 1..Calls(asked[q].name)'
        BY <1>5, <1>6
      <4>4. QED
        BY <4>1, <4>2, <4>3
    <3>3. QED
      BY <3>1, <3>2
  \* Another Secret of the same provider is out of an earlier call.
  <2>3. ASSUME NEW q \in served, q # p, asked[q].name = asked[p].name
        PROVE  \E k \in 1..Calls(asked[p].name)' : k # n /\ IsFrom(held'[q], asked[q], k)
    <3>1. PICK k \in 1..Calls(asked[q].name) : IsFrom(held[q], asked[q], k)
      BY DEF IInv, OneCallEach
    <3>2. Calls(asked[q].name) \in Nat /\ n = Calls(asked[q].name) + 1
      BY <1>5, <2>3 DEF n, name
    <3>3. k # n /\ k \in 1..Calls(asked[p].name)'
      BY <1>1, <2>3, <3>2 DEF name
    <3>4. held'[q] = held[q]
      BY <1>4, <1>6, <2>3
    <3>5. QED
      BY <3>1, <3>3, <3>4
  <2>4. ASSUME NEW q \in served', NEW r \in served', q # r, asked[q].name = asked[r].name
        PROVE  \E k, l \in 1..Calls(asked[q].name)' :
                  k # l /\ IsFrom(held'[q], asked[q], k) /\ IsFrom(held'[r], asked[r], l)
    <3>1. n \in 1..Calls(asked[p].name)'
      BY <1>1 DEF name
    <3>2. CASE q = p
      <4>1. r \in served /\ r # p
        BY <1>6, <2>4, <3>2
      <4>2. PICK k \in 1..Calls(asked[p].name)' : k # n /\ IsFrom(held'[r], asked[r], k)
        BY <2>3, <2>4, <3>2, <4>1
      <4>3. QED
        BY <1>8, <3>1, <3>2, <4>2
    <3>3. CASE r = p
      <4>1. q \in served /\ q # p
        BY <1>6, <2>4, <3>3
      <4>2. PICK k \in 1..Calls(asked[p].name)' : k # n /\ IsFrom(held'[q], asked[q], k)
        BY <2>3, <2>4, <3>3, <4>1
      <4>3. QED
        BY <1>1, <1>8, <2>4, <3>1, <3>3, <4>2
    <3>4. CASE q # p /\ r # p
      <4>1. /\ q \in served /\ r \in served
            /\ held'[q] = held[q] /\ held'[r] = held[r]
        BY <1>4, <1>6, <3>4
      <4>2. PICK k \in 1..Calls(asked[q].name), l \in 1..Calls(asked[q].name) :
               k # l /\ IsFrom(held[q], asked[q], k) /\ IsFrom(held[r], asked[r], l)
        BY <2>4, <4>1 DEF IInv, OneCallEach
      <4>3. k \in 1..Calls(asked[q].name)' /\ l \in 1..Calls(asked[q].name)'
        BY <1>5, <1>6
      <4>4. QED
        BY <4>1, <4>2, <4>3
    <3>5. QED
      BY <3>2, <3>3, <3>4
  <2>5. OneCallEach'
    BY <1>1, <2>1, <2>2, <2>4 DEF OneCallEach
  <2>6. QED
    BY <1>3, <2>5 DEF IInv
<1>9. QED
  BY <1>2, <1>7, <1>8

\* So does the start of another process, which has served nobody yet.
LEMMA RestartStep == IInv /\ Restart => IInv'
<1> SUFFICES ASSUME IInv, Restart PROVE IInv'
  OBVIOUS
<1>1. TypeOK'
  BY BoundsAssumption DEF IInv, TypeOK, Restart
<1>2. OneCallEach'
  BY DEF IInv, OneCallEach, Restart
<1>3. QED
  BY <1>1, <1>2 DEF IInv

\* The invariant of every behaviour.
THEOREM Invariance == Spec => []IInv
<1>1. IInv /\ [Next]_vars => IInv'
  <2> SUFFICES ASSUME IInv, [Next]_vars PROVE IInv'
    OBVIOUS
  <2>1. CASE \E p \in Policies : Rotate(p)
    BY <2>1, RotateStep
  <2>2. CASE Restart
    BY <2>2, RestartStep
  <2>3. CASE UNCHANGED vars
    BY <2>3 DEF IInv, TypeOK, OneCallEach, Calls, vars
  <2>4. QED
    BY <2>1, <2>2, <2>3 DEF Next
<1>2. QED
  BY <1>1, InitIInv, PTL DEF Spec

\* A Secret holds exactly the keys mapped, each with the value mapped last, all
\* out of one call, for every request, list of mappings and number of calls.
THEOREM SecretsAreMapped == Spec => []HeldAsMapped
<1>1. IInv => HeldAsMapped
  <2> SUFFICES ASSUME IInv, NEW p \in Policies, held[p] # <<>>
               PROVE  /\ \A i \in DOMAIN asked[p].keys :
                           asked[p].keys[i].providerKey \in DOMAIN SecretOf(asked[p].name, 0)
                      /\ \E n \in 1..MaxCalls :
                           held[p] = Reference(SecretOf(asked[p].name, n), asked[p].keys)
    BY Zenon DEF HeldAsMapped, SecretOf
  <2>1. PICK n \in 1..MaxCalls : IsFrom(held[p], asked[p], n)
    BY DEF IInv, OneCallEach
  <2>2. QED
    BY <2>1 DEF IsFrom, KeysThere
<1>2. QED
  BY <1>1, Invariance, PTL

\* No two policies served by one process hold the same password or key.
THEOREM NothingIsShared == Spec => []NotShared
<1>1. IInv => NotShared
  <2> SUFFICES ASSUME IInv, NEW p \in served, NEW q \in served, p # q,
                      NEW k \in DOMAIN held[p], NEW l \in DOMAIN held[q],
                      held[p][k] = held[q][l]
               PROVE  held[p][k].key = "username"
    BY DEF NotShared
  <2>1. asked[p] \in Request /\ asked[q] \in Request
    BY DEF IInv, TypeOK
  <2>2. CASE asked[p].name = asked[q].name
    <3>1. PICK m \in 1..Calls(asked[p].name), n \in 1..Calls(asked[p].name) :
             m # n /\ IsFrom(held[p], asked[p], m) /\ IsFrom(held[q], asked[q], n)
      BY <2>2 DEF IInv, OneCallEach
    <3>2. QED
      BY <2>1, <3>1, CallsDiffer
  <2>3. CASE asked[p].name # asked[q].name
    <3>1. PICK m \in 1..Calls(asked[p].name) : IsFrom(held[p], asked[p], m)
      BY DEF IInv, OneCallEach
    <3>2. PICK n \in 1..Calls(asked[q].name) : IsFrom(held[q], asked[q], n)
      BY DEF IInv, OneCallEach
    <3>3. QED
      BY <2>1, <2>3, <3>1, <3>2, CallsDiffer
  <2>4. QED
    BY <2>2, <2>3
<1>2. QED
  BY <1>1, Invariance, PTL

\* While the process lives every rotation changes what the Secret holds.
THEOREM RotationChanges == Spec => ChangedWhileRunning
<1> DEFINE Changed ==
      \A p \in served :
        Rotate(p) /\ (\E k \in DOMAIN held[p] : held[p][k].key # "username")
        => held'[p] # held[p]
<1>1. IInv => Changed
  <2> SUFFICES ASSUME IInv, NEW p \in served, Rotate(p), NEW k \in DOMAIN held[p],
                      held[p][k].key # "username", held'[p] = held[p]
               PROVE  FALSE
    OBVIOUS
  <2>1. p \in Policies /\ asked[p] \in Request
    BY DEF IInv, TypeOK
  <2>2. PICK m \in 1..Calls(asked[p].name) : IsFrom(held[p], asked[p], m)
    BY DEF IInv, OneCallEach
  <2>3. IsFrom(held'[p], asked[p], Calls(asked[p].name) + 1)
    <3>1. KeysThere(asked[p])
      BY <2>2 DEF IsFrom
    <3>2. QED
      BY <2>1, <3>1, RotateKeeps
  <2>4. Calls(asked[p].name) \in Nat
    BY BoundsAssumption DEF IInv, TypeOK, Calls
  <2>5. m # Calls(asked[p].name) + 1
    BY <2>4
  <2>6. held[p][k].key = "username"
    BY <2>1, <2>2, <2>3, <2>5, CallsDiffer
  <2>7. QED
    BY <2>6
<1>2. QED
  BY <1>1, Invariance, PTL DEF Spec, ChangedWhileRunning

-----------------------------------------------------------------------------
(* randomString *)

\* For every length whatever, validated or not, encoded[:n] of randomString
\* neither reaches beyond the end nor into the padding.
THEOREM AlwaysEnough == \A n \in Nat : Enough(n)
BY DEF Enough, Carrying, ByteLen, Encoded

\* So the string of every static policy that the controller calls is as long as
\* asked for, or 32 characters.
THEOREM StringsAreLongEnough == Spec => []LongEnough
<1>1. IInv => LongEnough
  <2> SUFFICES ASSUME IInv, NEW p \in Policies, asked[p].name = "static", Usable(p)
               PROVE  Enough(Length(asked[p].params))
    BY DEF LongEnough
  <2> DEFINE params == asked[p].params
  <2>1. params \in Params
    BY DEF IInv, TypeOK, Request
  <2>2. CASE params.length = {}
    BY <2>2, AlwaysEnough DEF Length
  <2>3. CASE params.length # {}
    <3>1. Length(params) \in params.length
      BY <2>3 DEF Length
    <3>2. Validate("static", params)
      BY DEF Usable
    <3>3. \E n \in params.length : 8 <= n /\ n <= 256
      BY <2>1, <2>3, <3>2 DEF Validate, Params
    <3>4. Length(params) \in Nat
      BY <2>1, <3>1, <3>3 DEF Params
    <3>5. QED
      BY <3>4, AlwaysEnough
  <2>4. QED
    BY <2>2, <2>3
<1>2. QED
  BY <1>1, Invariance, PTL
=============================================================================
