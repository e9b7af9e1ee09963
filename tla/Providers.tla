----------------------------- MODULE Providers -----------------------------
(***************************************************************************)
(* internal/provider: the registry as main fills it, what each provider    *)
(* validates and returns, and MapKeys; one process after another rotating  *)
(* the Secrets of several policies through the same provider instances.    *)
(* A value is a provider's key and the call that made it.                  *)
(***************************************************************************)
EXTENDS RandomString, Sequences

CONSTANTS
  Policies,
  Asked,      \* what a policy may ask for
  MaxCalls,   \* bound on the calls
  MaxStarts   \* bound on the processes started

Registered == {"mock", "static", "aws", "vault"}

\* Params: those given, and for length the number that it spells, if it does.
Params ==
  {params \in [given : SUBSET {"length", "secretId", "path", "address"}, length : SUBSET Int] :
     /\ \A m, n \in params.length : m = n
     /\ params.length # {} => "length" \in params.given}
Mapping == [providerKey : STRING, secretKey : STRING]
Request == [name : STRING, params : Params, keys : Seq(Mapping)]

ASSUME AskedAssumption == Asked \subseteq Request
ASSUME BoundsAssumption == {MaxCalls, MaxStarts} \subseteq Nat

VARIABLES
  asked,        \* what each policy asks for
  rotateCount,  \* the counter of mock
  draws,        \* how often static has drawn random bytes
  held,         \* the data in the Secret of each policy, empty before there is one
  served,       \* history: the policies rotated since the process started
  starts        \* the processes started

vars == <<asked, rotateCount, draws, held, served, starts>>

-----------------------------------------------------------------------------
(* Validate, and the length of static's string *)

Validate(name, params) ==
  CASE name = "mock" -> TRUE
    [] name = "static" -> "length" \in params.given => \E n \in params.length : 8 <= n /\ n <= 256
    [] name = "aws" -> "secretId" \in params.given
    [] name = "vault" -> {"path", "address"} \subseteq params.given

\* Reconcile calls a provider that is registered and content with its parameters.
Usable(p) == asked[p].name \in Registered /\ Validate(asked[p].name, asked[p].params)

\* Anything but a number leaves the default.
Length(params) == IF params.length = {} THEN 32 ELSE CHOOSE n \in params.length : TRUE

-----------------------------------------------------------------------------
(* RotateSecret and MapKeys *)

Value(name, key, call) == [name |-> name, key |-> key, call |-> call]

\* The user name of mock is the same at every call.
MockSecret(n) ==
  [key \in {"password", "username", "apiKey"} |->
     Value("mock", key, IF key = "username" THEN 0 ELSE n)]

StaticSecret(n) == [key \in {"password"} |-> Value("static", key, n)]

Put(data, key, value) ==
  [k \in DOMAIN data \cup {key} |-> IF k = key THEN value ELSE data[k]]

Mapped(data) == [ok |-> TRUE, data |-> data]

\* Variant: a key that is not there is passed over.
PassOver(data) == Mapped(data)

KeyNotFound(data) == [ok |-> FALSE, data |-> <<>>]

\* One turn of the loop; a key that is not there ends it with an error.
MapOne(secret, result, m) ==
  IF ~result.ok THEN result
  ELSE IF m.providerKey \notin DOMAIN secret THEN KeyNotFound(result.data)
  ELSE Mapped(Put(result.data, m.secretKey, secret[m.providerKey]))

\* The loop over the mappings, in their order.
MapKeys(secret, mappings) ==
  LET result[i \in 0..Len(mappings)] ==
        IF i = 0 THEN Mapped(<<>>) ELSE MapOne(secret, result[i - 1], mappings[i])
  IN  result[Len(mappings)]

\* executeRotation writes what was mapped, all of it, or nothing.
Keep(p, mapped) ==
  IF mapped.ok
    THEN held' = [held EXCEPT ![p] = mapped.data] /\ served' = served \cup {p}
    ELSE UNCHANGED <<held, served>>

-----------------------------------------------------------------------------

Init ==
  /\ asked \in [Policies -> Asked]
  /\ rotateCount = 0 /\ draws = 0
  /\ held = [p \in Policies |-> <<>>]
  /\ served = {} /\ starts = 1

\* Variant: the registry makes a new instance for every caller.
CountOfNewInstance == 1

\* rotateCount.Add(1)
NewCount == rotateCount + 1

RotateMock(p) ==
  /\ Usable(p) /\ asked[p].name = "mock"
  /\ rotateCount < MaxCalls
  /\ rotateCount' = rotateCount + 1
  /\ Keep(p, MapKeys(MockSecret(NewCount), asked[p].keys))
  /\ UNCHANGED <<asked, draws, starts>>

RotateStatic(p) ==
  /\ Usable(p) /\ asked[p].name = "static"
  /\ draws < MaxCalls
  /\ draws' = draws + 1
  /\ Keep(p, MapKeys(StaticSecret(draws + 1), asked[p].keys))
  /\ UNCHANGED <<asked, rotateCount, starts>>

\* The stubs of aws and vault fail whenever they are called, and what is not
\* usable is not called: nothing changes here.

\* A new process has new instances: mock counts from the beginning.
Restart ==
  /\ starts < MaxStarts
  /\ starts' = starts + 1
  /\ rotateCount' = 0
  /\ served' = {}
  /\ UNCHANGED <<asked, draws, held>>

Rotate(p) == RotateMock(p) \/ RotateStatic(p)

Next == (\E p \in Policies : Rotate(p)) \/ Restart

Spec == Init /\ [][Next]_vars

-----------------------------------------------------------------------------
(* Properties *)

\* What MapKeys means, without its loop: every key asked for must be there, and
\* of several mappings to one key of the Secret the last one counts.
Reference(secret, mappings) ==
  LET Final(k) == CHOOSE i \in DOMAIN mappings :
                    /\ mappings[i].secretKey = k
                    /\ \A j \in DOMAIN mappings : mappings[j].secretKey = k => j <= i
      names == {mappings[i].secretKey : i \in DOMAIN mappings}
  IN  [k \in names |-> secret[mappings[Final(k)].providerKey]]

\* A Secret holds, for the provider of its policy, exactly the keys mapped, each
\* with the value mapped last, all out of one call: "Every providerKey must exist
\* in the secret returned by the provider", or nothing is written.
HeldAsMapped ==
  \A p \in Policies : held[p] # <<>> =>
    LET Secret(n) == IF asked[p].name = "mock" THEN MockSecret(n) ELSE StaticSecret(n)
    IN  /\ \A i \in DOMAIN asked[p].keys : asked[p].keys[i].providerKey \in DOMAIN Secret(0)
        /\ \E n \in 1..MaxCalls : held[p] = Reference(Secret(n), asked[p].keys)

\* The random string of every length that Validate lets through is as long as
\* asked for, without a character of padding, and every bit of it is random.
LongEnough ==
  \A p \in Policies :
    asked[p].name = "static" /\ Usable(p) =>
      Enough(Length(asked[p].params))

\* Policies share the instance and its counter, but since the process started no
\* two of them have been given the same password or key.
NotShared ==
  \A p, q \in served : p # q =>
    \A k \in DOMAIN held[p], l \in DOMAIN held[q] :
      held[p][k] = held[q][l] => held[p][k].key = "username"

\* While the process lives every rotation of a policy it has served before changes
\* what the Secret holds, unless that is the user name of mock alone.
ChangedWhileRunning ==
  [][\A p \in served :
       Rotate(p) /\ (\E k \in DOMAIN held[p] : held[p][k].key # "username")
       => held'[p] # held[p]]_vars

\* "Each call to RotateSecret increments an internal counter so callers can
\* observe the rotation happened": a rotation of mock changes the password.
RotationObservable ==
  [][\A p \in Policies :
       RotateMock(p) /\ held[p] # <<>>
         /\ (\E i \in DOMAIN asked[p].keys : asked[p].keys[i].providerKey # "username")
       => held'[p] # held[p]]_vars
=============================================================================
