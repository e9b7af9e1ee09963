---------------------------- MODULE MCProviders ----------------------------
EXTENDS Providers

Map(providerKey, secretKey) == [providerKey |-> providerKey, secretKey |-> secretKey]
Given(names, length) == [given |-> names, length |-> length]

\* One mapping, two, two to the same key, and one of a key only mock has.
Mappings ==
  {<<Map("password", "A")>>,
   <<Map("password", "A"), Map("username", "B")>>,
   <<Map("username", "A"), Map("password", "A")>>,
   <<Map("apiKey", "A"), Map("password", "B")>>}

\* Lengths at the ends of the range and beyond, and two in between.
StaticParams ==
  {Given({}, {})} \cup {Given({"length"}, {n}) : n \in {7, 8, 9, 31, 256, 257}}
    \cup {Given({"length"}, {})}

Requests ==
  {[name |-> "mock", params |-> Given({}, {}), keys |-> m] : m \in Mappings}
    \cup {[name |-> "static", params |-> p, keys |-> m] : p \in StaticParams, m \in Mappings}
    \cup {[name |-> n, params |-> Given({"path"}, {}), keys |-> <<Map("password", "A")>>]
             : n \in {"aws", "vault", "azure"}}

MockRequests == {[name |-> "mock", params |-> Given({}, {}), keys |-> m] : m \in Mappings}
=============================================================================
