------------------------------ MODULE MCNodes -------------------------------
EXTENDS Nodes

MCPubkeys == {"k1", "k2", "n1"}

Single(k) ==
    [threshold |-> 3, weight |-> [x \in MCPubkeys |-> IF x = k THEN 3 ELSE 0]]

MCAddresses == {"g", "a", "b"}
MCCurrencies == {"X", "Y"}
MCKeysOf == [x \in MCAddresses |-> IF x = "g" THEN Single("k1") ELSE Single("k2")]

FixedTo(r, n) == [type |-> "fixed", receiver |-> r, amount |-> n]

PolicyOf(n, f) == [minBalance |-> n, feeer |-> f]

\* Two currencies, both with fees.
MCGenesisDesigns == [c \in MCCurrencies |->
    IF c = "X" THEN [amount |-> 12, policy |-> PolicyOf(2, FixedTo("g", 1))]
    ELSE [amount |-> 8, policy |-> PolicyOf(1, FixedTo("g", 1))]]

Amount2(r, c, n, s, d, m) == [x \in MCAddresses |-> [y \in MCCurrencies |->
    IF x = r /\ y = c THEN n ELSE IF x = s /\ y = d THEN m ELSE 0]]

\* Two ways to create a, by the same sender, with fees in one currency and in
\* both; b created by a, which conflicts with the second over b; new policies,
\* which a stale pool lacks; and a payment in both currencies.
MCOps == {
    [type |-> "create-accounts", sender |-> "g", signs |-> {"k1"},
     amounts |-> Amount2("a", "X", 5, "a", "Y", 3)],
    [type |-> "create-accounts", sender |-> "g", signs |-> {"k1"},
     amounts |-> Amount2("a", "X", 4, "b", "X", 2)],
    [type |-> "create-accounts", sender |-> "a", signs |-> {"k2"},
     amounts |-> Amount2("b", "X", 2, "b", "Y", 1)],
    [type |-> "currency-policy-updater", currency |-> "X", signs |-> {"n1"},
     policy |-> PolicyOf(3, FixedTo("a", 2))],
    [type |-> "transfers", sender |-> "a", signs |-> {"k2"},
     amounts |-> Amount2("g", "X", 1, "g", "Y", 1)]}
=============================================================================
