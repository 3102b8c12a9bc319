------------------------ MODULE MCOperationProcessor ------------------------
EXTENDS OperationProcessor

MCPubkeys == {"k1", "k2", "k3", "n1", "n2"}

\* keys with one public key, and keys two public keys share
Single(k) ==
    [threshold |-> 3, weight |-> [x \in MCPubkeys |-> IF x = k THEN 3 ELSE 0]]
Both(k, l) ==
    [threshold |-> 3, weight |-> [x \in MCPubkeys |-> IF x \in {k, l} THEN 2 ELSE 0]]

MCAddresses == {"g", "a", "b"}
MCCurrencies == {"X", "Y"}
MCKeysOf == [x \in MCAddresses |->
    CASE x = "g" -> Single("k1") [] x = "a" -> Both("k2", "k3") [] x = "b" -> Single("k3")]
MCNewKeys == {Single("k2")}

FixedTo(r, n) == [type |-> "fixed", receiver |-> r, amount |-> n]
HalfTo(r, lo, hi) ==
    [type |-> "ratio", receiver |-> r, num |-> 1, den |-> 2, min |-> lo, max |-> hi]
NoFeeer == [type |-> "nil"]

PolicyOf(n, f) == [minBalance |-> n, feeer |-> f]

MCGenesisDesigns == [c \in MCCurrencies |->
    IF c = "X" THEN [amount |-> 12, policy |-> PolicyOf(2, FixedTo("g", 1))] ELSE NoDesign]

Amount1(r, c, n) == [x \in MCAddresses |-> [y \in MCCurrencies |->
    IF x = r /\ y = c THEN n ELSE 0]]
Amount2(r, c, n, s, d, m) == [x \in MCAddresses |-> [y \in MCCurrencies |->
    IF x = r /\ y = c THEN n ELSE IF x = s /\ y = d THEN m ELSE 0]]

Transfers(from, ams, signs) ==
    [type |-> "transfers", sender |-> from, amounts |-> ams, signs |-> signs]
CreateAccounts(from, ams, signs) ==
    [type |-> "create-accounts", sender |-> from, amounts |-> ams, signs |-> signs]
KeyUpdater(a, ks, c, signs) ==
    [type |-> "key-updater", target |-> a, keys |-> ks, currency |-> c, signs |-> signs]
CurrencyRegister(c, de, g, signs) ==
    [type |-> "currency-register", currency |-> c, design |-> de, genesis |-> g,
     signs |-> signs]
CurrencyPolicyUpdater(c, po, signs) ==
    [type |-> "currency-policy-updater", currency |-> c, policy |-> po, signs |-> signs]

\* Two ways to create a, two senders that create b, payments back and forth,
\* new keys for a, a payment that only the new keys sign, and a currency and
\* a policy that come in between.
AccountOps == {
    CreateAccounts("g", Amount1("a", "X", 6), {"k1"}),
    CreateAccounts("g", Amount2("a", "X", 2, "b", "X", 3), {"k1"}),
    CreateAccounts("g", Amount1("b", "X", 2), {"k1"}),
    CreateAccounts("a", Amount1("b", "X", 2), {"k2", "k3"}),
    Transfers("a", Amount2("g", "X", 2, "g", "Y", 2), {"k2", "k3"}),
    Transfers("g", Amount1("a", "X", 3), {"k1"}),
    KeyUpdater("a", Single("k2"), "X", {"k2", "k3"}),
    Transfers("a", Amount1("g", "X", 1), {"k2"}),
    CurrencyRegister("Y", [amount |-> 4, policy |-> PolicyOf(1, HalfTo("a", 0, 2))],
                     "a", {"n1", "n2"}),
    CurrencyPolicyUpdater("X", PolicyOf(3, HalfTo("a", 1, F!UnlimitedMaxFeeAmount)),
                          {"n1", "n2"})}

\* Currencies: a second one registered, policies that move the fees of the
\* first to another receiver and of both to another kind of fee, payments in
\* both, and new keys.
CurrencyOps == {
    CreateAccounts("g", Amount1("a", "X", 5), {"k1"}),
    CurrencyRegister("Y", [amount |-> 4, policy |-> PolicyOf(1, HalfTo("a", 0, 2))],
                     "g", {"n1", "n2"}),
    CurrencyRegister("Y", [amount |-> 3, policy |-> PolicyOf(0, NoFeeer)],
                     "a", {"n1", "n2"}),
    CurrencyPolicyUpdater("X", PolicyOf(3, HalfTo("a", 1, F!UnlimitedMaxFeeAmount)), {"n1", "n2"}),
    Transfers("g", Amount2("a", "X", 2, "a", "Y", 2), {"k1"}),
    Transfers("a", Amount1("g", "Y", 1), {"k2", "k3"}),
    CreateAccounts("a", Amount1("b", "X", 2), {"k2", "k3"}),
    KeyUpdater("a", Single("k2"), "X", {"k2", "k3"})}
=============================================================================
