------------------------------ MODULE MCStart ------------------------------
EXTENDS Start

MCPubkeys == {"k1", "k2"}
MCKeys(threshold, w) == [threshold |-> threshold, weight |-> [k \in MCPubkeys |-> w]]
MCAddresses == {"g", "h"}
MCKeysOf == [a \in MCAddresses |-> IF a = "g" THEN MCKeys(3, 2) ELSE MCKeys(1, 1)]
MCCurrencies == {"X", "Y"}

Whole(n) == [kind |-> "int", value |-> n]
Text(n) == [kind |-> "text", value |-> n]
Float(n, d) == [kind |-> "float", num |-> n, den |-> d]

Nil == [type |-> "nil"]
Fixed(v) == [type |-> "fixed", amount |-> v]
Ratio(r, lo, hi) == [type |-> "ratio", ratio |-> r, min |-> lo, max |-> hi]

Currency(c, balance, least, feeer) ==
    [currency |-> c, balance |-> balance, minBalance |-> least, feeer |-> feeer]

Conf(keys, currencies) == [keys |-> keys, currencies |-> currencies]

\* Unquoted integers go up to 7, signed ones to 3: 4 wraps to -4, 7 to -1.
Numbers == {Whole(-1), Whole(0), Whole(2), Whole(4), Whole(7), Text(-1), Text(2), Text(7)}

\* Floats are in steps of a quarter: 33/16 is 2.0 and so 2, as -1.0 is -1; 3.0
\* is written with an exponent; 9/4 and 3/2 are not whole.
Floats == {Float(33, 16), Float(-1, 1), Float(3, 1), Float(9, 4), Float(3, 2)}

MCFeeers ==
    {Nil, [type |-> "unknown"]}
      \cup {Fixed(v) : v \in Numbers \cup Floats \cup {Absent}}
      \cup {Ratio(r, lo, hi) :
              r \in {Absent, Whole(1), Float(0, 2), Float(1, 2), Float(15, 16), Float(2, 2), Float(3, 2)},
              lo \in {Whole(0), Whole(2), Whole(4), Text(5), Float(33, 16)},
              hi \in {Absent, Float(33, 16), Float(-1, 1)} \cup Numbers}

\* One currency with any feeer, or any amounts; several; and no proper account.
MCConfs ==
    {Conf(MCKeys(3, 2), <<Currency("X", Text(9), Whole(1), f)>>) : f \in MCFeeers}
      \cup {Conf(MCKeys(1, 1), <<Currency(c, balance, least, Fixed(Whole(1)))>>) :
              c \in {"X", NoCurrency}, balance \in {Absent, Whole(0), Text(-1), Whole(7)} \cup Floats,
              least \in {Absent, Whole(-1), Text(5)} \cup Floats}
      \cup {Conf(MCKeys(3, 2), <<>>), Conf(NoAccount, <<Currency("X", Text(9), Absent, Nil)>>),
            Conf(MCKeys(5, 2), <<Currency("X", Text(9), Absent, Nil)>>)}
      \cup {Conf(MCKeys(1, 1), <<Currency("X", Text(9), Absent, f), Currency(c, Whole(4), Absent, g)>>) :
              c \in MCCurrencies, f \in {Nil, Fixed(Text(1))}, g \in {Nil, Fixed(Whole(4)), Ratio(Float(1, 2), Whole(0), Absent)}}

Bind(scheme, host, port) == [scheme |-> scheme, host |-> host, port |-> port]
MCMitumBind == Bind("https", "any", 54321)

Digest(network, limiter) == [network |-> network, limiter |-> limiter]
Network(bind, certs) == [bind |-> bind, certs |-> certs]

\* No section; one without a network; binds that clash with mitum's or want
\* certificates, and some that do neither; and rate limiters.
MCDigestConfs ==
    {NoDigest, Digest(NoNetwork, NoLimiter)}
      \cup {Digest(Network(b, certs), NoLimiter) :
              b \in {Bind("https", "any", 54320), Bind("https", "localhost", 54321)},
              certs \in BOOLEAN}
      \cup {Digest(Network(b, FALSE), NoLimiter) :
              b \in {Bind("https", "localhost", 54320), Bind("http", "other", 54321)}}
      \cup {Digest(Network(Bind("http", "any", 54320), FALSE), [period |-> period, limit |-> limit]) :
              period \in {-1, 60}, limit \in {0, 1}}

MCNewDesigns == {[amount |-> 1, policy |-> [minBalance |-> 2, feeer |-> Nil]]}
=============================================================================
